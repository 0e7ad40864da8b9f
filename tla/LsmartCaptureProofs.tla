------------------------- MODULE LsmartCaptureProofs -------------------------
(***************************************************************************)
(* Proofs about LsmartCapture for every number of robots and every set of    *)
(* runs: the sessions the capture builder infers are the true ones, whatever *)
(* is lost or late, wherever the recorder stops.                             *)
(*                                                                          *)
(* The invariant says what may wait on the link of a connection, which of    *)
(* the target's two links is empty, and that the end of the target's first   *)
(* session is captured, or on its way, from the moment its client is gone.   *)
(*                                                                          *)
(* The second part is about what is recorded: what the recorder seals holds   *)
(* every order, what a captured message refers to is captured before it,      *)
(* header ids rise, and a bridge that ends well is answered with a sealed     *)
(* capture. It has five more invariants: where a batch is when its order      *)
(* waits on the fleet's link (StageInv), what was heard of an order when its  *)
(* robot got it (HeardInv), what was heard of a state when a visualization    *)
(* refers to it (PoseInv), how much a robot published by a tick (CountInv),   *)
(* and that nothing which waits or is captured is ahead of the header         *)
(* counters (CalmInv).                                                        *)
(***************************************************************************)
EXTENDS LsmartCapture, DoctorProofs, SequenceTheorems, FiniteSetTheorems, TLAPS

(* The connection c is one its client publishes on. *)
Live(c) == client[c[1]] = "up" /\ c[2] = SessionOfRobot(c[1])

(* What waits on the link of connection c: the fleet's orders and its          *)
(* completion, or what the robot says in that session.                         *)
FromConnection(c, m) ==
    \/ /\ c[1] = Fleet
       /\ m = Control \/ m.topic = "order"
       /\ m.value # "CONNECTION_BROKEN"
    \/ /\ c[1] \in Robots
       /\ m.robot = c[1] /\ m.session = c[2] /\ m.topic # "order" /\ m # Control

LinkInv ==
    \A c \in Connections : \A i \in DOMAIN link[c] :
        /\ FromConnection(c, link[c][i])
        /\ link[c][i].value = "CONNECTION_BROKEN" => i = Len(link[c]) /\ ~Live(c)

First == <<FaultTarget, 1>>
Second == <<FaultTarget, 2>>

(* The target is in its second session for good, and the broker is done with   *)
(* the first by then.                                                          *)
SessionInv ==
    /\ session = 1 => link[Second] = << >>
    /\ session = 2 => link[First] = << >> /\ faultInjected /\ reconnectAt = 0
    /\ reconnectAt # 0 => faultInjected

BreakIsCaptured(r) == \E j \in DOMAIN captured : BrokenIn(captured, j, r)

BreakOnItsWay == link[First] # << >> /\ link[First][Len(link[First])] = Will(First)

(* Clients disconnect in good order. *)
Closing == {"shutdown", "done"}

(* The end of the target's first session is captured before its second begins; *)
(* the end of a robot's session is the last it had to say in it.               *)
BreakInv ==
    /\ rec = "recording" /\ session = 2 => BreakIsCaptured(FaultTarget)
    /\ rec = "recording" /\ session = 1 /\ client[FaultTarget] # "up" /\ pc \notin Closing =>
           BreakIsCaptured(FaultTarget) \/ BreakOnItsWay
    /\ \A r \in Robots : BreakIsCaptured(r) => link[<<r, 1>>] = << >> /\ ~Live(<<r, 1>>)

WireInv == LinkInv /\ SessionInv /\ BreakInv /\ EpochsAreTrue

WireInvariant == TypeOK /\ WireInv

-----------------------------------------------------------------------------
(* Operators *)

LEMMA Numbers ==
    ASSUME job \in Jobs
    PROVE  /\ job.robots \in Nat \ {0} /\ job.ticks \in Nat /\ job.batches \in Nat
           /\ job.faults \in Nat /\ job.limit \in Nat
           /\ job.inject \in BOOLEAN /\ job.slow \in BOOLEAN
           /\ FaultTarget \in Robots /\ FaultTarget \in Nat /\ Fleet \notin Robots
           /\ Robots \subseteq Nat \ {0}
           /\ OutageTicks \in Nat
<1>1. job \in JobType
  BY ConstantsAssumption
<1>2. /\ job.robots \in Nat \ {0} /\ job.ticks \in Nat /\ job.batches \in Nat
      /\ job.faults \in Nat /\ job.limit \in Nat
  BY <1>1 DEF JobType
<1>3. job.inject \in BOOLEAN /\ job.slow \in BOOLEAN
  BY <1>1 DEF JobType
<1>4. /\ FaultTarget \in Robots /\ FaultTarget \in Nat /\ Fleet \notin Robots
      /\ Robots \subseteq Nat \ {0} /\ OutageTicks \in Nat
  BY <1>2, ConstantsAssumption DEF Robots, FaultTarget, Fleet
<1> QED
  BY <1>2, <1>3, <1>4

LEMMA ConnectionShape ==
    ASSUME job \in Jobs
    PROVE  /\ \A c \in Connections :
                  /\ c = <<c[1], c[2]>> /\ c[1] \in Robots \cup {Fleet} /\ c[2] \in {1, 2}
                  /\ c[2] = 2 => c = Second
                  /\ c[1] = Fleet => c = <<Fleet, 1>>
           /\ \A x \in Robots \cup {Fleet} : <<x, 1>> \in Connections
           /\ First \in Connections /\ Second \in Connections
           /\ Fleet # FaultTarget
BY Numbers DEF Connections, First, Second, FaultTarget, Fleet

(* The connection a client publishes on now. *)
LEMMA PresentConnection ==
    ASSUME job \in Jobs, session \in {1, 2}, NEW x \in Robots \cup {Fleet}
    PROVE  /\ ConnectionOf(x) \in Connections
           /\ ConnectionOf(x) = <<x, SessionOfRobot(x)>>
           /\ SessionOfRobot(x) \in {1, 2}
           /\ x # FaultTarget => ConnectionOf(x) = <<x, 1>>
           /\ \A c \in Connections : c[1] = x /\ c # ConnectionOf(x) => ~Live(c)
           /\ client[x] = "up" => Live(ConnectionOf(x))
<1>1. ConnectionOf(x) = <<x, SessionOfRobot(x)>> /\ SessionOfRobot(x) \in {1, 2}
      /\ (x # FaultTarget => SessionOfRobot(x) = 1)
  BY DEF ConnectionOf, Conn, SessionOfRobot, Fleet, FaultTarget
<1>2. ConnectionOf(x) \in Connections
  BY <1>1, ConnectionShape DEF First, Second
<1>3. \A c \in Connections : c[1] = x /\ c # ConnectionOf(x) => ~Live(c)
  BY <1>1, ConnectionShape DEF Live
<1>4. client[x] = "up" => Live(ConnectionOf(x))
  BY <1>1 DEF Live
<1> QED
  BY <1>1, <1>2, <1>3, <1>4

LEMMA MessageTypes ==
    ASSUME NEW r \in Robots
    PROVE  /\ \A h \in Nat, s \in {1, 2} :
                  /\ Connection(r, h, "ONLINE", s) \in Messages
                  /\ Connection(r, h, "CONNECTION_BROKEN", s) \in Messages
                  /\ \A n \in Nat : /\ State(r, h, s, n) \in Messages
                                    /\ Visualization(r, h, s, n) \in Messages
           /\ \A h, n \in Nat : Order(r, h, n) \in Messages
BY DEF Connection, State, Visualization, Order, Message, Messages

LEMMA ControlType == Control \in Messages /\ Control.value # "CONNECTION_BROKEN"
BY DEF Control, Message, Messages

LEMMA Sets ==
    ASSUME job' = job
    PROVE  Robots' = Robots /\ Connections' = Connections /\ Messages' = Messages
BY DEF Robots, Connections, Messages

LEMMA SameLive ==
    ASSUME UNCHANGED <<client, session>>
    PROVE  \A c : Live(c)' <=> Live(c)
BY DEF Live, SessionOfRobot

LEMMA SameSource ==
    ASSUME job' = job
    PROVE  \A c, m : FromConnection(c, m)' <=> FromConnection(c, m)
BY Sets DEF FromConnection, Control, Message

LEMMA SameBreak ==
    /\ captured' = captured => \A r : BreakIsCaptured(r)' <=> BreakIsCaptured(r)
    /\ link'[First] = link[First] => (BreakOnItsWay' <=> BreakOnItsWay)
BY DEF BreakIsCaptured, BrokenIn, BreakOnItsWay, Will, First, Connection, Message

LEMMA EpochFrame ==
    ASSUME EpochsAreTrue, captured' = captured
    PROVE  EpochsAreTrue'
BY DEF EpochsAreTrue, FromFleet, SessionOf, BrokenIn

LEMMA LinkShape ==
    ASSUME TypeOK, NEW c \in Connections
    PROVE  link[c] \in Seq(Messages) /\ Len(link[c]) \in Nat /\ DOMAIN link[c] = 1 .. Len(link[c])
<1>1. link[c] \in Seq(Messages)
  BY DEF TypeOK
<1> QED
  BY <1>1, LenProperties

-----------------------------------------------------------------------------
(* Steps that leave the links, the clients and the capture alone *)

QuietVars == <<job, client, session, faultInjected, reconnectAt, link, captured>>

LEMMA QuietStep ==
    ASSUME job \in Jobs, WireInv, UNCHANGED QuietVars,
           rec' = "recording" => rec = "recording",
           pc \in Closing => pc' \in Closing
    PROVE  WireInv'
<1>1. /\ job' = job /\ client' = client /\ session' = session /\ link' = link
      /\ captured' = captured /\ faultInjected' = faultInjected /\ reconnectAt' = reconnectAt
  BY DEF QuietVars
<1>2. /\ Robots' = Robots /\ Connections' = Connections
      /\ \A c : Live(c)' <=> Live(c)
      /\ \A c, m : FromConnection(c, m)' <=> FromConnection(c, m)
      /\ \A r : BreakIsCaptured(r)' <=> BreakIsCaptured(r)
      /\ BreakOnItsWay' <=> BreakOnItsWay
  BY <1>1, Sets, SameLive, SameSource, SameBreak
<1>3. LinkInv'
  <2>1. SUFFICES ASSUME NEW c \in Connections, NEW i \in DOMAIN link[c]
                 PROVE  /\ FromConnection(c, link[c][i])'
                        /\ link[c][i].value = "CONNECTION_BROKEN" =>
                               i = Len(link[c]) /\ ~Live(c)'
    BY <1>1, <1>2 DEF LinkInv
  <2>2. FromConnection(c, link[c][i])' <=> FromConnection(c, link[c][i])
    BY <1>1, <1>2
  <2> QED
    BY <1>2, <2>2 DEF WireInv, LinkInv
<1>4. SessionInv'
  BY <1>1 DEF WireInv, SessionInv, First, Second
<1>5. BreakInv'
  BY <1>1, <1>2 DEF WireInv, BreakInv
<1>6. EpochsAreTrue'
  BY <1>1, EpochFrame DEF WireInv
<1> QED
  BY <1>3, <1>4, <1>5, <1>6 DEF WireInv

-----------------------------------------------------------------------------
(* Clients publish *)

LEMMA Joined ==
    ASSUME NEW S, NEW s \in Seq(S), NEW t \in Seq(S)
    PROVE  /\ s \o t \in Seq(S)
           /\ DOMAIN s \subseteq DOMAIN (s \o t)
           /\ \A i \in DOMAIN (s \o t) :
                  \/ i \in DOMAIN s /\ (s \o t)[i] = s[i]
                  \/ \E j \in DOMAIN t : (s \o t)[i] = t[j]
<1>1. /\ s \o t \in Seq(S) /\ Len(s \o t) = Len(s) + Len(t)
      /\ \A i \in 1 .. Len(s) + Len(t) :
             (s \o t)[i] = IF i <= Len(s) THEN s[i] ELSE t[i - Len(s)]
  BY ConcatProperties
<1>2. /\ DOMAIN (s \o t) = 1 .. Len(s) + Len(t)
      /\ DOMAIN s = 1 .. Len(s) /\ DOMAIN t = 1 .. Len(t)
      /\ Len(s) \in Nat /\ Len(t) \in Nat
  BY <1>1, LenProperties
<1>3. \A i \in 1 .. Len(s) + Len(t) : i > Len(s) => i - Len(s) \in 1 .. Len(t)
  BY <1>2
<1>4. 1 .. Len(s) \subseteq 1 .. Len(s) + Len(t)
  BY <1>2
<1> QED
  BY <1>1, <1>2, <1>3, <1>4

(* What may be published on connection c. *)
Speech(c, output) ==
    /\ Live(c)
    /\ output \in Seq(Messages)
    /\ \A i \in DOMAIN output :
           FromConnection(c, output[i]) /\ output[i].value # "CONNECTION_BROKEN"

LEMMA SayStep ==
    ASSUME TypeOK, WireInv, NEW speakers \in SUBSET Connections, NEW output,
           \A c \in speakers : Speech(c, output[c]),
           link' = [c \in Connections |->
                        IF c \in speakers THEN link[c] \o output[c] ELSE link[c]],
           UNCHANGED <<job, client, session, faultInjected, reconnectAt, rec, captured>>,
           pc \in Closing => pc' \in Closing
    PROVE  link' \in [Connections -> Seq(Messages)] /\ WireInv'
<1>1. \A c \in Connections \ speakers : link'[c] = link[c]
  OBVIOUS
<1>2. \A c \in speakers :
          /\ c \in Connections /\ Live(c)
          /\ link'[c] \in Seq(Messages)
          /\ \A i \in DOMAIN link'[c] :
                 \/ i \in DOMAIN link[c] /\ link'[c][i] = link[c][i]
                 \/ \E j \in DOMAIN output[c] : link'[c][i] = output[c][j]
  <2> TAKE c \in speakers
  <2>1. c \in Connections /\ Live(c) /\ link'[c] = link[c] \o output[c]
        /\ output[c] \in Seq(Messages)
    BY DEF Speech
  <2>2. link[c] \in Seq(Messages)
    BY <2>1, LinkShape
  <2>3. \A s, t \in Seq(Messages) :
            /\ s \o t \in Seq(Messages)
            /\ \A i \in DOMAIN (s \o t) :
                   \/ i \in DOMAIN s /\ (s \o t)[i] = s[i]
                   \/ \E j \in DOMAIN t : (s \o t)[i] = t[j]
    BY Joined
  <2> QED
    BY <2>1, <2>2, <2>3
<1>3. link' \in [Connections -> Seq(Messages)]
  BY <1>1, <1>2, LinkShape
<1>4. /\ Robots' = Robots /\ Connections' = Connections
      /\ \A c : Live(c)' <=> Live(c)
      /\ \A c, m : FromConnection(c, m)' <=> FromConnection(c, m)
      /\ \A r : BreakIsCaptured(r)' <=> BreakIsCaptured(r)
      /\ FaultTarget \in Robots /\ job \in Jobs
      /\ First \in Connections /\ Second \in Connections
      /\ \A r \in Robots : <<r, 1>> \in Connections
  BY Sets, SameLive, SameSource, SameBreak, ConnectionShape, Numbers DEF TypeOK
<1>5. LinkInv'
  <2>1. SUFFICES ASSUME NEW c \in Connections, NEW i \in DOMAIN link'[c]
                 PROVE  /\ FromConnection(c, link'[c][i])
                        /\ link'[c][i].value = "CONNECTION_BROKEN" =>
                               i = Len(link'[c]) /\ ~Live(c)
    BY <1>4 DEF LinkInv
  <2>2. CASE c \notin speakers
    BY <1>1, <2>2 DEF WireInv, LinkInv
  <2>3. CASE c \in speakers /\ i \in DOMAIN link[c] /\ link'[c][i] = link[c][i]
    <3>1. /\ FromConnection(c, link[c][i])
          /\ link[c][i].value = "CONNECTION_BROKEN" => ~Live(c)
      BY <2>3 DEF WireInv, LinkInv
    <3>2. Live(c)
      BY <1>2, <2>3
    <3> QED
      BY <2>3, <3>1, <3>2
  <2>4. CASE c \in speakers /\ \E j \in DOMAIN output[c] : link'[c][i] = output[c][j]
    BY <2>4 DEF Speech
  <2> QED
    BY <1>2, <2>2, <2>3, <2>4
<1>6. \A c \in Connections : ~Live(c) => link'[c] = link[c]
  BY <1>1, <1>2
<1>7. SessionInv'
  <2>1. session = 1 => ~Live(Second)
    BY DEF Live, Second, SessionOfRobot
  <2>2. session = 2 => ~Live(First)
    BY DEF Live, First, SessionOfRobot
  <2> QED
    BY <1>4, <1>6, <2>1, <2>2 DEF WireInv, SessionInv, First, Second
<1>8. BreakInv'
  <2>1. client[FaultTarget] # "up" => (BreakOnItsWay' <=> BreakOnItsWay)
    <3>1. client[FaultTarget] # "up" => ~Live(First)
      BY DEF Live, First
    <3> QED
      BY <1>4, <1>6, <3>1, SameBreak
  <2>2. \A r \in Robots : ~Live(<<r, 1>>) => link'[<<r, 1>>] = link[<<r, 1>>]
    BY <1>4, <1>6
  <2> QED
    BY <1>4, <2>1, <2>2 DEF WireInv, BreakInv
<1>9. EpochsAreTrue'
  BY EpochFrame DEF WireInv
<1> QED
  BY <1>3, <1>5, <1>7, <1>8, <1>9 DEF WireInv

-----------------------------------------------------------------------------
(* Connections end without DISCONNECT *)

LEMMA CutShape ==
    ASSUME TypeOK, NEW c \in Connections, NEW k \in 0 .. Len(link[c])
    PROVE  /\ Cut(c, k) \in Seq(Messages)
           /\ \A i \in DOMAIN Cut(c, k) :
                  \/ i \in DOMAIN link[c] /\ Cut(c, k)[i] = link[c][i]
                  \/ i = Len(Cut(c, k)) /\ c[1] \in Robots /\ Cut(c, k)[i] = Will(c)
           /\ c[1] \in Robots => Cut(c, k) # << >> /\ Cut(c, k)[Len(Cut(c, k))] = Will(c)
<1>0. /\ job \in Jobs /\ c[1] \in Robots \cup {Fleet} /\ c[2] \in {1, 2}
      /\ Fleet \notin Robots
  BY ConnectionShape, Numbers DEF TypeOK
<1>1. /\ link[c] \in Seq(Messages) /\ Len(link[c]) \in Nat
      /\ DOMAIN link[c] = 1 .. Len(link[c])
  BY LinkShape
<1> DEFINE got == SubSeq(link[c], 1, k)
           rest == IF ClientOf(c) = Fleet THEN << >> ELSE <<Will(c)>>
<1>2. /\ got \in Seq(Messages) /\ Len(got) = k /\ DOMAIN got = 1 .. k
      /\ \A i \in 1 .. k : i \in DOMAIN link[c] /\ got[i] = link[c][i]
  <2>1. k \in Int /\ 1 \in Int /\ \A i \in 1 .. k : link[c][i] \in Messages
    BY <1>1, ElementOfSeq
  <2>2. /\ got \in Seq(Messages)
        /\ Len(got) = IF 1 <= k THEN k - 1 + 1 ELSE 0
        /\ \A i \in 1 .. k - 1 + 1 : got[i] = link[c][1 + i - 1]
    BY <2>1, SubSeqProperties
  <2>3. Len(got) = k /\ DOMAIN got = 1 .. k
    BY <2>2, LenProperties
  <2> QED
    BY <1>1, <2>2, <2>3
<1>3. Cut(c, k) = got \o rest
  BY DEF Cut
<1> HIDE DEF got
<1>4. CASE c[1] = Fleet
  <2>1. rest = << >>
    BY <1>4 DEF ClientOf
  <2>2. Cut(c, k) = got
    BY <1>2, <1>3, <2>1, ConcatEmptySeq
  <2> QED
    BY <1>0, <1>2, <1>4, <2>2
<1>5. CASE c[1] \in Robots
  <2>1. rest = <<Will(c)>> /\ Will(c) \in Messages
    <3>1. 2 * c[2] \in Nat
      BY <1>0
    <3> QED
      BY <1>0, <1>5, <3>1, MessageTypes DEF ClientOf, Will
  <2> HIDE DEF rest
  <2>2. rest \in Seq(Messages) /\ Len(rest) = 1 /\ rest[1] = Will(c)
    BY <2>1
  <2>3. /\ got \o rest \in Seq(Messages) /\ Len(got \o rest) = k + 1
        /\ \A i \in 1 .. k + 1 : (got \o rest)[i] =
               IF i <= k THEN got[i] ELSE rest[i - k]
    <3>1. \A s, t \in Seq(Messages) :
              /\ s \o t \in Seq(Messages) /\ Len(s \o t) = Len(s) + Len(t)
              /\ \A i \in 1 .. Len(s) + Len(t) :
                     (s \o t)[i] = IF i <= Len(s) THEN s[i] ELSE t[i - Len(s)]
      BY ConcatProperties
    <3>2. /\ got \o rest \in Seq(Messages) /\ Len(got \o rest) = Len(got) + Len(rest)
          /\ \A i \in 1 .. Len(got) + Len(rest) :
                 (got \o rest)[i] = IF i <= Len(got) THEN got[i] ELSE rest[i - Len(got)]
      BY <1>2, <2>2, <3>1
    <3> QED
      BY <1>2, <2>2, <3>2
  <2>4. DOMAIN (got \o rest) = 1 .. k + 1
    BY <2>3, LenProperties
  <2>5. (got \o rest)[k + 1] = Will(c) /\ \A i \in 1 .. k : (got \o rest)[i] = got[i]
    BY <2>2, <2>3
  <2>6. got \o rest # << >>
    BY <2>4
  <2>7. \A i \in 1 .. k + 1 : i \in 1 .. k \/ i = k + 1
    OBVIOUS
  <2> QED
    BY <1>0, <1>2, <1>3, <1>5, <2>3, <2>4, <2>5, <2>6, <2>7
<1> QED
  BY <1>0, <1>4, <1>5

LEMMA SeverStep ==
    ASSUME TypeOK, WireInv, NEW x \in Robots \cup {Fleet}, client[x] = "up",
           NEW state \in {"dead", "none"}, NEW kept,
           kept \subseteq 0 .. Len(link[ConnectionOf(x)]),
           Sever(x, state, kept),
           UNCHANGED <<job, session, rec, captured>>,
           session = 2 => UNCHANGED <<faultInjected, reconnectAt>>,
           reconnectAt' # 0 => faultInjected',
           pc \in Closing => pc' \in Closing
    PROVE  /\ client' \in [Robots \cup {Fleet} -> {"up", "dead", "none"}]
           /\ link' \in [Connections -> Seq(Messages)]
           /\ WireInv'
<1>0. /\ job \in Jobs /\ session \in {1, 2} /\ FaultTarget \in Robots /\ Fleet \notin Robots
      /\ First \in Connections /\ Second \in Connections
      /\ \A r \in Robots : <<r, 1>> \in Connections
      /\ Fleet # FaultTarget
  BY Numbers, ConnectionShape DEF TypeOK
<1> PICK c : c = ConnectionOf(x)
  OBVIOUS
<1>1. /\ c \in Connections /\ c = <<x, SessionOfRobot(x)>> /\ c[1] = x
      /\ x # FaultTarget => c = <<x, 1>>
      /\ \A d \in Connections : d[1] = x /\ d # c => ~Live(d)
      /\ Live(c)
  BY <1>0, PresentConnection
<1>2. PICK k \in 0 .. Len(link[c]) : link' = [link EXCEPT ![c] = Cut(c, k)]
  BY DEF Sever
<1>3. /\ client' = [client EXCEPT ![x] = state]
      /\ client \in [Robots \cup {Fleet} -> {"up", "dead", "none"}]
      /\ link \in [Connections -> Seq(Messages)]
  BY DEF Sever, TypeOK
<1>4. /\ Cut(c, k) \in Seq(Messages)
      /\ \A i \in DOMAIN Cut(c, k) :
             \/ i \in DOMAIN link[c] /\ Cut(c, k)[i] = link[c][i]
             \/ i = Len(Cut(c, k)) /\ c[1] \in Robots /\ Cut(c, k)[i] = Will(c)
      /\ c[1] \in Robots => Cut(c, k) # << >> /\ Cut(c, k)[Len(Cut(c, k))] = Will(c)
  BY <1>1, CutShape
<1>5. /\ client' \in [Robots \cup {Fleet} -> {"up", "dead", "none"}]
      /\ link' \in [Connections -> Seq(Messages)]
      /\ link'[c] = Cut(c, k) /\ \A d \in Connections \ {c} : link'[d] = link[d]
      /\ client'[x] # "up" /\ \A y \in (Robots \cup {Fleet}) \ {x} : client'[y] = client[y]
  BY <1>1, <1>2, <1>3, <1>4
<1>6. /\ Robots' = Robots /\ Connections' = Connections
      /\ \A d, m : FromConnection(d, m)' <=> FromConnection(d, m)
      /\ \A r : BreakIsCaptured(r)' <=> BreakIsCaptured(r)
  BY Sets, SameSource, SameBreak
<1>7. /\ \A d \in Connections : Live(d)' => Live(d) /\ d # c
      /\ ~Live(c)'
  <2>1. \A d \in Connections : d[1] \in Robots \cup {Fleet}
    BY <1>0, ConnectionShape
  <2>2. \A r : SessionOfRobot(r)' = SessionOfRobot(r)
    BY DEF SessionOfRobot
  <2>3. \A d \in Connections : d[1] = x => ~Live(d)'
    BY <1>5 DEF Live
  <2>4. ASSUME NEW d \in Connections, d[1] # x, Live(d)' PROVE Live(d) /\ d # c
    <3>1. client'[d[1]] = client[d[1]] /\ d # c
      BY <1>1, <1>5, <2>1, <2>4
    <3> QED
      BY <2>2, <2>4, <3>1 DEF Live
  <2> QED
    BY <1>1, <2>3, <2>4
<1>8. LinkInv'
  <2>1. SUFFICES ASSUME NEW d \in Connections, NEW i \in DOMAIN link'[d]
                 PROVE  /\ FromConnection(d, link'[d][i])
                        /\ link'[d][i].value = "CONNECTION_BROKEN" =>
                               i = Len(link'[d]) /\ ~Live(d)'
    BY <1>6 DEF LinkInv
  <2>2. CASE d # c
    <3>1. link'[d] = link[d]
      BY <1>5, <2>2
    <3> QED
      BY <1>7, <3>1 DEF WireInv, LinkInv
  <2>3. CASE d = c /\ i \in DOMAIN link[c] /\ link'[d][i] = link[c][i]
    <3>1. /\ FromConnection(c, link[c][i])
          /\ link[c][i].value # "CONNECTION_BROKEN"
      BY <1>1, <2>3 DEF WireInv, LinkInv
    <3> QED
      BY <2>3, <3>1
  <2>4. CASE d = c /\ i = Len(link'[c]) /\ c[1] \in Robots /\ link'[d][i] = Will(c)
    <3>1. FromConnection(c, Will(c))
      BY <2>4 DEF FromConnection, Will, Connection, Control, Message
    <3> QED
      BY <1>7, <2>4, <3>1
  <2> QED
    BY <1>4, <1>5, <2>2, <2>3, <2>4
<1>9. SessionInv'
  <2>1. session = 1 => c # Second
    BY <1>1 DEF SessionOfRobot, Second
  <2>2. session = 2 => c # First
    BY <1>1 DEF SessionOfRobot, First
  <2> QED
    BY <1>0, <1>5, <2>1, <2>2 DEF WireInv, SessionInv, First, Second
<1>10. BreakInv'
  <2>1. ASSUME x = FaultTarget, session = 1 PROVE BreakOnItsWay'
    <3>1. c = First /\ c[1] \in Robots
      BY <1>0, <1>1, <2>1 DEF SessionOfRobot, First
    <3>2. link'[First] # << >> /\ link'[First][Len(link'[First])] = Will(First)
      BY <1>4, <1>5, <3>1
    <3> QED
      BY <3>2 DEF BreakOnItsWay, Will, First, Connection, Message
  <2>2. ASSUME x # FaultTarget
        PROVE  client'[FaultTarget] = client[FaultTarget] /\ (BreakOnItsWay' <=> BreakOnItsWay)
    <3>1. c # First
      BY <1>1, <2>2 DEF First
    <3> QED
      BY <1>0, <1>5, <2>2, <3>1, SameBreak
  <2>3. ASSUME NEW r \in Robots, BreakIsCaptured(r)
        PROVE  link'[<<r, 1>>] = << >> /\ ~Live(<<r, 1>>)'
    <3>1. link[<<r, 1>>] = << >> /\ ~Live(<<r, 1>>)
      BY <2>3 DEF WireInv, BreakInv
    <3>2. <<r, 1>> # c
      BY <1>1, <3>1
    <3> QED
      BY <1>0, <1>5, <1>7, <3>1, <3>2
  <2> QED
    BY <1>6, <2>1, <2>2, <2>3 DEF WireInv, BreakInv
<1>11. EpochsAreTrue'
  BY EpochFrame DEF WireInv
<1> QED
  BY <1>5, <1>8, <1>9, <1>10, <1>11 DEF WireInv

(* A client disconnects in good order, or was not connected any more. *)
LEMMA LeaveStep ==
    ASSUME TypeOK, WireInv, NEW x \in Robots \cup {Fleet},
           client' = [client EXCEPT ![x] = "none"],
           UNCHANGED <<job, session, link, rec, captured>>,
           session = 2 => UNCHANGED <<faultInjected, reconnectAt>>,
           reconnectAt' # 0 => faultInjected',
           pc' \in Closing \/ (client[x] # "up" /\ pc \notin Closing)
    PROVE  /\ client' \in [Robots \cup {Fleet} -> {"up", "dead", "none"}]
           /\ WireInv'
<1>0. /\ job \in Jobs /\ FaultTarget \in Robots
      /\ client \in [Robots \cup {Fleet} -> {"up", "dead", "none"}]
      /\ \A d \in Connections : d[1] \in Robots \cup {Fleet}
      /\ \A r \in Robots : <<r, 1>> \in Connections
  BY Numbers, ConnectionShape DEF TypeOK
<1>1. /\ client' \in [Robots \cup {Fleet} -> {"up", "dead", "none"}]
      /\ \A y \in Robots \cup {Fleet} : client'[y] = "up" => client[y] = "up"
      /\ client[x] # "up" => \A y \in Robots \cup {Fleet} : client'[y] # "up" => client[y] # "up"
  BY <1>0
<1>2. /\ Robots' = Robots /\ Connections' = Connections
      /\ \A d, m : FromConnection(d, m)' <=> FromConnection(d, m)
      /\ \A r : BreakIsCaptured(r)' <=> BreakIsCaptured(r)
      /\ BreakOnItsWay' <=> BreakOnItsWay
  BY Sets, SameSource, SameBreak
<1>3. \A d \in Connections : Live(d)' => Live(d)
  BY <1>0, <1>1 DEF Live, SessionOfRobot
<1>4. LinkInv'
  <2>1. SUFFICES ASSUME NEW d \in Connections, NEW i \in DOMAIN link[d]
                 PROVE  /\ FromConnection(d, link[d][i])
                        /\ link[d][i].value = "CONNECTION_BROKEN" =>
                               i = Len(link[d]) /\ ~Live(d)'
    BY <1>2 DEF LinkInv
  <2> QED
    BY <1>3 DEF WireInv, LinkInv
<1>5. SessionInv'
  BY DEF WireInv, SessionInv, First, Second
<1>6. BreakInv'
  <2>1. ASSUME NEW r \in Robots, BreakIsCaptured(r)
        PROVE  link[<<r, 1>>] = << >> /\ ~Live(<<r, 1>>)'
    BY <1>0, <1>3, <2>1 DEF WireInv, BreakInv
  <2>2. client'[FaultTarget] # "up" /\ pc' \notin Closing =>
            client[FaultTarget] # "up" /\ pc \notin Closing
    BY <1>0, <1>1
  <2> QED
    BY <1>2, <2>1, <2>2 DEF WireInv, BreakInv
<1>7. EpochsAreTrue'
  BY EpochFrame DEF WireInv
<1> QED
  BY <1>1, <1>4, <1>5, <1>6, <1>7 DEF WireInv

-----------------------------------------------------------------------------
(* The target comes back *)

LEMMA ReconnectStep ==
    ASSUME TypeOK, WireInv, Reconnect
    PROVE  /\ client' \in [Robots \cup {Fleet} -> {"up", "dead", "none"}]
           /\ link' \in [Connections -> Seq(Messages)]
           /\ WireInv'
<1>0. /\ job \in Jobs /\ session \in {1, 2} /\ FaultTarget \in Robots
      /\ client \in [Robots \cup {Fleet} -> {"up", "dead", "none"}]
      /\ link \in [Connections -> Seq(Messages)]
      /\ \A d \in Connections : d[1] \in Robots \cup {Fleet} /\ d[2] \in {1, 2}
                                /\ d = <<d[1], d[2]>>
      /\ First \in Connections /\ Second \in Connections
      /\ \A r \in Robots : <<r, 1>> \in Connections
  BY Numbers, ConnectionShape DEF TypeOK
<1>1. /\ pc = "faults" /\ pc' = "publish" /\ client[FaultTarget] = "none"
      /\ reconnectAt # 0 /\ link[First] = << >> /\ session' = 2 /\ reconnectAt' = 0
      /\ client' = [client EXCEPT ![FaultTarget] = "up"]
      /\ link' = [link EXCEPT ![Second] = Greeting]
      /\ UNCHANGED <<job, faultInjected, rec, captured>>
  BY DEF Reconnect, ShouldReconnect, FirstSessionEnded, First, Second, recVars
<1>2. session = 1 /\ faultInjected
  BY <1>0, <1>1 DEF WireInv, SessionInv
<1>3. rec = "recording" => BreakIsCaptured(FaultTarget)
  BY <1>1, <1>2 DEF WireInv, BreakInv, BreakOnItsWay, Closing
<1>4. /\ Greeting \in Seq(Messages)
      /\ \A i \in DOMAIN Greeting :
             FromConnection(Second, Greeting[i]) /\ Greeting[i].value # "CONNECTION_BROKEN"
  <2> DEFINE online == Connection(FaultTarget, 4, "ONLINE", 2)
  <2>1. /\ online \in Messages /\ FromConnection(Second, online)
        /\ online.value # "CONNECTION_BROKEN"
    <3>1. online \in Messages
      BY <1>0, MessageTypes
    <3> QED
      BY <1>0, <3>1 DEF FromConnection, Second, Connection, Control, Message
  <2>2. Greeting = << >> \/ Greeting = <<online>>
    BY DEF Greeting
  <2> HIDE DEF online
  <2>3. CASE Greeting = << >>
    BY <2>3
  <2>4. CASE Greeting = <<online>>
    <3>1. <<online>> \in Seq(Messages) /\ \A i \in DOMAIN <<online>> : <<online>>[i] = online
      BY <2>1
    <3> QED
      BY <2>1, <2>4, <3>1
  <2> QED
    BY <2>2, <2>3, <2>4
<1>5. /\ client' \in [Robots \cup {Fleet} -> {"up", "dead", "none"}]
      /\ link' \in [Connections -> Seq(Messages)]
      /\ link'[Second] = Greeting /\ \A d \in Connections \ {Second} : link'[d] = link[d]
      /\ client'[FaultTarget] = "up"
      /\ \A y \in (Robots \cup {Fleet}) \ {FaultTarget} : client'[y] = client[y]
  BY <1>0, <1>1, <1>4
<1>6. /\ Robots' = Robots /\ Connections' = Connections
      /\ \A d, m : FromConnection(d, m)' <=> FromConnection(d, m)
      /\ \A r : BreakIsCaptured(r)' <=> BreakIsCaptured(r)
  BY <1>1, Sets, SameSource, SameBreak
<1>7. \A d \in Connections : d[1] # FaultTarget => (Live(d)' <=> Live(d))
  BY <1>0, <1>5 DEF Live, SessionOfRobot
<1>8. LinkInv'
  <2>1. SUFFICES ASSUME NEW d \in Connections, NEW i \in DOMAIN link'[d]
                 PROVE  /\ FromConnection(d, link'[d][i])
                        /\ link'[d][i].value = "CONNECTION_BROKEN" =>
                               i = Len(link'[d]) /\ ~Live(d)'
    BY <1>6 DEF LinkInv
  <2>2. CASE d = Second
    BY <1>4, <1>5, <2>2
  <2>3. CASE d # Second
    <3>1. link'[d] = link[d]
      BY <1>5, <2>3
    <3>2. d # First
      BY <1>1, <3>1
    <3>3. d[1] # FaultTarget
      BY <1>0, <2>3, <3>2 DEF First, Second
    <3> QED
      BY <1>7, <3>1, <3>3 DEF WireInv, LinkInv
  <2> QED
    BY <2>2, <2>3
<1>9. SessionInv'
  <2>1. link'[First] = << >>
    BY <1>0, <1>1, <1>5 DEF First, Second
  <2> QED
    BY <1>1, <1>2, <2>1 DEF SessionInv, First, Second
<1>10. BreakInv'
  <2>1. ASSUME NEW r \in Robots, BreakIsCaptured(r)
        PROVE  link'[<<r, 1>>] = << >> /\ ~Live(<<r, 1>>)'
    <3>1. link[<<r, 1>>] = << >> /\ ~Live(<<r, 1>>)
      BY <2>1 DEF WireInv, BreakInv
    <3>2. link'[<<r, 1>>] = << >>
      BY <1>0, <1>5, <3>1 DEF Second
    <3>3. ~Live(<<r, 1>>)'
      <4>1. CASE r = FaultTarget
        BY <1>1, <4>1 DEF Live, SessionOfRobot
      <4>2. CASE r # FaultTarget
        BY <1>0, <1>7, <3>1, <4>2
      <4> QED
        BY <4>1, <4>2
    <3> QED
      BY <3>2, <3>3
  <2> QED
    BY <1>1, <1>3, <1>6, <2>1 DEF BreakInv
<1>11. EpochsAreTrue'
  BY <1>1, EpochFrame DEF WireInv
<1> QED
  BY <1>5, <1>8, <1>9, <1>10, <1>11 DEF WireInv

-----------------------------------------------------------------------------
(* The broker routes the head of a link *)

LEMMA RouteShape ==
    ASSUME TypeOK, NEW c \in Connections, Route(c)
    PROVE  /\ link \in [Connections -> Seq(Messages)] /\ link[c] # << >>
           /\ DOMAIN link[c] = 1 .. Len(link[c]) /\ Len(link[c]) \in Nat \ {0}
           /\ 1 \in DOMAIN link[c]
           /\ Head(link[c]) = link[c][1] /\ link[c][1] \in Messages
           /\ link' \in [Connections -> Seq(Messages)]
           /\ \A d \in Connections \ {c} : link'[d] = link[d]
           /\ Len(link'[c]) = Len(link[c]) - 1
           /\ DOMAIN link'[c] = 1 .. Len(link[c]) - 1
           /\ \A i \in 1 .. Len(link[c]) - 1 : link'[c][i] = link[c][i + 1]
           /\ Len(link[c]) = 1 => link'[c] = << >>
           /\ UNCHANGED <<job, simVars, pc, client, lastTick, faultVars, headerVars>>
<1>1. /\ link \in [Connections -> Seq(Messages)] /\ link[c] # << >>
      /\ link[c] \in Seq(Messages) /\ Len(link[c]) \in Nat
      /\ DOMAIN link[c] = 1 .. Len(link[c])
      /\ link' = [link EXCEPT ![c] = Tail(link[c])]
      /\ UNCHANGED <<job, simVars, pc, client, lastTick, faultVars, headerVars>>
  BY LinkShape DEF TypeOK, Route
<1>2. Len(link[c]) # 0
  BY <1>1, EmptySeq
<1>3. /\ Tail(link[c]) \in Seq(Messages) /\ Len(Tail(link[c])) = Len(link[c]) - 1
      /\ \A i \in 1 .. Len(Tail(link[c])) : Tail(link[c])[i] = link[c][i + 1]
  BY <1>1, HeadTailProperties
<1>4. DOMAIN Tail(link[c]) = 1 .. Len(link[c]) - 1
  BY <1>3, LenProperties
<1>5. 1 \in 1 .. Len(link[c])
  BY <1>1, <1>2
<1>6. Head(link[c]) = link[c][1] /\ link[c][1] \in Messages
  BY <1>1, <1>5, ElementOfSeq DEF Head
<1>7. Len(link[c]) = 1 => Tail(link[c]) = << >>
  <2>1. \A s \in Seq(Messages) : Len(s) = 0 => s = << >>
    BY EmptySeq
  <2>2. Len(link[c]) = 1 => Len(Tail(link[c])) = 0
    <3>1. Len(Tail(link[c])) = Len(link[c]) - 1
      BY <1>3
    <3> QED
      BY <3>1
  <2>3. Tail(link[c]) \in Seq(Messages)
    BY <1>3
  <2> QED
    BY <2>1, <2>2, <2>3
<1>8. link' \in [Connections -> Seq(Messages)] /\ link'[c] = Tail(link[c])
      /\ \A d \in Connections \ {c} : link'[d] = link[d]
  BY <1>1, <1>3
<1> QED
  BY <1>1, <1>2, <1>3, <1>4, <1>5, <1>6, <1>7, <1>8

LEMMA RouteOutcome ==
    ASSUME TypeOK, NEW c \in Connections, Route(c)
    PROVE  LET m == link[c][1]
           IN  /\ faults' \in 0 .. job.faults
               /\ rec' \in {"recording", "sealed", "overflow", "failed"}
               /\ rec' = "recording" => rec = "recording"
               /\ \/ captured' = captured
                  \/ captured' = Append(captured, m) /\ rec = "recording" /\ m # Control
               /\ m.topic = "connection" /\ rec' = "recording" =>
                      captured' = Append(captured, m)
               /\ batch' \in [Robots -> BatchStages]
<1> DEFINE m == link[c][1]
<1>0. /\ Head(link[c]) = m /\ job.faults \in Nat /\ faults \in 0 .. job.faults
      /\ rec \in {"recording", "sealed", "overflow", "failed"}
      /\ batch \in [Robots -> BatchStages] /\ job' = job
  <2>1. Head(link[c]) = m /\ job' = job
    BY RouteShape
  <2>2. job.faults \in Nat
    BY Numbers DEF TypeOK
  <2> HIDE DEF m
  <2> QED
    BY <2>1, <2>2 DEF TypeOK
<1> HIDE DEF m
<1>1. PICK missed \in MayMiss(m) :
          /\ faults' = IF missed = "nobody" THEN faults ELSE faults + 1
          /\ IF rec = "recording" /\ missed # "recorder" THEN Record(m) ELSE UNCHANGED recVars
          /\ batch' = IF m.topic = "order" /\ missed # "robot" /\ client[m.robot] = "up"
                      THEN [batch EXCEPT ![m.robot] = "carried"] ELSE batch
  BY <1>0 DEF Route, Deliver
<1>2. /\ m.topic = "connection" => missed # "recorder"
      /\ missed # "nobody" => MayFault
  BY <1>1 DEF MayMiss, Unreliable
<1>3. faults' \in 0 .. job.faults
  BY <1>0, <1>1, <1>2 DEF MayFault
<1>4. batch' \in [Robots -> BatchStages]
  BY <1>0, <1>1 DEF BatchStages
<1>5. CASE rec = "recording" /\ missed # "recorder"
  <2>1. Record(m)
    BY <1>1, <1>5
  <2>2. \/ rec' \in {"overflow", "sealed"} /\ captured' = captured
        \/ rec' = rec /\ captured' = Append(captured, m) /\ m # Control
    BY <2>1 DEF Record
  <2> QED
    BY <1>0, <1>3, <1>4, <1>5, <2>2 DEF m
<1>6. CASE ~(rec = "recording" /\ missed # "recorder")
  <2>1. rec' = rec /\ captured' = captured
    BY <1>1, <1>6 DEF recVars
  <2>2. rec = "recording" => m.topic # "connection"
    BY <1>2, <1>6
  <2> QED
    BY <1>0, <1>3, <1>4, <2>1, <2>2 DEF m
<1> QED
  BY <1>5, <1>6

LEMMA Grown ==
    ASSUME TypeOK, NEW m \in Messages
    PROVE  LET n == Len(captured) + 1
           IN  /\ Len(captured) \in Nat /\ DOMAIN captured = 1 .. Len(captured)
               /\ Append(captured, m) \in Seq(Messages)
               /\ DOMAIN Append(captured, m) = 1 .. n
               /\ \A i \in 1 .. Len(captured) : Append(captured, m)[i] = captured[i]
               /\ Append(captured, m)[n] = m
BY AppendProperties, LenProperties DEF TypeOK

LEMMA RouteKeepsLinks ==
    ASSUME TypeOK, WireInv, NEW c \in Connections, Route(c)
    PROVE  LinkInv' /\ SessionInv'
<1>0. /\ link[c] # << >> /\ Len(link[c]) \in Nat \ {0} /\ DOMAIN link[c] = 1 .. Len(link[c])
      /\ \A d \in Connections \ {c} : link'[d] = link[d]
      /\ Len(link'[c]) = Len(link[c]) - 1 /\ DOMAIN link'[c] = 1 .. Len(link[c]) - 1
      /\ \A i \in 1 .. Len(link[c]) - 1 : link'[c][i] = link[c][i + 1]
      /\ UNCHANGED <<job, client, faultVars>>
      /\ First \in Connections /\ Second \in Connections
  BY RouteShape, ConnectionShape DEF TypeOK
<1>1. UNCHANGED <<job, client, session, faultInjected, reconnectAt>>
  BY <1>0 DEF faultVars
<1>2. /\ Connections' = Connections
      /\ \A d : Live(d)' <=> Live(d)
      /\ \A d, m : FromConnection(d, m)' <=> FromConnection(d, m)
  BY <1>1, Sets, SameLive, SameSource
<1>3. LinkInv'
  <2>1. SUFFICES ASSUME NEW d \in Connections, NEW i \in DOMAIN link'[d]
                 PROVE  /\ FromConnection(d, link'[d][i])
                        /\ link'[d][i].value = "CONNECTION_BROKEN" =>
                               i = Len(link'[d]) /\ ~Live(d)
    BY <1>2 DEF LinkInv
  <2>2. CASE d # c
    <3>1. link'[d] = link[d]
      BY <1>0, <2>2
    <3> QED
      BY <3>1 DEF WireInv, LinkInv
  <2>3. CASE d = c
    <3>1. i + 1 \in DOMAIN link[d] /\ link'[d][i] = link[d][i + 1]
          /\ (i + 1 = Len(link[d]) => i = Len(link'[d]))
      BY <1>0, <2>3
    <3>2. /\ FromConnection(d, link[d][i + 1])
          /\ link[d][i + 1].value = "CONNECTION_BROKEN" =>
                 i + 1 = Len(link[d]) /\ ~Live(d)
      BY <3>1 DEF WireInv, LinkInv
    <3> QED
      BY <3>1, <3>2
  <2> QED
    BY <2>2, <2>3
<1>4. SessionInv'
  <2>1. \A d \in Connections : link[d] = << >> => link'[d] = << >>
    BY <1>0
  <2> QED
    BY <1>0, <1>1, <2>1 DEF WireInv, SessionInv, First, Second
<1> QED
  BY <1>3, <1>4

(* The message routed, and what the recorder makes of it. *)
LEMMA RouteKeepsBreak ==
    ASSUME TypeOK, WireInv, NEW c \in Connections, Route(c)
    PROVE  BreakInv'
<1> PICK m : m = link[c][1]
  OBVIOUS
<1>0. /\ link[c] # << >> /\ Len(link[c]) \in Nat \ {0} /\ m \in Messages
      /\ 1 \in DOMAIN link[c]
      /\ \A d \in Connections \ {c} : link'[d] = link[d]
      /\ Len(link'[c]) = Len(link[c]) - 1
      /\ DOMAIN link'[c] = 1 .. Len(link[c]) - 1
      /\ \A i \in 1 .. Len(link[c]) - 1 : link'[c][i] = link[c][i + 1]
      /\ Len(link[c]) = 1 => link'[c] = << >>
      /\ UNCHANGED <<job, pc, client, faultVars>>
  BY RouteShape
<1>1. /\ \/ captured' = captured
         \/ captured' = Append(captured, m) /\ rec = "recording" /\ m # Control
      /\ rec' = "recording" => rec = "recording"
      /\ m.topic = "connection" /\ rec' = "recording" => captured' = Append(captured, m)
  BY RouteOutcome
<1>2. /\ FromConnection(c, m)
      /\ m.value = "CONNECTION_BROKEN" => 1 = Len(link[c]) /\ ~Live(c)
  BY <1>0 DEF WireInv, LinkInv
<1>3. /\ FaultTarget \in Robots /\ First \in Connections /\ Second \in Connections
      /\ \A r \in Robots : <<r, 1>> \in Connections
      /\ c = <<c[1], c[2]>> /\ c[2] \in {1, 2} /\ (c[2] = 2 => c = Second)
      /\ Fleet \notin Robots /\ session \in {1, 2}
  BY Numbers, ConnectionShape DEF TypeOK
<1>4. UNCHANGED <<job, pc, client, session>>
  BY <1>0 DEF faultVars
<1>5. /\ Robots' = Robots /\ \A d : Live(d)' <=> Live(d)
  BY <1>4, Sets, SameLive
<1>6. /\ \A j \in DOMAIN captured : j \in DOMAIN captured' /\ captured'[j] = captured[j]
      /\ captured' = Append(captured, m) => \E j \in DOMAIN captured' : captured'[j] = m
      /\ \A j \in DOMAIN captured' :
             (j \in DOMAIN captured /\ captured'[j] = captured[j]) \/ captured'[j] = m
  <2>1. CASE captured' = captured
    <3>1. captured # Append(captured, m)
      BY <1>0, Grown
    <3> QED
      BY <2>1, <3>1
  <2>2. CASE captured' = Append(captured, m)
    BY <1>0, <2>2, Grown
  <2> QED
    BY <1>1, <2>1, <2>2
<1>7. \A r : BreakIsCaptured(r) => BreakIsCaptured(r)'
  BY <1>6 DEF BreakIsCaptured, BrokenIn
<1>8. ASSUME BreakOnItsWay, rec' = "recording"
      PROVE  BreakIsCaptured(FaultTarget)' \/ BreakOnItsWay'
  <2>1. CASE c # First
    <3>1. link'[First] = link[First]
      BY <1>0, <1>3, <2>1
    <3> QED
      BY <1>8, <3>1, SameBreak
  <2>2. CASE c = First /\ Len(link[c]) = 1
    <3>1. m = Will(First)
      BY <1>8, <2>2 DEF BreakOnItsWay
    <3>2. /\ m.robot = FaultTarget /\ m.value = "CONNECTION_BROKEN"
          /\ m.topic = "connection"
      BY <3>1 DEF Will, First, Connection, Message
    <3>3. \E j \in DOMAIN captured' : captured'[j] = m
      BY <1>1, <1>6, <1>8, <3>2
    <3> QED
      BY <3>2, <3>3 DEF BreakIsCaptured, BrokenIn
  <2>3. CASE c = First /\ Len(link[c]) # 1
    <3>1. /\ Len(link[c]) - 1 \in 1 .. Len(link[c]) - 1
          /\ (Len(link[c]) - 1) + 1 = Len(link[c])
      <4>1. \A n \in Nat \ {0} : n # 1 => n - 1 \in 1 .. n - 1 /\ (n - 1) + 1 = n
        OBVIOUS
      <4> QED
        BY <1>0, <2>3, <4>1
    <3>2. link'[c][Len(link'[c])] = Will(First) /\ link'[c] # << >>
      BY <1>0, <1>8, <2>3, <3>1 DEF BreakOnItsWay
    <3> QED
      BY <2>3, <3>2 DEF BreakOnItsWay, Will, First, Connection, Message
  <2> QED
    BY <2>1, <2>2, <2>3
<1>9. ASSUME NEW r \in Robots, BreakIsCaptured(r)'
      PROVE  link'[<<r, 1>>] = << >> /\ ~Live(<<r, 1>>)
  <2>1. \A d \in Connections : link[d] = << >> => link'[d] = << >>
    BY <1>0
  <2>2. CASE BreakIsCaptured(r)
    BY <1>3, <2>1, <2>2 DEF WireInv, BreakInv
  <2>3. CASE ~BreakIsCaptured(r)
    <3>1. m.robot = r /\ m.value = "CONNECTION_BROKEN"
      BY <1>6, <1>9, <2>3 DEF BreakIsCaptured, BrokenIn
    <3>2. c[1] = r
      BY <1>2, <3>1 DEF FromConnection
    <3>3. CASE c[2] = 1
      <4>1. c = <<r, 1>>
        BY <1>3, <3>2, <3>3
      <4> QED
        BY <1>0, <1>2, <3>1, <4>1
    <3>4. CASE c[2] = 2
      <4>1. r = FaultTarget /\ link[Second] # << >>
        BY <1>0, <1>3, <3>2, <3>4 DEF Second
      <4>2. session = 2 /\ link[First] = << >>
        BY <1>3, <4>1 DEF WireInv, SessionInv
      <4>3. ~Live(First)
        BY <4>2 DEF Live, First, SessionOfRobot
      <4> QED
        BY <1>3, <2>1, <4>1, <4>2, <4>3 DEF First
    <3> QED
      BY <1>3, <3>3, <3>4
  <2> QED
    BY <2>2, <2>3
<1> QED
  BY <1>1, <1>4, <1>5, <1>7, <1>8, <1>9 DEF WireInv, BreakInv

LEMMA RouteKeepsEpochs ==
    ASSUME TypeOK, WireInv, NEW c \in Connections, Route(c)
    PROVE  EpochsAreTrue'
<1> PICK m : m = link[c][1]
  OBVIOUS
<1> PICK n : n = Len(captured) + 1
  OBVIOUS
<1>1. /\ \/ captured' = captured
         \/ captured' = Append(captured, m) /\ rec = "recording" /\ m # Control
      /\ m \in Messages /\ link[c] # << >>
      /\ FromConnection(c, m)
  <2>1. 1 \in DOMAIN link[c]
    BY RouteShape
  <2> QED
    BY <2>1, RouteShape, RouteOutcome DEF WireInv, LinkInv
<1>2. CASE captured' = captured
  BY <1>2, EpochFrame DEF WireInv
<1>3. CASE captured' = Append(captured, m) /\ rec = "recording" /\ m # Control
  <2>1. /\ Len(captured) \in Nat /\ DOMAIN captured = 1 .. Len(captured)
        /\ DOMAIN captured' = 1 .. n
        /\ \A i \in 1 .. Len(captured) : captured'[i] = captured[i]
        /\ captured'[n] = m
    BY <1>1, <1>3, Grown
  <2>2. /\ c = <<c[1], c[2]>> /\ c[2] \in {1, 2} /\ (c[2] = 2 => c = Second)
        /\ Fleet \notin Robots /\ session \in {1, 2}
    BY ConnectionShape, Numbers DEF TypeOK
  <2>3. ASSUME ~FromFleet(m)
        PROVE  /\ c[1] \in Robots /\ m.robot = c[1] /\ m.session = c[2]
               /\ c[2] = 2 <=> BreakIsCaptured(c[1])
    <3>1. c[1] \in Robots /\ m.robot = c[1] /\ m.session = c[2]
      BY <1>1, <1>3, <2>3 DEF FromConnection, FromFleet
    <3>2. CASE c[2] = 1
      <4>1. ~BreakIsCaptured(c[1])
        BY <1>1, <2>2, <3>1, <3>2 DEF WireInv, BreakInv
      <4> QED
        BY <3>1, <3>2, <4>1
    <3>3. CASE c[2] = 2
      <4>1. c = Second /\ c[1] = FaultTarget
        BY <2>2, <3>3 DEF Second
      <4>2. session = 2
        BY <1>1, <2>2, <4>1 DEF WireInv, SessionInv
      <4>3. BreakIsCaptured(FaultTarget)
        BY <1>3, <4>2 DEF WireInv, BreakInv
      <4> QED
        BY <3>1, <3>3, <4>1, <4>3
    <3> QED
      BY <2>2, <3>2, <3>3
  <2>4. SUFFICES ASSUME NEW i \in 1 .. n, ~FromFleet(captured'[i])
                 PROVE  SessionOf(captured', i) = captured'[i].session
    BY <2>1 DEF EpochsAreTrue, FromFleet, SessionOf, BrokenIn
  <2>5. \A j \in 1 .. i - 1 : j \in 1 .. Len(captured) /\ captured'[j] = captured[j]
    BY <2>1, <2>4
  <2>6. CASE i \in 1 .. Len(captured)
    <3>1. captured'[i] = captured[i]
      BY <2>1, <2>6
    <3>2. SessionOf(captured, i) = captured[i].session
      BY <2>1, <2>4, <2>6, <3>1 DEF WireInv, EpochsAreTrue
    <3>3. SessionOf(captured', i) = SessionOf(captured, i)
      BY <2>5, <3>1 DEF SessionOf, BrokenIn
    <3> QED
      BY <3>1, <3>2, <3>3
  <2>7. CASE i = n
    <3>1. captured'[i] = m /\ i - 1 = Len(captured)
      BY <2>1, <2>7
    <3>2. m.robot = c[1] /\ m.session = c[2] /\ (c[2] = 2 <=> BreakIsCaptured(c[1]))
      BY <2>3, <2>4, <3>1
    <3>3. SessionOf(captured', i) = IF BreakIsCaptured(c[1]) THEN 2 ELSE 1
      BY <2>1, <2>5, <3>1, <3>2 DEF SessionOf, BrokenIn, BreakIsCaptured
    <3> QED
      BY <2>2, <3>1, <3>2, <3>3
  <2>8. i \in 1 .. Len(captured) \/ i = n
    BY <2>1, <2>4
  <2> QED
    BY <2>6, <2>7, <2>8
<1> QED
  BY <1>1, <1>2, <1>3

LEMMA RouteKeeps ==
    ASSUME WireInvariant, NEW c \in Connections, Route(c)
    PROVE  WireInvariant'
<1>1. WireInv'
  BY RouteKeepsLinks, RouteKeepsBreak, RouteKeepsEpochs DEF WireInvariant, WireInv
<1>2. /\ UNCHANGED <<job, simVars, pc, client, lastTick, faultVars, headerVars>>
      /\ link' \in [Connections -> Seq(Messages)] /\ link[c][1] \in Messages
  BY RouteShape DEF WireInvariant
<1>3. /\ faults' \in 0 .. job.faults
      /\ rec' \in {"recording", "sealed", "overflow", "failed"}
      /\ captured' = captured \/ captured' = Append(captured, link[c][1])
      /\ batch' \in [Robots -> BatchStages]
  BY RouteOutcome DEF WireInvariant
<1>4. captured' \in Seq(Messages)
  BY <1>2, <1>3, Grown DEF WireInvariant, TypeOK
<1>5. /\ Robots' = Robots /\ Connections' = Connections /\ Messages' = Messages
  BY <1>2, Sets
<1>6. TypeOK'
  BY <1>2, <1>3, <1>4, <1>5 DEF WireInvariant, TypeOK, simVars, faultVars, headerVars
<1> QED
  BY <1>1, <1>6 DEF WireInvariant

-----------------------------------------------------------------------------
(* The simulation, and the steps of the bridge and the recorder that publish   *)
(* nothing                                                                    *)

LEMMA InitInvariant == Init => WireInvariant
<1> SUFFICES ASSUME Init PROVE WireInvariant
  OBVIOUS
<1>0. /\ job \in Jobs /\ job.ticks \in Nat /\ job.batches \in Nat /\ job.faults \in Nat
      /\ Fleet \notin Robots /\ FaultTarget \in Robots
      /\ \A c \in Connections : c[1] \in Robots \cup {Fleet}
      /\ First \in Connections /\ Second \in Connections
  BY Numbers, ConnectionShape DEF Init
<1> DEFINE online(r) == Connection(r, 1, "ONLINE", 1)
<1>1. \A r \in Robots : online(r) \in Messages
  BY MessageTypes
<1>2. \A c \in Connections :
          \/ link[c] = << >>
          \/ c[1] \in Robots /\ c[2] # 2 /\ link[c] = <<online(c[1])>>
  BY <1>0 DEF Init
<1>3. TypeOK
  <2>1. link \in [Connections -> Seq(Messages)]
    <3> HIDE DEF online
    <3>1. \A m \in Messages : <<m>> \in Seq(Messages)
      OBVIOUS
    <3>2. \A c \in Connections : link[c] \in Seq(Messages)
      BY <1>1, <1>2, <3>1, EmptySeq
    <3> QED
      BY <3>2 DEF Init
  <2>2. /\ tick \in 0 .. job.ticks /\ faults \in 0 .. job.faults
        /\ batches \in [Robots -> 0 .. job.batches]
        /\ accepted \in [Robots -> 0 .. job.batches]
        /\ lastTick \in [Robots -> 0 .. job.ticks]
    BY <1>0 DEF Init
  <2>3. /\ batch \in [Robots -> BatchStages]
        /\ client \in [Robots \cup {Fleet} -> {"up", "dead", "none"}]
        /\ \A h \in {orderHeader, vizHeader, stateHeader} : h \in [Robots -> Nat]
        /\ captured \in Seq(Messages) /\ reconnectAt \in Nat
    BY DEF Init, BatchStages
  <2>4. /\ complete \in BOOLEAN /\ faultInjected \in BOOLEAN
    BY DEF Init
  <2>5. /\ pc \in Phases \cup Ended /\ session \in {1, 2}
        /\ rec \in {"recording", "sealed", "overflow", "failed"}
    BY DEF Init, Phases
  <2> QED
    BY <1>0, <2>1, <2>2, <2>3, <2>4, <2>5 DEF TypeOK
<1>4. LinkInv
  <2>1. ASSUME NEW c \in Connections, NEW i \in DOMAIN link[c]
        PROVE  FromConnection(c, link[c][i]) /\ link[c][i].value # "CONNECTION_BROKEN"
    <3>1. c[1] \in Robots /\ c[2] = 1 /\ link[c] = <<online(c[1])>>
      BY <1>2, <2>1, ConnectionShape, <1>0
    <3>2. link[c][i] = online(c[1])
      <4> HIDE DEF online
      <4> QED
        BY <2>1, <3>1
    <3> QED
      BY <3>1, <3>2 DEF FromConnection, Connection, Control, Message
  <2> QED
    BY <2>1 DEF LinkInv
<1>5. SessionInv
  BY <1>0 DEF Init, SessionInv, Second
<1>6. BreakInv /\ EpochsAreTrue
  <2>1. captured = << >> /\ session = 1 /\ client[FaultTarget] = "up"
    BY <1>0 DEF Init
  <2> QED
    BY <2>1 DEF BreakInv, BreakIsCaptured, EpochsAreTrue
<1> QED
  BY <1>3, <1>4, <1>5, <1>6 DEF WireInvariant, WireInv

LEMMA SimulationKeeps ==
    ASSUME WireInvariant, Simulation
    PROVE  WireInvariant'
<1>0. /\ job \in Jobs /\ job.ticks \in Nat /\ job.batches \in Nat
  BY Numbers DEF WireInvariant, TypeOK
<1>1. /\ UNCHANGED <<job, pc, client, lastTick, faultVars, headerVars, link, recVars, faults>>
  BY DEF Simulation, Simulate, WriteComplete
<1>2. Robots' = Robots /\ Connections' = Connections /\ Messages' = Messages
  BY <1>1, Sets
<1>3. /\ tick' \in 0 .. job.ticks /\ complete' \in BOOLEAN
      /\ batch' \in [Robots -> BatchStages]
      /\ batches' \in [Robots -> 0 .. job.batches]
      /\ accepted' \in [Robots -> 0 .. job.batches]
  <2>0. /\ tick \in 0 .. job.ticks /\ complete \in BOOLEAN
        /\ batch \in [Robots -> BatchStages]
        /\ batches \in [Robots -> 0 .. job.batches]
        /\ accepted \in [Robots -> 0 .. job.batches]
    BY DEF WireInvariant, TypeOK
  <2>1. CASE Simulate
    <3>1. PICK obtain \in SUBSET {r \in Idle : batches[r] < job.batches} :
              /\ batches' = [r \in Robots |-> IF r \in obtain THEN batches[r] + 1
                                              ELSE batches[r]]
              /\ batch' = [r \in Robots |-> IF r \in obtain THEN "queued"
                                            ELSE IF r \in Idle THEN "none" ELSE batch[r]]
      BY <2>1 DEF Simulate
    <3>2. tick' \in 0 .. job.ticks
      BY <1>0, <2>0, <2>1 DEF Simulate, MoreTicks
    <3>3. complete' \in BOOLEAN
      BY <2>0, <2>1 DEF Simulate
    <3>4. batches' \in [Robots -> 0 .. job.batches]
      <4>1. \A r \in obtain : batches[r] < job.batches
        OBVIOUS
      <4> QED
        BY <1>0, <2>0, <3>1, <4>1
    <3>5. batch' \in [Robots -> BatchStages]
      BY <2>0, <3>1 DEF BatchStages
    <3>6. accepted' \in [Robots -> 0 .. job.batches]
      BY <2>0, <2>1 DEF Simulate, CurrentOrder
    <3> QED
      BY <3>2, <3>3, <3>4, <3>5, <3>6
  <2>2. CASE WriteComplete
    BY <2>0, <2>2 DEF WriteComplete
  <2> QED
    BY <2>1, <2>2 DEF Simulation
<1>4. TypeOK'
  BY <1>1, <1>2, <1>3 DEF WireInvariant, TypeOK, faultVars, headerVars, recVars
<1>5. UNCHANGED QuietVars /\ rec' = rec /\ pc' = pc
  BY <1>1 DEF QuietVars, faultVars, recVars
<1>6. WireInv'
  BY <1>0, <1>5, QuietStep DEF WireInvariant
<1> QED
  BY <1>4, <1>6 DEF WireInvariant

LEMMA GoesOn ==
    ASSUME WireInvariant,
           \/ ReceiveDeliveries \/ NoFaultWork \/ NextIteration \/ BridgeFails
           \/ RecorderFails \/ UNCHANGED vars
    PROVE  WireInvariant'
<1>0. /\ job \in Jobs /\ job.faults \in Nat /\ faults \in 0 .. job.faults
      /\ pc \in Phases \cup Ended /\ batch \in [Robots -> BatchStages]
      /\ rec \in {"recording", "sealed", "overflow", "failed"}
  BY Numbers DEF WireInvariant, TypeOK
<1>1. /\ UNCHANGED <<job, simVars, client, lastTick, faultVars, headerVars, link, captured>>
      /\ pc' = pc \/ (pc \notin Closing /\ pc' \in {"faults", "publish", "receive", "failed"})
      /\ rec' = rec \/ rec' = "failed"
      /\ batch' \in [Robots -> BatchStages]
      /\ faults' = faults \/ (MayFault /\ faults' = faults + 1)
  <2>1. CASE ReceiveDeliveries
    BY <1>0, <2>1 DEF ReceiveDeliveries, recVars, BatchStages, Closing
  <2>2. CASE NoFaultWork \/ NextIteration
    BY <1>0, <2>2 DEF NoFaultWork, NextIteration, recVars, Closing
  <2>3. CASE BridgeFails
    BY <1>0, <2>3 DEF BridgeFails, Broken, recVars, Closing
  <2>4. CASE RecorderFails
    BY <1>0, <2>4 DEF RecorderFails
  <2>5. CASE UNCHANGED vars
    BY <1>0, <2>5 DEF vars, simVars, faultVars, headerVars, recVars
  <2> QED
    BY <2>1, <2>2, <2>3, <2>4, <2>5
<1>2. Robots' = Robots /\ Connections' = Connections /\ Messages' = Messages
  BY <1>1, Sets
<1>3. /\ faults' \in 0 .. job.faults /\ pc' \in Phases \cup Ended
      /\ rec' \in {"recording", "sealed", "overflow", "failed"}
  <2>1. faults' \in 0 .. job.faults
    BY <1>0, <1>1 DEF MayFault
  <2> QED
    BY <1>0, <1>1, <2>1 DEF Phases, Ended
<1>4. TypeOK'
  BY <1>1, <1>2, <1>3 DEF WireInvariant, TypeOK, simVars, faultVars, headerVars
<1>5. UNCHANGED QuietVars /\ (rec' = "recording" => rec = "recording")
      /\ (pc \in Closing => pc' \in Closing)
  BY <1>1 DEF QuietVars, faultVars
<1>6. WireInv'
  BY <1>0, <1>5, QuietStep DEF WireInvariant
<1> QED
  BY <1>4, <1>6 DEF WireInvariant

-----------------------------------------------------------------------------
(* Connections are lost, closed and made *)

LEMMA ConnectionsKeep ==
    ASSUME WireInvariant, NEW x \in Robots \cup {Fleet}, ConnectionLost(x) \/ Exit(x)
    PROVE  WireInvariant'
<1>0. /\ job \in Jobs /\ job.faults \in Nat /\ faults \in 0 .. job.faults
      /\ pc \in Phases \cup Ended
  BY Numbers DEF WireInvariant, TypeOK
<1>1. /\ client[x] = "up"
      /\ UNCHANGED <<job, simVars, batch, pc, lastTick, faultVars, headerVars, recVars>>
      /\ faults' = faults \/ (MayFault /\ faults' = faults + 1)
  BY DEF ConnectionLost, Exit
<1>2. PICK state \in {"dead", "none"} : Sever(x, state, 0 .. Len(link[ConnectionOf(x)]))
  BY DEF ConnectionLost, Exit
<1>3. /\ UNCHANGED <<job, session, rec, captured>> /\ UNCHANGED <<faultInjected, reconnectAt>>
      /\ pc' = pc
  BY <1>1 DEF faultVars, recVars
<1>4. reconnectAt' # 0 => faultInjected'
  BY <1>3 DEF WireInvariant, WireInv, SessionInv
<1>5. /\ client' \in [Robots \cup {Fleet} -> {"up", "dead", "none"}]
      /\ link' \in [Connections -> Seq(Messages)]
      /\ WireInv'
  BY <1>1, <1>2, <1>3, <1>4, SeverStep DEF WireInvariant
<1>6. Robots' = Robots /\ Connections' = Connections /\ Messages' = Messages
  BY <1>1, Sets
<1>7. faults' \in 0 .. job.faults
  BY <1>0, <1>1 DEF MayFault
<1>8. TypeOK'
  BY <1>1, <1>5, <1>6, <1>7 DEF WireInvariant, TypeOK, simVars, faultVars, headerVars, recVars
<1> QED
  BY <1>5, <1>8 DEF WireInvariant

LEMMA InjectFaultKeeps == WireInvariant /\ InjectFault => WireInvariant'
<1> SUFFICES ASSUME WireInvariant, InjectFault PROVE WireInvariant'
  OBVIOUS
<1>0. /\ job \in Jobs /\ FaultTarget \in Robots /\ session \in {1, 2} /\ OutageTicks \in Nat
      /\ job.ticks \in Nat /\ lastTick \in [Robots -> 0 .. job.ticks]
      /\ link \in [Connections -> Seq(Messages)]
  BY Numbers DEF WireInvariant, TypeOK
<1>1. /\ pc = "faults" /\ pc' = "publish" /\ ~faultInjected /\ faultInjected' = TRUE
      /\ reconnectAt' = lastTick[FaultTarget] + OutageTicks
      /\ UNCHANGED <<job, simVars, batch, session, lastTick, headerVars, recVars, faults>>
  BY DEF InjectFault, ShouldInjectFault
<1>2. session = 1
  BY <1>0, <1>1 DEF WireInvariant, WireInv, SessionInv
<1>3. reconnectAt' \in Nat
  BY <1>0, <1>1
<1>4. /\ client' \in [Robots \cup {Fleet} -> {"up", "dead", "none"}]
      /\ link' \in [Connections -> Seq(Messages)]
      /\ WireInv'
  <2>0. UNCHANGED <<job, session, rec, captured>> /\ (reconnectAt' # 0 => faultInjected')
        /\ session # 2
    BY <1>1, <1>2 DEF recVars
  <2>1. CASE client[FaultTarget] = "up"
    <3>1. Sever(FaultTarget, "none", Flushed(Conn(FaultTarget)))
      BY <2>1 DEF InjectFault
    <3>2. PICK c \in Connections : c = Conn(FaultTarget) /\ c = ConnectionOf(FaultTarget)
      BY <1>0, PresentConnection, ConnectionShape DEF ConnectionOf
    <3>3. Flushed(c) \subseteq 0 .. Len(link[c])
      <4>1. Len(link[c]) \in Nat
        BY LinkShape DEF WireInvariant
      <4> QED
        BY <4>1 DEF Flushed
    <3> QED
      BY <1>0, <1>1, <2>0, <2>1, <3>1, <3>2, <3>3, SeverStep DEF WireInvariant, Closing
  <2>2. CASE client[FaultTarget] # "up"
    <3>1. client' = [client EXCEPT ![FaultTarget] = "none"] /\ link' = link
      BY <2>2 DEF InjectFault
    <3> QED
      BY <1>0, <1>1, <2>0, <2>2, <3>1, LeaveStep DEF WireInvariant, Closing
  <2> QED
    BY <2>1, <2>2
<1>5. Robots' = Robots /\ Connections' = Connections /\ Messages' = Messages
  BY <1>1, Sets
<1>6. faultInjected' \in BOOLEAN
  BY <1>1
<1>7. TypeOK'
  BY <1>1, <1>3, <1>4, <1>5, <1>6
  DEF WireInvariant, TypeOK, simVars, headerVars, recVars, Phases
<1> QED
  BY <1>4, <1>7 DEF WireInvariant

LEMMA ReconnectKeeps == WireInvariant /\ Reconnect => WireInvariant'
<1> SUFFICES ASSUME WireInvariant, Reconnect PROVE WireInvariant'
  OBVIOUS
<1>1. /\ pc' = "publish" /\ session' = 2 /\ reconnectAt' = 0
      /\ UNCHANGED <<job, simVars, batch, lastTick, faultInjected, headerVars, recVars, faults>>
  BY DEF Reconnect
<1>2. /\ client' \in [Robots \cup {Fleet} -> {"up", "dead", "none"}]
      /\ link' \in [Connections -> Seq(Messages)]
      /\ WireInv'
  BY ReconnectStep DEF WireInvariant
<1>3. Robots' = Robots /\ Connections' = Connections /\ Messages' = Messages
  BY <1>1, Sets
<1>4. faultInjected' \in BOOLEAN
  BY <1>1 DEF WireInvariant, TypeOK
<1>5. TypeOK'
  BY <1>1, <1>2, <1>3, <1>4
  DEF WireInvariant, TypeOK, simVars, headerVars, recVars, Phases
<1> QED
  BY <1>2, <1>5 DEF WireInvariant

LEMMA ShutdownKeeps ==
    ASSUME WireInvariant, NEW x \in Robots \cup {Fleet}, Shutdown(x),
           pc = "shutdown", pc' \in Closing
    PROVE  WireInvariant'
<1>0. job \in Jobs
  BY DEF WireInvariant, TypeOK
<1>1. UNCHANGED <<job, simVars, batch, lastTick, faultVars, headerVars, recVars, faults>>
  BY DEF Shutdown
<1>2. /\ UNCHANGED <<job, session, rec, captured>> /\ UNCHANGED <<faultInjected, reconnectAt>>
  BY <1>1 DEF faultVars, recVars
<1>3. reconnectAt' # 0 => faultInjected'
  BY <1>2 DEF WireInvariant, WireInv, SessionInv
<1>4. /\ client' \in [Robots \cup {Fleet} -> {"up", "dead", "none"}]
      /\ link' \in [Connections -> Seq(Messages)]
      /\ WireInv'
  <2>1. CASE client' = [client EXCEPT ![x] = "none"] /\ link' = link
    <3>1. link' \in [Connections -> Seq(Messages)]
      BY <2>1 DEF WireInvariant, TypeOK
    <3> QED
      BY <1>2, <1>3, <2>1, <3>1, LeaveStep DEF WireInvariant
  <2>2. CASE client[x] = "up" /\ Sever(x, "none", 0 .. Len(link[ConnectionOf(x)]))
    BY <1>2, <1>3, <2>2, SeverStep DEF WireInvariant
  <2> QED
    BY <2>1, <2>2 DEF Shutdown
<1>5. Robots' = Robots /\ Connections' = Connections /\ Messages' = Messages
  BY <1>1, Sets
<1>6. pc' \in Phases \cup Ended
  BY DEF Closing, Phases, Ended
<1>7. TypeOK'
  BY <1>1, <1>4, <1>5, <1>6
  DEF WireInvariant, TypeOK, simVars, faultVars, headerVars, recVars
<1> QED
  BY <1>4, <1>7 DEF WireInvariant

-----------------------------------------------------------------------------
(* The bridge publishes *)

LEMMA FleetSpeaks ==
    ASSUME WireInvariant, client[Fleet] = "up", NEW output \in Seq(Messages),
           \A i \in DOMAIN output :
               /\ output[i] = Control \/ output[i].topic = "order"
               /\ output[i].value # "CONNECTION_BROKEN",
           link' = [link EXCEPT ![<<Fleet, 1>>] = @ \o output],
           UNCHANGED <<job, client, session, faultInjected, reconnectAt, rec, captured>>,
           pc \notin Closing
    PROVE  link' \in [Connections -> Seq(Messages)] /\ WireInv'
<1> DEFINE speakers == {<<Fleet, 1>>}
           said == [c \in speakers |-> output]
<1>1. <<Fleet, 1>> \in Connections /\ link \in [Connections -> Seq(Messages)]
      /\ TypeOK /\ WireInv
  BY ConnectionShape DEF WireInvariant, TypeOK
<1>2. link' = [c \in Connections |-> IF c \in speakers THEN link[c] \o said[c] ELSE link[c]]
  BY <1>1
<1>3. Live(<<Fleet, 1>>)
  BY DEF Live, SessionOfRobot, Fleet, FaultTarget
<1>4. \A i \in DOMAIN output : FromConnection(<<Fleet, 1>>, output[i])
  BY DEF FromConnection
<1>5. \A c \in speakers : Speech(c, said[c])
  BY <1>3, <1>4 DEF Speech
<1>6. speakers \in SUBSET Connections
  BY <1>1
<1> HIDE DEF speakers, said
<1> QED
  BY <1>1, <1>2, <1>5, <1>6, SayStep

LEMMA FinishKeeps == WireInvariant /\ Finish => WireInvariant'
<1> SUFFICES ASSUME WireInvariant, Finish PROVE WireInvariant'
  OBVIOUS
<1>1. /\ client[Fleet] = "up" /\ pc = "check" /\ pc' = "shutdown"
      /\ link' = [link EXCEPT ![<<Fleet, 1>>] = Append(@, Control)]
      /\ UNCHANGED <<job, simVars, batch, client, lastTick, faultVars, headerVars,
                     recVars, faults>>
  BY DEF Finish, Announce
<1>2. <<Control>> \in Seq(Messages) /\ \A i \in DOMAIN <<Control>> : <<Control>>[i] = Control
  BY ControlType
<1>3. link' = [link EXCEPT ![<<Fleet, 1>>] = @ \o <<Control>>]
  <2>1. link[<<Fleet, 1>>] \in Seq(Messages)
    BY ConnectionShape, LinkShape DEF WireInvariant, TypeOK
  <2>2. Append(link[<<Fleet, 1>>], Control) = link[<<Fleet, 1>>] \o <<Control>>
    BY <2>1, ControlType, AppendIsConcat
  <2> QED
    BY <1>1, <2>2
<1>4. UNCHANGED <<job, client, session, faultInjected, reconnectAt, rec, captured>>
  BY <1>1 DEF faultVars, recVars
<1>5. link' \in [Connections -> Seq(Messages)] /\ WireInv'
  <2>1. pc \notin Closing
    BY <1>1 DEF Closing
  <2>2. \A i \in DOMAIN <<Control>> :
            /\ <<Control>>[i] = Control \/ <<Control>>[i].topic = "order"
            /\ <<Control>>[i].value # "CONNECTION_BROKEN"
    BY <1>2, ControlType
  <2> QED
    BY <1>1, <1>2, <1>3, <1>4, <2>1, <2>2, FleetSpeaks
<1>6. Robots' = Robots /\ Connections' = Connections /\ Messages' = Messages
  BY <1>1, Sets
<1>7. TypeOK'
  BY <1>1, <1>5, <1>6
  DEF WireInvariant, TypeOK, simVars, faultVars, headerVars, recVars, Phases
<1> QED
  BY <1>5, <1>7 DEF WireInvariant

(* One order for each robot with a batch that is ready. *)
LEMMA OrdersSaid ==
    ASSUME TypeOK, PublishOrders
    PROVE  \E output \in Seq(Messages) :
               /\ link' = [link EXCEPT ![<<Fleet, 1>>] = @ \o output]
               /\ \A i \in DOMAIN output : \E r \in Ready : output[i] = OrderOf(r)
               /\ \A i, j \in DOMAIN output : output[i].robot = output[j].robot => i = j
               /\ Ready = {} => output = << >>
<1>0. /\ job \in Jobs /\ Robots = 1 .. job.robots /\ job.robots \in Nat /\ job.batches \in Nat
      /\ orderHeader \in [Robots -> Nat] /\ batches \in [Robots -> 0 .. job.batches]
  BY Numbers DEF TypeOK, Robots
<1>1. PICK file \in Ascending(Ready) :
          link' = [link EXCEPT ![<<Fleet, 1>>] = @ \o [i \in DOMAIN file |-> OrderOf(file[i])]]
  BY DEF PublishOrders
<1> PICK output : output = [i \in DOMAIN file |-> OrderOf(file[i])]
  OBVIOUS
<1>2. /\ Cardinality(Ready) \in Nat
      /\ DOMAIN file = 1 .. Cardinality(Ready) /\ \A i \in DOMAIN file : file[i] \in Ready
      /\ \A i, j \in DOMAIN file : file[i] = file[j] => i = j
      /\ Ready \subseteq Robots
  <2>1. Ready \subseteq Robots /\ IsFiniteSet(Robots)
    BY <1>0, FS_Interval DEF Ready
  <2>2. Cardinality(Ready) \in Nat
    BY <2>1, FS_Subset, FS_CardinalityType
  <2> QED
    BY <2>1, <2>2 DEF Ascending, Bijection, Injection, IsInjective
<1>3. \A r \in Robots : OrderOf(r) \in Messages
  <2>0. \A r \in Robots : orderHeader[r] \in Nat /\ batches[r] \in 0 .. job.batches
    BY <1>0
  <2>1. \A r \in Robots : orderHeader[r] + 1 \in Nat /\ batches[r] \in Nat
    BY <1>0, <2>0
  <2> QED
    BY <2>1, MessageTypes DEF OrderOf
<1>4. output \in Seq(Messages)
  <2>1. output \in [1 .. Cardinality(Ready) -> Messages]
    BY <1>2, <1>3
  <2> QED
    BY <1>2, <2>1, SeqDef
<1>5. ASSUME Ready = {} PROVE output = << >>
  <2>1. Cardinality(Ready) = 0
    BY <1>5, FS_EmptySet
  <2>2. DOMAIN output = {} /\ Len(output) = 0
    BY <1>2, <1>4, <2>1, LenProperties
  <2> QED
    BY <1>4, <2>2, EmptySeq
<1>6. /\ \A i \in DOMAIN output : \E r \in Ready : output[i] = OrderOf(r)
      /\ \A i, j \in DOMAIN output : output[i].robot = output[j].robot => i = j
  <2>1. DOMAIN output = DOMAIN file /\ \A i \in DOMAIN file : output[i] = OrderOf(file[i])
    OBVIOUS
  <2>2. \A r : OrderOf(r).robot = r
    BY DEF OrderOf, Order, Message
  <2> QED
    BY <1>2, <2>1, <2>2
<1> QED
  BY <1>1, <1>4, <1>5, <1>6

LEMMA PublishOrdersKeeps == WireInvariant /\ PublishOrders => WireInvariant'
<1> SUFFICES ASSUME WireInvariant, PublishOrders PROVE WireInvariant'
  OBVIOUS
<1>0. /\ job \in Jobs /\ Robots = 1 .. job.robots /\ job.robots \in Nat /\ job.batches \in Nat
      /\ orderHeader \in [Robots -> Nat] /\ batch \in [Robots -> BatchStages]
      /\ batches \in [Robots -> 0 .. job.batches]
      /\ link \in [Connections -> Seq(Messages)]
  BY Numbers DEF WireInvariant, TypeOK, Robots
<1>1. /\ pc = "publish" /\ pc' = "telemetry" /\ (Ready # {} => client[Fleet] = "up")
      /\ batch' = [r \in Robots |-> IF r \in Ready THEN "published" ELSE Discovered[r]]
      /\ orderHeader' = [r \in Robots |-> IF r \in Ready THEN orderHeader[r] + 1
                                          ELSE orderHeader[r]]
      /\ UNCHANGED <<job, simVars, client, lastTick, faultVars, vizHeader, stateHeader,
                     recVars, faults>>
  BY DEF PublishOrders
<1>2. PICK output \in Seq(Messages) :
          /\ link' = [link EXCEPT ![<<Fleet, 1>>] = @ \o output]
          /\ \A i \in DOMAIN output : \E r \in Ready : output[i] = OrderOf(r)
          /\ Ready = {} => output = << >>
  BY OrdersSaid DEF WireInvariant
<1>4. \A i \in DOMAIN output : /\ output[i] = Control \/ output[i].topic = "order"
                               /\ output[i].value # "CONNECTION_BROKEN"
  BY <1>2 DEF OrderOf, Order, Message
<1>5. UNCHANGED <<job, client, session, faultInjected, reconnectAt, rec, captured>>
      /\ pc \notin Closing
  BY <1>1 DEF faultVars, recVars, Closing
<1>6. link' \in [Connections -> Seq(Messages)] /\ WireInv'
  <2>1. CASE Ready # {}
    BY <1>1, <1>2, <1>4, <1>5, <2>1, FleetSpeaks
  <2>2. CASE Ready = {}
    <3>1. output = << >>
      BY <1>2, <2>2
    <3>2. link[<<Fleet, 1>>] \in Seq(Messages)
      BY <1>0, ConnectionShape
    <3>3. link[<<Fleet, 1>>] \o << >> = link[<<Fleet, 1>>]
      BY <3>2, ConcatEmptySeq
    <3>4. link' = link
      BY <1>0, <1>2, <3>1, <3>3
    <3>5. UNCHANGED QuietVars
      BY <1>5, <3>4 DEF QuietVars
    <3> QED
      BY <1>0, <1>5, <3>4, <3>5, QuietStep DEF WireInvariant
  <2> QED
    BY <2>1, <2>2
<1>7. Robots' = Robots /\ Connections' = Connections /\ Messages' = Messages
  BY <1>1, Sets
<1>8. batch' \in [Robots -> BatchStages] /\ orderHeader' \in [Robots -> Nat]
  BY <1>0, <1>1 DEF Discovered, BatchStages
<1>9. TypeOK'
  BY <1>1, <1>6, <1>7, <1>8
  DEF WireInvariant, TypeOK, simVars, faultVars, recVars, Phases
<1> QED
  BY <1>6, <1>9 DEF WireInvariant

LEMMA PublishTelemetryKeeps == WireInvariant /\ PublishTelemetry => WireInvariant'
<1> SUFFICES ASSUME WireInvariant, PublishTelemetry PROVE WireInvariant'
  OBVIOUS
<1>0. /\ job \in Jobs /\ job.batches \in Nat /\ Fleet \notin Robots
      /\ vizHeader \in [Robots -> Nat] /\ stateHeader \in [Robots -> Nat]
      /\ accepted \in [Robots -> 0 .. job.batches] /\ tick \in 0 .. job.ticks
      /\ session \in {1, 2}
  BY Numbers DEF WireInvariant, TypeOK
<1> DEFINE speakers == {c \in Connections : ClientOf(c) \in Reporting /\ c = Conn(ClientOf(c))}
           output == [c \in Connections |-> Pose(ClientOf(c))]
<1>1. /\ pc = "telemetry" /\ pc' = "check"
      /\ \A r \in Reporting : r \in Robots /\ client[r] = "up"
      /\ lastTick' = [r \in Robots |-> tick]
      /\ vizHeader' = [r \in Robots |-> IF r \in Reporting THEN vizHeader[r] + 1
                                        ELSE vizHeader[r]]
      /\ stateHeader' = [r \in Robots |-> IF r \in Reporting /\ StateIsDue
                                          THEN stateHeader[r] + 1 ELSE stateHeader[r]]
      /\ UNCHANGED <<job, simVars, batch, client, faultVars, orderHeader, recVars, faults>>
  BY DEF PublishTelemetry, Reporting
<1>2. link' = [c \in Connections |-> IF c \in speakers THEN link[c] \o output[c] ELSE link[c]]
  BY DEF PublishTelemetry
<1>3. \A c \in speakers : Speech(c, output[c])
  <2> SUFFICES ASSUME NEW c \in speakers PROVE Speech(c, output[c])
    OBVIOUS
  <2> PICK r \in Robots : c[1] = r /\ c = Conn(r) /\ c \in Connections /\ r \in Reporting
    BY <1>1 DEF ClientOf
  <2> DEFINE viz == Visualization(r, vizHeader[r] + 1, SessionOfRobot(r), stateHeader[r])
             state == State(r, stateHeader[r] + 1, SessionOfRobot(r), accepted[r])
             Said(m) == /\ m \in Messages /\ FromConnection(c, m)
                        /\ m.value # "CONNECTION_BROKEN"
  <2>1. Said(viz) /\ Said(state)
    <3>1. /\ SessionOfRobot(r) \in {1, 2} /\ c[2] = SessionOfRobot(r)
          /\ vizHeader[r] + 1 \in Nat /\ stateHeader[r] \in Nat /\ stateHeader[r] + 1 \in Nat
          /\ accepted[r] \in Nat
      BY <1>0 DEF SessionOfRobot, Conn
    <3>2. viz \in Messages /\ state \in Messages
      BY <3>1, MessageTypes
    <3>3. FromConnection(c, viz) /\ FromConnection(c, state)
      BY <3>1 DEF FromConnection, Visualization, State, Control, Message
    <3> QED
      BY <3>2, <3>3 DEF Visualization, State, Message
  <2>2. Pose(r) = <<viz>> \o (IF StateIsDue THEN <<state>> ELSE << >>)
    BY DEF Pose
  <2> HIDE DEF viz, state
  <2>3. viz \in Messages /\ state \in Messages
    BY <2>1
  <2>4. /\ Pose(r) \in Seq(Messages)
        /\ \A i \in DOMAIN Pose(r) : Pose(r)[i] = viz \/ Pose(r)[i] = state
    BY <2>2, <2>3
  <2>5. Live(c)
    BY <1>1 DEF Live, Conn
  <2>6. output[c] = Pose(r)
    BY DEF ClientOf
  <2> HIDE DEF output
  <2> QED
    BY <2>1, <2>4, <2>5, <2>6 DEF Speech
<1>4. UNCHANGED <<job, client, session, faultInjected, reconnectAt, rec, captured>>
      /\ pc \notin Closing
  BY <1>1 DEF faultVars, recVars, Closing
<1>5. link' \in [Connections -> Seq(Messages)] /\ WireInv'
  <2>1. speakers \in SUBSET Connections
    OBVIOUS
  <2> HIDE DEF speakers, output
  <2> QED
    BY <1>2, <1>3, <1>4, <2>1, SayStep DEF WireInvariant
<1>6. Robots' = Robots /\ Connections' = Connections /\ Messages' = Messages
  BY <1>1, Sets
<1>7. /\ lastTick' \in [Robots -> 0 .. job.ticks]
      /\ vizHeader' \in [Robots -> Nat] /\ stateHeader' \in [Robots -> Nat]
  BY <1>0, <1>1
<1>8. TypeOK'
  BY <1>1, <1>5, <1>6, <1>7
  DEF WireInvariant, TypeOK, simVars, faultVars, recVars, Phases
<1> QED
  BY <1>5, <1>8 DEF WireInvariant

-----------------------------------------------------------------------------
(* Every step, and the theorems *)

LEMMA NextInvariant == WireInvariant /\ [Next]_vars => WireInvariant'
<1> SUFFICES ASSUME WireInvariant, [Next]_vars PROVE WireInvariant'
  OBVIOUS
<1>1. CASE Simulation
  BY <1>1, SimulationKeeps
<1>2. CASE \/ ReceiveDeliveries \/ NoFaultWork \/ NextIteration \/ BridgeFails
           \/ RecorderFails \/ Terminated \/ UNCHANGED vars
  BY <1>2, GoesOn DEF Terminated
<1>3. CASE InjectFault \/ Reconnect
  BY <1>3, InjectFaultKeeps, ReconnectKeeps
<1>4. CASE PublishOrders \/ PublishTelemetry \/ Finish
  BY <1>4, PublishOrdersKeeps, PublishTelemetryKeeps, FinishKeeps
<1>5. CASE (\E r \in Robots : ShutdownRobot(r)) \/ ShutdownFleet
  <2>1. PICK x \in Robots \cup {Fleet} : Shutdown(x) /\ pc = "shutdown" /\ pc' \in Closing
    BY <1>5 DEF ShutdownRobot, ShutdownFleet, Closing
  <2> QED
    BY <2>1, ShutdownKeeps
<1>6. CASE Broker
  BY <1>6, RouteKeeps DEF Broker
<1>7. CASE \E x \in Robots \cup {Fleet} : ConnectionLost(x) \/ Exit(x)
  BY <1>7, ConnectionsKeep
<1> QED
  BY <1>1, <1>2, <1>3, <1>4, <1>5, <1>6, <1>7 DEF Next, Bridge, Faults

(* The invariant of the simulation, the bridge, its clients, the broker and    *)
(* the recorder.                                                              *)
THEOREM InvariantHolds == Spec => []WireInvariant
<1>1. Init => WireInvariant
  BY InitInvariant
<1>2. WireInvariant /\ [Next]_vars => WireInvariant'
  BY NextInvariant
<1> QED
  BY <1>1, <1>2, PTL DEF Spec

(* Every variable keeps its type: no robot obtains more batches than there are, *)
(* no telemetry is ahead of the simulation, every message on the wire or in     *)
(* the capture is one of the LSMART messages.                                   *)
THEOREM TypeCorrect == Spec => []TypeOK
<1>1. WireInvariant => TypeOK
  BY DEF WireInvariant
<1> QED
  BY <1>1, InvariantHolds, PTL

(* The session the builder infers for a robot message (live_capture.rs 244-250) *)
(* is the one it was published in, for any number of robots and whatever        *)
(* connections and messages are lost, wherever the recorder stops.              *)
THEOREM EpochsHold == Spec => []EpochsAreTrue
<1>1. WireInvariant => EpochsAreTrue
  BY DEF WireInvariant, WireInv
<1> QED
  BY <1>1, InvariantHolds, PTL

-----------------------------------------------------------------------------
(* What the Doctor says of a capture *)

Back == Connection(FaultTarget, 4, "ONLINE", 2)

(* Connection messages say that a robot is there or gone; of the second        *)
(* session there are the target's ONLINE, unless it is omitted, and its will.  *)
Wording(m, inject) ==
    /\ m.value \in {"ONLINE", "CONNECTION_BROKEN"} => m.topic = "connection"
    /\ m.session = 2 =>
           /\ m.robot = FaultTarget /\ m.topic # "order"
           /\ m.value = "ONLINE" => m = Back /\ ~inject
           /\ m.value = "CONNECTION_BROKEN" => m = Will(Second)

Opening(m, inject) == m = Will(Second) \/ (m = Back /\ ~inject)

Opened == \E i \in DOMAIN captured : Opening(captured[i], job.inject)

(* The second session begins with its ONLINE, or has but an end to report.     *)
OpeningInv ==
    /\ \A c \in Connections : \A i \in DOMAIN link[c] : Wording(link[c][i], job.inject)
    /\ \A i \in DOMAIN captured : Wording(captured[i], job.inject)
    /\ ~job.inject /\ rec = "recording" /\ session = 2 =>
           Opened \/ (link[Second] # << >> /\ Opening(link[Second][1], job.inject))
    /\ ~job.inject /\ (\E i \in DOMAIN captured : captured[i].session = 2) => Opened

(* What every step but the broker's may do to the links. *)
WordedStep ==
    /\ UNCHANGED <<job, captured>> /\ (rec' = "recording" => rec = "recording")
    /\ \A c \in Connections : \A i \in DOMAIN link'[c] :
           \/ \E k \in DOMAIN link[c] : link'[c][i] = link[c][k]
           \/ Wording(link'[c][i], job.inject)
    /\ session' = session =>
           (link[Second] # << >> =>
                /\ link'[Second] # << >>
                /\ link'[Second][1] \in {link[Second][1], Will(Second)})
    /\ session' # session /\ ~job.inject =>
           link'[Second] # << >> /\ Opening(link'[Second][1], job.inject)

LEMMA WillWording ==
    ASSUME job \in Jobs, NEW c \in Connections, c[1] \in Robots
    PROVE  Wording(Will(c), job.inject)
<1>1. c[2] = 2 => c = Second
  BY ConnectionShape
<1> QED
  BY <1>1 DEF Wording, Will, Second, Connection, Message

LEMMA SeverIsWorded ==
    ASSUME TypeOK, NEW x \in Robots \cup {Fleet}, NEW state, NEW kept,
           kept \subseteq 0 .. Len(link[ConnectionOf(x)]), Sever(x, state, kept),
           UNCHANGED <<job, captured, session>>, rec' = "recording" => rec = "recording"
    PROVE  WordedStep
<1>0. /\ job \in Jobs /\ session \in {1, 2} /\ Fleet \notin Robots
      /\ link \in [Connections -> Seq(Messages)] /\ Second \in Connections
      /\ FaultTarget \in Robots
  BY Numbers, ConnectionShape DEF TypeOK
<1> PICK c : c = ConnectionOf(x)
  OBVIOUS
<1>1. c \in Connections /\ c[1] = x
  BY <1>0, PresentConnection
<1>2. PICK k \in 0 .. Len(link[c]) : link' = [link EXCEPT ![c] = Cut(c, k)]
  BY DEF Sever
<1>3. /\ Cut(c, k) \in Seq(Messages)
      /\ \A i \in DOMAIN Cut(c, k) :
             \/ i \in DOMAIN link[c] /\ Cut(c, k)[i] = link[c][i]
             \/ i = Len(Cut(c, k)) /\ c[1] \in Robots /\ Cut(c, k)[i] = Will(c)
      /\ c[1] \in Robots => Cut(c, k) # << >>
  BY <1>1, CutShape
<1>4. link'[c] = Cut(c, k) /\ \A d \in Connections \ {c} : link'[d] = link[d]
  BY <1>0, <1>1, <1>2
<1>5. \A d \in Connections : \A i \in DOMAIN link'[d] :
          (\E j \in DOMAIN link[d] : link'[d][i] = link[d][j]) \/ Wording(link'[d][i], job.inject)
  BY <1>0, <1>1, <1>3, <1>4, WillWording
<1>6. ASSUME link[Second] # << >>
      PROVE  link'[Second] # << >> /\ link'[Second][1] \in {link[Second][1], Will(Second)}
  <2>1. CASE c # Second
    BY <1>0, <1>4, <1>6, <2>1
  <2>2. CASE c = Second
    <3>1. c[1] \in Robots
      BY <1>0, <2>2 DEF Second
    <3>2. \A s \in Seq(Messages) : s # << >> => 1 \in DOMAIN s
      OBVIOUS
    <3>3. 1 \in DOMAIN Cut(c, k)
      BY <1>3, <3>1, <3>2
    <3> QED
      BY <1>3, <1>4, <2>2, <3>1, <3>3
  <2> QED
    BY <2>1, <2>2
<1> QED
  BY <1>5, <1>6 DEF WordedStep

LEMMA SilenceIsWorded ==
    ASSUME UNCHANGED <<job, captured, session>>, link' = link,
           rec' = "recording" => rec = "recording"
    PROVE  WordedStep
BY DEF WordedStep

LEMMA PoseSaid ==
    ASSUME TypeOK, NEW r \in Robots
    PROVE  LET viz == Visualization(r, vizHeader[r] + 1, SessionOfRobot(r), stateHeader[r])
               state == State(r, stateHeader[r] + 1, SessionOfRobot(r), accepted[r])
           IN  /\ viz \in Messages /\ state \in Messages /\ Pose(r) \in Seq(Messages)
               /\ DOMAIN Pose(r) = 1 .. (IF StateIsDue THEN 2 ELSE 1)
               /\ Pose(r)[1] = viz
               /\ StateIsDue => Pose(r)[2] = state
<1> PICK viz : viz = Visualization(r, vizHeader[r] + 1, SessionOfRobot(r), stateHeader[r])
  OBVIOUS
<1> PICK state : state = State(r, stateHeader[r] + 1, SessionOfRobot(r), accepted[r])
  OBVIOUS
<1>1. viz \in Messages /\ state \in Messages
  <2>1. /\ SessionOfRobot(r) \in {1, 2} /\ vizHeader[r] + 1 \in Nat
        /\ stateHeader[r] \in Nat /\ stateHeader[r] + 1 \in Nat
    <3>1. SessionOfRobot(r) \in {1, 2}
      BY DEF TypeOK, SessionOfRobot
    <3>2. vizHeader[r] \in Nat /\ stateHeader[r] \in Nat
      BY DEF TypeOK
    <3> QED
      BY <3>1, <3>2
  <2>2. accepted[r] \in 0 .. job.batches /\ job.batches \in Nat
    BY Numbers DEF TypeOK
  <2>3. accepted[r] \in Nat
    BY <2>2
  <2> QED
    BY <2>1, <2>3, MessageTypes
<1>2. Pose(r) = <<viz>> \o (IF StateIsDue THEN <<state>> ELSE << >>)
  BY DEF Pose
<1>3. /\ Pose(r) \in Seq(Messages) /\ DOMAIN Pose(r) = 1 .. (IF StateIsDue THEN 2 ELSE 1)
      /\ Pose(r)[1] = viz /\ (StateIsDue => Pose(r)[2] = state)
  <2>1. CASE StateIsDue
    BY <1>1, <1>2, <2>1
  <2>2. CASE ~StateIsDue
    BY <1>1, <1>2, <2>2
  <2> QED
    BY <2>1, <2>2
<1> QED
  BY <1>1, <1>3

(* Steps that keep the links worded: every step but the broker's. *)
LEMMA BridgeIsWorded ==
    ASSUME WireInvariant, PublishOrders \/ PublishTelemetry \/ Finish \/ Reconnect
    PROVE  WordedStep
<1>0. /\ TypeOK /\ job \in Jobs /\ session \in {1, 2} /\ Fleet \notin Robots
      /\ link \in [Connections -> Seq(Messages)] /\ Second \in Connections
      /\ <<Fleet, 1>> \in Connections /\ <<Fleet, 1>> # Second /\ FaultTarget \in Robots
  BY Numbers, ConnectionShape DEF WireInvariant, TypeOK, Second
<1>1. CASE PublishOrders
  <2>1. UNCHANGED <<job, captured, session, rec>>
    BY <1>1 DEF PublishOrders, recVars, faultVars
  <2>2. PICK output \in Seq(Messages) :
            /\ link' = [link EXCEPT ![<<Fleet, 1>>] = @ \o output]
            /\ \A i \in DOMAIN output : \E r \in Ready : output[i] = OrderOf(r)
    BY <1>0, <1>1, OrdersSaid
  <2>3. \A i \in DOMAIN output : Wording(output[i], job.inject)
    BY <2>2 DEF OrderOf, Order, Message, Wording
  <2>4. link'[<<Fleet, 1>>] = link[<<Fleet, 1>>] \o output
        /\ \A d \in Connections : d # <<Fleet, 1>> => link'[d] = link[d]
    BY <1>0, <2>2
  <2>5. \A i \in DOMAIN link'[<<Fleet, 1>>] :
            \/ \E k \in DOMAIN link[<<Fleet, 1>>] : link'[<<Fleet, 1>>][i] = link[<<Fleet, 1>>][k]
            \/ Wording(link'[<<Fleet, 1>>][i], job.inject)
    <3>1. link[<<Fleet, 1>>] \in Seq(Messages)
      BY <1>0
    <3>2. \A s, t \in Seq(Messages) : \A i \in DOMAIN (s \o t) :
              (i \in DOMAIN s /\ (s \o t)[i] = s[i]) \/ \E j \in DOMAIN t : (s \o t)[i] = t[j]
      BY Joined
    <3>3. \A i \in DOMAIN (link[<<Fleet, 1>>] \o output) :
              \/ i \in DOMAIN link[<<Fleet, 1>>]
                 /\ (link[<<Fleet, 1>>] \o output)[i] = link[<<Fleet, 1>>][i]
              \/ \E j \in DOMAIN output : (link[<<Fleet, 1>>] \o output)[i] = output[j]
      BY <3>1, <3>2
    <3> QED
      BY <2>3, <2>4, <3>3
  <2>6. link'[Second] = link[Second]
    BY <1>0, <2>4
  <2> QED
    BY <2>1, <2>4, <2>5, <2>6 DEF WordedStep
<1>2. CASE PublishTelemetry
  <2>1. /\ UNCHANGED <<job, captured, session, rec>>
        /\ link' = [c \in Connections |->
                     IF ClientOf(c) \in Reporting /\ c = Conn(ClientOf(c))
                     THEN link[c] \o Pose(ClientOf(c)) ELSE link[c]]
    BY <1>2 DEF PublishTelemetry, recVars, faultVars
  <2>2. ASSUME NEW c \in Connections
        PROVE  /\ \A i \in DOMAIN link'[c] :
                      \/ \E k \in DOMAIN link[c] : link'[c][i] = link[c][k]
                      \/ Wording(link'[c][i], job.inject)
               /\ link[c] # << >> => link'[c] # << >> /\ link'[c][1] = link[c][1]
    <3>1. CASE ClientOf(c) \in Reporting /\ c = Conn(ClientOf(c))
      <4> PICK r : r = ClientOf(c)
        OBVIOUS
      <4>1. r \in Robots /\ link'[c] = link[c] \o Pose(r) /\ link[c] \in Seq(Messages)
        BY <1>0, <2>1, <3>1 DEF Reporting
      <4>2. /\ Pose(r) \in Seq(Messages)
            /\ DOMAIN Pose(r) = 1 .. (IF StateIsDue THEN 2 ELSE 1)
            /\ Pose(r)[1] = Visualization(r, vizHeader[r] + 1, SessionOfRobot(r), stateHeader[r])
            /\ StateIsDue => Pose(r)[2] = State(r, stateHeader[r] + 1, SessionOfRobot(r), accepted[r])
        BY <1>0, <4>1, PoseSaid
      <4>3. \A i \in DOMAIN Pose(r) : Wording(Pose(r)[i], job.inject)
        <5>1. SessionOfRobot(r) = 2 => r = FaultTarget
          BY DEF SessionOfRobot
        <5>2. \A h, n : /\ Wording(Visualization(r, h, SessionOfRobot(r), n), job.inject)
                        /\ Wording(State(r, h, SessionOfRobot(r), n), job.inject)
          BY <5>1 DEF Wording, Visualization, State, Message
        <5>3. \A i \in DOMAIN Pose(r) : i = 1 \/ (i = 2 /\ StateIsDue)
          BY <4>2
        <5> QED
          BY <4>2, <5>2, <5>3
      <4>4. \A i \in DOMAIN link'[c] :
                \/ \E k \in DOMAIN link[c] : link'[c][i] = link[c][k]
                \/ Wording(link'[c][i], job.inject)
        BY <4>1, <4>2, <4>3, Joined
      <4>5. link[c] # << >> => link'[c] # << >> /\ link'[c][1] = link[c][1]
        BY <4>1, <4>2
      <4> QED
        BY <4>4, <4>5
    <3>2. CASE ~(ClientOf(c) \in Reporting /\ c = Conn(ClientOf(c)))
      BY <2>1, <3>2
    <3> QED
      BY <3>1, <3>2
  <2> QED
    BY <1>0, <2>1, <2>2 DEF WordedStep
<1>3. CASE Finish
  <2>1. /\ UNCHANGED <<job, captured, session, rec>>
        /\ link' = [link EXCEPT ![<<Fleet, 1>>] = Append(@, Control)]
    BY <1>3 DEF Finish, Announce, recVars, faultVars
  <2>2. link[<<Fleet, 1>>] \in Seq(Messages) /\ Control \in Messages
    BY <1>0, ControlType
  <2>3. /\ link'[<<Fleet, 1>>] = Append(link[<<Fleet, 1>>], Control)
        /\ \A d \in Connections : d # <<Fleet, 1>> => link'[d] = link[d]
    BY <1>0, <2>1
  <2>4. Wording(Control, job.inject)
    BY DEF Control, Message, Wording
  <2>5. \A i \in DOMAIN link'[<<Fleet, 1>>] :
            \/ \E k \in DOMAIN link[<<Fleet, 1>>] : link'[<<Fleet, 1>>][i] = link[<<Fleet, 1>>][k]
            \/ Wording(link'[<<Fleet, 1>>][i], job.inject)
    BY <2>2, <2>3, <2>4
  <2>6. link'[Second] = link[Second]
    BY <1>0, <2>3
  <2>7. \A c \in Connections : \A i \in DOMAIN link'[c] :
            \/ \E k \in DOMAIN link[c] : link'[c][i] = link[c][k]
            \/ Wording(link'[c][i], job.inject)
    BY <2>3, <2>5
  <2>8. UNCHANGED <<job, captured>> /\ session' = session /\ rec' = rec
    BY <2>1
  <2> QED
    BY <2>6, <2>7, <2>8 DEF WordedStep
<1>4. CASE Reconnect
  <2>1. /\ UNCHANGED <<job, captured, rec>>
        /\ link' = [link EXCEPT ![Second] = Greeting]
        /\ session' = 2 /\ reconnectAt # 0
    BY <1>4 DEF Reconnect, ShouldReconnect, recVars, Second
  <2>2. session = 1 /\ link[Second] = << >>
    BY <1>0, <2>1 DEF WireInvariant, WireInv, SessionInv
  <2>3. link'[Second] = Greeting /\ \A d \in Connections : d # Second => link'[d] = link[d]
    BY <1>0, <2>1
  <2>4. Greeting = IF job.inject THEN << >> ELSE <<Back>>
    BY DEF Greeting, Back
  <2>5. ~job.inject => Opening(Back, job.inject) /\ Wording(Back, job.inject)
    BY DEF Opening, Wording, Back, Connection, Message
  <2>6. CASE job.inject
    BY <2>1, <2>2, <2>3, <2>4, <2>6 DEF WordedStep
  <2>7. CASE ~job.inject
    <3>1. DOMAIN <<Back>> = {1} /\ <<Back>>[1] = Back /\ <<Back>> # << >>
      OBVIOUS
    <3>2. /\ DOMAIN link'[Second] = {1} /\ link'[Second][1] = Back
          /\ link'[Second] # << >>
      BY <2>3, <2>4, <2>7, <3>1
    <3> HIDE DEF Back
    <3> QED
      BY <2>1, <2>2, <2>3, <2>5, <2>7, <3>2 DEF WordedStep
  <2> QED
    BY <2>6, <2>7
<1> QED
  BY <1>1, <1>2, <1>3, <1>4

LEMMA NextIsWorded ==
    ASSUME WireInvariant, [Next]_vars, ~Broker
    PROVE  WordedStep
<1>0. TypeOK /\ job \in Jobs /\ session \in {1, 2} /\ Fleet \notin Robots
      /\ FaultTarget \in Robots
  BY Numbers DEF WireInvariant, TypeOK
<1>1. CASE Simulation \/ ReceiveDeliveries \/ NoFaultWork \/ NextIteration \/ BridgeFails
           \/ RecorderFails \/ Terminated \/ UNCHANGED vars
  <2>1. UNCHANGED <<job, captured, session>> /\ link' = link
        /\ (rec' = "recording" => rec = "recording")
    BY <1>1 DEF Simulation, Simulate, WriteComplete, ReceiveDeliveries, NoFaultWork,
                NextIteration, BridgeFails, RecorderFails, Terminated, vars, faultVars, recVars
  <2> QED
    BY <2>1, SilenceIsWorded
<1>2. CASE PublishOrders \/ PublishTelemetry \/ Finish \/ Reconnect
  BY <1>2, BridgeIsWorded
<1>3. ASSUME NEW x \in Robots \cup {Fleet},
             \/ \E state : Sever(x, state, 0 .. Len(link[ConnectionOf(x)]))
             \/ \E state : Sever(x, state, Flushed(ConnectionOf(x))),
             UNCHANGED <<job, captured, session, rec>>
      PROVE  WordedStep
  <2>1. PICK state, kept : /\ Sever(x, state, kept)
                           /\ \/ kept = 0 .. Len(link[ConnectionOf(x)])
                              \/ kept = Flushed(ConnectionOf(x))
    BY <1>3
  <2>2. ConnectionOf(x) \in Connections
    BY <1>0, PresentConnection
  <2>3. Len(link[ConnectionOf(x)]) \in Nat
    BY <1>0, <2>2, LinkShape
  <2>4. kept \subseteq 0 .. Len(link[ConnectionOf(x)])
    BY <2>1, <2>3 DEF Flushed
  <2> QED
    BY <1>0, <1>3, <2>1, <2>4, SeverIsWorded
<1>4. CASE InjectFault
  <2>1. UNCHANGED <<job, captured, session, rec>>
    BY <1>4 DEF InjectFault, recVars
  <2>2. CASE link' = link
    BY <2>1, <2>2, SilenceIsWorded
  <2>3. CASE Sever(FaultTarget, "none", Flushed(Conn(FaultTarget)))
    <3>1. ConnectionOf(FaultTarget) = Conn(FaultTarget)
      BY <1>0 DEF ConnectionOf
    <3> QED
      BY <1>0, <1>3, <2>1, <2>3, <3>1
  <2> QED
    BY <1>4, <2>2, <2>3 DEF InjectFault
<1>5. CASE (\E r \in Robots : ShutdownRobot(r)) \/ ShutdownFleet
  <2>1. PICK x \in Robots \cup {Fleet} : Shutdown(x)
    BY <1>5 DEF ShutdownRobot, ShutdownFleet
  <2>2. UNCHANGED <<job, captured, session, rec>>
    BY <2>1 DEF Shutdown, faultVars, recVars
  <2>3. link' = link \/ Sever(x, "none", 0 .. Len(link[ConnectionOf(x)]))
    BY <2>1 DEF Shutdown
  <2> QED
    BY <1>3, <2>2, <2>3, SilenceIsWorded
<1>6. CASE \E x \in Robots \cup {Fleet} : ConnectionLost(x) \/ Exit(x)
  <2>1. PICK x \in Robots \cup {Fleet} : ConnectionLost(x) \/ Exit(x)
    BY <1>6
  <2>2. UNCHANGED <<job, captured, session, rec>>
        /\ \E state : Sever(x, state, 0 .. Len(link[ConnectionOf(x)]))
    BY <2>1 DEF ConnectionLost, Exit, faultVars, recVars
  <2> QED
    BY <1>3, <2>2
<1> QED
  BY <1>1, <1>2, <1>4, <1>5, <1>6 DEF Next, Bridge, Faults

LEMMA WordedKeeps ==
    ASSUME TypeOK, SessionInv, OpeningInv, WordedStep, session' \in {1, 2}
    PROVE  OpeningInv'
<1>1. UNCHANGED <<job, captured>> /\ (rec' = "recording" => rec = "recording")
      /\ session \in {1, 2}
  BY DEF WordedStep, TypeOK
<1>2. Connections' = Connections
  BY <1>1, Sets
<1>4. (Opened' <=> Opened) /\ job'.inject = job.inject
  BY <1>1 DEF Opened
<1>5. \A c \in Connections' : \A i \in DOMAIN link'[c] : Wording(link'[c][i], job.inject)
  BY <1>2 DEF WordedStep, OpeningInv
<1>6. \A i \in DOMAIN captured' : Wording(captured'[i], job.inject)
  BY <1>1 DEF OpeningInv
<1>7. ASSUME ~job.inject, rec' = "recording", session' = 2
      PROVE  Opened \/ (link'[Second] # << >> /\ Opening(link'[Second][1], job.inject))
  <2>1. CASE session' = session
    <3>1. Opened \/ (link[Second] # << >> /\ Opening(link[Second][1], job.inject))
      BY <1>1, <1>7, <2>1 DEF OpeningInv
    <3>2. Opening(Will(Second), job.inject)
      BY DEF Opening
    <3> QED
      BY <2>1, <3>1, <3>2 DEF WordedStep
  <2>2. CASE session' # session
    BY <1>7, <2>2 DEF WordedStep
  <2> QED
    BY <2>1, <2>2
<1>8. ~job.inject /\ (\E i \in DOMAIN captured' : captured'[i].session = 2) => Opened
  BY <1>1 DEF OpeningInv
<1> QED
  BY <1>1, <1>4, <1>5, <1>6, <1>7, <1>8 DEF OpeningInv

LEMMA RouteKeepsOpening ==
    ASSUME WireInvariant, OpeningInv, NEW c \in Connections, Route(c)
    PROVE  OpeningInv'
<1> PICK m : m = link[c][1]
  OBVIOUS
<1>0. /\ TypeOK /\ job \in Jobs /\ session \in {1, 2} /\ Fleet \notin Robots
      /\ Second \in Connections /\ captured \in Seq(Messages)
  BY Numbers, ConnectionShape DEF WireInvariant, TypeOK
<1>1. /\ link[c] # << >> /\ 1 \in DOMAIN link[c] /\ m \in Messages
      /\ DOMAIN link[c] = 1 .. Len(link[c]) /\ Len(link[c]) \in Nat \ {0}
      /\ \A d \in Connections \ {c} : link'[d] = link[d]
      /\ DOMAIN link'[c] = 1 .. Len(link[c]) - 1
      /\ \A i \in 1 .. Len(link[c]) - 1 : link'[c][i] = link[c][i + 1]
      /\ job' = job /\ session' = session
  BY <1>0, RouteShape DEF faultVars
<1>2. /\ rec' = "recording" => rec = "recording"
      /\ \/ captured' = captured
         \/ captured' = Append(captured, m) /\ rec = "recording" /\ m # Control
      /\ m.topic = "connection" /\ rec' = "recording" => captured' = Append(captured, m)
  BY <1>0, RouteOutcome
<1>3. /\ DOMAIN captured = 1 .. Len(captured) /\ Len(captured) \in Nat
      /\ DOMAIN Append(captured, m) = 1 .. Len(captured) + 1
      /\ \A i \in 1 .. Len(captured) : Append(captured, m)[i] = captured[i]
      /\ Append(captured, m)[Len(captured) + 1] = m
  BY <1>0, <1>1, Grown
<1>4. Connections' = Connections
  BY <1>1, Sets
<1>6. Wording(m, job.inject)
  BY <1>1 DEF OpeningInv
<1>7. \A d \in Connections' : \A i \in DOMAIN link'[d] : Wording(link'[d][i], job.inject)
  <2> SUFFICES ASSUME NEW d \in Connections, NEW i \in DOMAIN link'[d]
               PROVE  Wording(link'[d][i], job.inject)
    BY <1>4
  <2>1. CASE d = c
    <3>1. i + 1 \in DOMAIN link[c] /\ link'[c][i] = link[c][i + 1]
      BY <1>1, <2>1
    <3> QED
      BY <2>1, <3>1 DEF OpeningInv
  <2>2. CASE d # c
    BY <1>1, <2>2 DEF OpeningInv
  <2> QED
    BY <2>1, <2>2
<1>8. \A i \in DOMAIN captured' : Wording(captured'[i], job.inject)
  <2>1. CASE captured' = captured
    BY <2>1 DEF OpeningInv
  <2>2. CASE captured' = Append(captured, m)
    <3>1. \A i \in DOMAIN captured' : i \in DOMAIN captured \/ i = Len(captured) + 1
      BY <1>3, <2>2
    <3> QED
      BY <1>3, <1>6, <2>2, <3>1 DEF OpeningInv
  <2> QED
    BY <1>2, <2>1, <2>2
<1>9. Opened => Opened'
  <2> SUFFICES ASSUME Opened PROVE Opened'
    OBVIOUS
  <2>1. PICK i \in DOMAIN captured : Opening(captured[i], job.inject)
    BY DEF Opened
  <2>2. i \in DOMAIN captured' /\ captured'[i] = captured[i]
    BY <1>2, <1>3
  <2> QED
    BY <1>1, <2>1, <2>2 DEF Opened
<1>10. captured' = Append(captured, m) /\ Opening(m, job.inject) => Opened'
  <2> SUFFICES ASSUME captured' = Append(captured, m), Opening(m, job.inject) PROVE Opened'
    OBVIOUS
  <2>1. Len(captured) + 1 \in DOMAIN captured' /\ captured'[Len(captured) + 1] = m
    BY <1>3
  <2> QED
    BY <1>1, <2>1 DEF Opened
<1>11. ASSUME ~job.inject, rec' = "recording", session' = 2
       PROVE  Opened' \/ (link'[Second] # << >> /\ Opening(link'[Second][1], job.inject))
  <2>1. Opened \/ (link[Second] # << >> /\ Opening(link[Second][1], job.inject))
    BY <1>1, <1>2, <1>11 DEF OpeningInv
  <2>2. CASE c # Second
    BY <1>0, <1>1, <1>9, <2>1, <2>2
  <2>3. CASE c = Second /\ ~Opened
    <3>1. Opening(m, job.inject)
      BY <2>1, <2>3
    <3>2. m.topic = "connection"
      BY <3>1 DEF Opening, Will, Back, Connection, Message
    <3> QED
      BY <1>2, <1>10, <1>11, <3>1, <3>2
  <2> QED
    BY <1>9, <2>2, <2>3
<1>12. ASSUME ~job.inject, NEW i \in DOMAIN captured', captured'[i].session = 2
       PROVE  Opened'
  <2>1. CASE i \in DOMAIN captured /\ captured'[i] = captured[i]
    BY <1>9, <1>12, <2>1 DEF OpeningInv
  <2>2. CASE captured' = Append(captured, m) /\ i = Len(captured) + 1
    <3>1. m.session = 2 /\ rec = "recording" /\ m # Control
      <4>1. captured'[i] = m
        BY <1>3, <2>2
      <4>2. captured' # captured
        <5>1. Len(captured) + 1 \notin DOMAIN captured
          BY <1>3
        <5> QED
          BY <1>12, <2>2, <5>1
      <4> QED
        BY <1>2, <1>12, <4>1, <4>2
    <3>2. m.topic # "order" /\ FromConnection(c, m)
      BY <1>1, <1>6, <3>1 DEF Wording, WireInvariant, WireInv, LinkInv
    <3>3. c[2] = 2
      BY <3>1, <3>2 DEF FromConnection
    <3>4. c = Second
      BY <1>0, <3>3, ConnectionShape
    <3>5. session = 2
      BY <1>0, <1>1, <3>4 DEF WireInvariant, WireInv, SessionInv
    <3>6. Opened \/ Opening(m, job.inject)
      BY <1>12, <3>1, <3>4, <3>5 DEF OpeningInv
    <3> QED
      BY <1>9, <1>10, <2>2, <3>6
  <2>3. \/ i \in DOMAIN captured /\ captured'[i] = captured[i]
        \/ captured' = Append(captured, m) /\ i = Len(captured) + 1
    <3>1. CASE captured' = captured
      BY <1>12, <3>1
    <3>2. CASE captured' = Append(captured, m)
      <4>1. i \in 1 .. Len(captured) + 1
        BY <1>3, <1>12, <3>2
      <4>2. i \in 1 .. Len(captured) \/ i = Len(captured) + 1
        BY <1>3, <4>1
      <4> QED
        BY <1>3, <3>2, <4>2
    <3> QED
      BY <1>2, <3>1, <3>2
  <2> QED
    BY <2>1, <2>2, <2>3
<1>13. job'.inject = job.inject
  BY <1>1
<1> QED
  BY <1>1, <1>7, <1>8, <1>11, <1>12, <1>13 DEF OpeningInv

LEMMA InitOpening == Init => OpeningInv
<1> SUFFICES ASSUME Init PROVE OpeningInv
  OBVIOUS
<1>1. /\ session = 1 /\ captured = << >>
      /\ link = [c \in Connections |->
                  IF c[1] = Fleet \/ c[2] = 2 THEN << >>
                  ELSE <<Connection(c[1], 1, "ONLINE", 1)>>]
  BY DEF Init
<1>2. \A r : Wording(Connection(r, 1, "ONLINE", 1), job.inject)
  BY DEF Wording, Connection, Message
<1>3. \A m : DOMAIN <<m>> = {1} /\ <<m>>[1] = m
  OBVIOUS
<1>4. \A c \in Connections : \A i \in DOMAIN link[c] : Wording(link[c][i], job.inject)
  BY <1>1, <1>2, <1>3
<1>5. DOMAIN captured = {}
  BY <1>1
<1> QED
  BY <1>1, <1>4, <1>5 DEF OpeningInv

LEMMA OpeningKeeps == WireInvariant /\ OpeningInv /\ [Next]_vars => OpeningInv'
<1> SUFFICES ASSUME WireInvariant, OpeningInv, [Next]_vars PROVE OpeningInv'
  OBVIOUS
<1>1. CASE Broker
  BY <1>1, RouteKeepsOpening DEF Broker
<1>2. CASE ~Broker
  <2>1. WireInvariant'
    BY NextInvariant
  <2>2. session' \in {1, 2}
    BY <2>1 DEF WireInvariant, TypeOK
  <2> QED
    BY <1>2, <2>2, NextIsWorded, WordedKeeps DEF WireInvariant, WireInv
<1> QED
  BY <1>1, <1>2

LEMMA SessionTwoIsTargets ==
    ASSUME TypeOK, EpochsAreTrue, OpeningInv, NEW j \in DOMAIN captured,
           captured[j].session = 2
    PROVE  /\ captured[j].robot = FaultTarget /\ ~FromFleet(captured[j])
           /\ \E i \in 1 .. j - 1 : BrokenIn(captured, i, FaultTarget)
<1>1. Wording(captured[j], job.inject)
  BY DEF OpeningInv
<1>2. captured[j].robot = FaultTarget /\ ~FromFleet(captured[j])
  BY <1>1 DEF Wording, FromFleet
<1>3. SessionOf(captured, j) = 2
  BY <1>2 DEF EpochsAreTrue
<1> QED
  BY <1>2, <1>3 DEF SessionOf

(* With the ONLINE of the second session omitted, the first end of the         *)
(* target's session has no ONLINE after it.                                   *)
LEMMA FaultIsFound ==
    ASSUME WireInvariant, OpeningInv, job.inject,
           \E i \in DOMAIN captured : captured[i].session = 2
    PROVE  FaultIsDiagnosed
<1> PICK j \in DOMAIN captured : captured[j].session = 2
  OBVIOUS
<1>0. /\ DOMAIN captured = 1 .. Len(captured) /\ Len(captured) \in Nat
      /\ TypeOK /\ EpochsAreTrue /\ FaultTarget \in Nat
  <2>1. TypeOK /\ EpochsAreTrue /\ captured \in Seq(Messages)
    BY DEF WireInvariant, WireInv, TypeOK
  <2> QED
    BY <2>1, LenProperties DEF FaultTarget
<1> DEFINE Breaks == {i \in DOMAIN captured : BrokenIn(captured, i, FaultTarget)}
<1>1. /\ captured[j].robot = FaultTarget /\ ~FromFleet(captured[j])
      /\ \E i \in 1 .. j - 1 : BrokenIn(captured, i, FaultTarget)
  BY <1>0, SessionTwoIsTargets
<1>2. Breaks \subseteq Nat /\ Breaks # {} /\ \E i \in Breaks : i < j
  BY <1>0, <1>1
<1>3. PICK p \in Breaks : \A q \in Breaks : p <= q
  BY <1>2, Least
<1>4. /\ p \in DOMAIN captured /\ BrokenIn(captured, p, FaultTarget) /\ p < j
      /\ p \in Nat /\ j \in Nat
  BY <1>0, <1>2, <1>3
<1>5. captured[p].robot = FaultTarget /\ captured[p].value = "CONNECTION_BROKEN"
  BY <1>4 DEF BrokenIn
<1>6. captured[p].topic = "connection" /\ ~FromFleet(captured[p])
  BY <1>4, <1>5 DEF OpeningInv, Wording, FromFleet
<1>7. SessionOf(captured, p) = 1
  <2>1. ~ \E i \in 1 .. p - 1 : BrokenIn(captured, i, FaultTarget)
    BY <1>0, <1>3, <1>4
  <2> QED
    BY <1>5, <2>1 DEF SessionOf
<1>8. SessionOf(captured, j) = 2
  BY <1>0, <1>1 DEF EpochsAreTrue
<1>9. \A k \in DOMAIN captured :
          k > p /\ captured[k].topic = "connection" /\ captured[k].value = "ONLINE" =>
              captured[k].robot # captured[p].robot
  <2> SUFFICES ASSUME NEW k \in DOMAIN captured, k > p, captured[k].topic = "connection",
                      captured[k].value = "ONLINE", captured[k].robot = FaultTarget
               PROVE  FALSE
    BY <1>5
  <2>1. ~FromFleet(captured[k])
    BY DEF FromFleet
  <2>2. SessionOf(captured, k) = 2
    <3>1. p \in 1 .. k - 1
      BY <1>0, <1>4
    <3> QED
      BY <1>4, <3>1 DEF SessionOf
  <2>3. captured[k].session = 2
    BY <1>0, <2>1, <2>2 DEF EpochsAreTrue
  <2> QED
    BY <2>3 DEF OpeningInv, Wording
<1>10. StaysSilent(captured, p)
  <2>1. SessionOf(captured, j) # SessionOf(captured, p)
    BY <1>7, <1>8
  <2> QED
    BY <1>1, <1>4, <1>5, <1>6, <1>9, <2>1 DEF StaysSilent
<1>11. \E f \in ReconnectFindings(EvidenceTrace) : f.verdict = "FAIL" /\ f.target = "MOBILE_ROBOT"
  BY <1>10, ReconnectVerdict DEF EvidenceTrace
<1>12. \E f \in ReconnectFindings(PassiveTrace) :
          f.verdict = "INCONCLUSIVE" /\ f.target = "UNRESOLVED"
  BY <1>4, <1>5, <1>6, PassiveVerdict DEF PassiveTrace
<1> QED
  BY <1>11, <1>12 DEF FaultIsDiagnosed

(* Who is blamed was heard of in two sessions; the ONLINE, or the end, that    *)
(* opens the second of them comes after the break.                            *)
LEMMA BlameIsTrue ==
    ASSUME WireInvariant, OpeningInv
    PROVE  NoFalseBlame
<1>0. /\ DOMAIN captured = 1 .. Len(captured) /\ Len(captured) \in Nat
      /\ TypeOK /\ EpochsAreTrue
  <2>1. TypeOK /\ EpochsAreTrue /\ captured \in Seq(Messages)
    BY DEF WireInvariant, WireInv, TypeOK
  <2> QED
    BY <2>1, LenProperties
<1>1. \A f \in ReconnectFindings(PassiveTrace) : f.verdict # "FAIL"
  <2>1. \A f \in ReconnectFindings(PassiveTrace) : f.verdict = "INCONCLUSIVE"
    BY PassiveVerdict DEF PassiveTrace
  <2> QED
    BY <2>1
<1>2. ASSUME NEW f \in ReconnectFindings(EvidenceTrace), f.verdict = "FAIL"
      PROVE  /\ captured[f.event].robot = FaultTarget
             /\ job.inject \/ \E i \in DOMAIN captured : captured[i] = Will(<<FaultTarget, 2>>)
  <2> PICK i : i = f.event
    OBVIOUS
  <2>1. StaysSilent(captured, i)
    BY <1>2, ReconnectVerdict DEF EvidenceTrace
  <2>2. /\ i \in DOMAIN captured /\ captured[i].topic = "connection" /\ ~FromFleet(captured[i])
        /\ \A k \in DOMAIN captured :
               k > i /\ captured[k].topic = "connection" /\ captured[k].value = "ONLINE" =>
                   captured[k].robot # captured[i].robot
    BY <2>1 DEF StaysSilent, FromFleet
  <2>3. PICK j \in DOMAIN captured :
            /\ j > i /\ ~FromFleet(captured[j]) /\ captured[j].robot = captured[i].robot
            /\ SessionOf(captured, j) # SessionOf(captured, i)
    BY <2>1 DEF StaysSilent
  <2>4. SessionOf(captured, i) = captured[i].session /\ SessionOf(captured, j) = captured[j].session
    BY <1>0, <2>2, <2>3 DEF EpochsAreTrue
  <2>5. SessionOf(captured, i) \in {1, 2} /\ SessionOf(captured, j) \in {1, 2}
    BY DEF SessionOf
  <2>6. SessionOf(captured, i) = 2 => SessionOf(captured, j) = 2
    <3> SUFFICES ASSUME SessionOf(captured, i) = 2 PROVE SessionOf(captured, j) = 2
      OBVIOUS
    <3>1. PICK k \in 1 .. i - 1 : BrokenIn(captured, k, captured[i].robot)
      BY DEF SessionOf
    <3>2. k \in 1 .. j - 1
      BY <1>0, <2>2, <2>3, <3>1
    <3> QED
      BY <2>3, <3>1, <3>2 DEF SessionOf
  <2>7. captured[i].session = 1 /\ captured[j].session = 2
    BY <2>3, <2>4, <2>5, <2>6
  <2>8. captured[i].robot = FaultTarget
    BY <1>0, <2>3, <2>7, SessionTwoIsTargets
  <2>9. ASSUME ~job.inject
        PROVE  \E k \in DOMAIN captured : captured[k] = Will(Second)
    <3>1. PICK k \in DOMAIN captured : Opening(captured[k], job.inject)
      BY <2>7, <2>9 DEF OpeningInv, Opened
    <3>2. CASE captured[k] = Back
      <4>1. /\ captured[k].topic = "connection" /\ captured[k].value = "ONLINE"
            /\ captured[k].robot = FaultTarget /\ captured[k].session = 2
            /\ ~FromFleet(captured[k])
        BY <3>2 DEF Back, Connection, Message, FromFleet
      <4>2. SessionOf(captured, k) = 2
        BY <1>0, <4>1 DEF EpochsAreTrue
      <4>3. ~(k > i)
        BY <2>2, <2>8, <4>1
      <4>4. k # i
        BY <2>7, <4>1
      <4>5. k < i
        BY <1>0, <2>2, <4>3, <4>4
      <4>6. PICK q \in 1 .. k - 1 : BrokenIn(captured, q, captured[k].robot)
        BY <4>2 DEF SessionOf
      <4>7. q \in 1 .. i - 1
        BY <1>0, <2>2, <4>5, <4>6
      <4>8. SessionOf(captured, i) = 2
        BY <2>8, <4>1, <4>6, <4>7 DEF SessionOf
      <4> QED
        BY <2>4, <2>7, <4>8
    <3>3. CASE captured[k] = Will(Second)
      BY <3>3
    <3> QED
      BY <3>1, <3>2, <3>3 DEF Opening
  <2> QED
    BY <2>8, <2>9 DEF Second
<1> QED
  BY <1>1, <1>2 DEF NoFalseBlame

(* Wherever the capture was cut off and whatever was lost, for any number of    *)
(* robots and length of the run: the omitted ONLINE is a FAIL of the mobile     *)
(* robot with the evidence and INCONCLUSIVE without, and nobody but the target  *)
(* is blamed (LSMART_DEMO.md 62-65, run-lsmart-demo.sh 241-248).                *)
THEOREM DiagnosisHolds == Spec => []DiagnosisIsTrue
<1>1. Init => WireInvariant /\ OpeningInv
  BY InitInvariant, InitOpening
<1>2. WireInvariant /\ OpeningInv /\ [Next]_vars => (WireInvariant /\ OpeningInv)'
  BY NextInvariant, OpeningKeeps
<1>3. WireInvariant /\ OpeningInv => DiagnosisIsTrue
  <2>1. WireInvariant /\ OpeningInv => FaultIsDiagnosed
    BY FaultIsFound DEF FaultIsDiagnosed
  <2> QED
    BY <2>1, BlameIsTrue DEF DiagnosisIsTrue
<1> QED
  BY <1>1, <1>2, <1>3, PTL DEF Spec

-----------------------------------------------------------------------------
(* What is recorded *)

FleetLink == link[<<Fleet, 1>>]

Announced == \E i \in DOMAIN FleetLink : FleetLink[i] = Control

(* An order on the fleet's link is of the robot's present batch, and the only   *)
(* one of the robot; the completion is announced when no batch is under way.    *)
StageInv ==
    /\ \A r \in Robots :
           batches[r] = orderHeader[r] + (IF batch[r] \in {"queued", "pending"} THEN 1 ELSE 0)
    /\ \A i \in DOMAIN FleetLink :
           \/ FleetLink[i] = Control
           \/ \E r \in Robots : /\ FleetLink[i] = Order(r, batches[r], batches[r])
                                /\ batch[r] = "published"
    /\ \A i, j \in DOMAIN FleetLink :
           /\ FleetLink[i].topic = "order" /\ FleetLink[j].topic = "order"
           /\ FleetLink[i].robot = FleetLink[j].robot
           => i = j
    /\ pc \in Closing =>
           \A r \in Robots : batch[r] \notin {"pending", "published", "carried"}
    /\ Sealed \/ Announced => pc \in Closing

Heard(r, n) == \E j \in DOMAIN captured : captured[j] = Order(r, n, n)

OnTheFleetLink(r, n) == \E i \in DOMAIN FleetLink : FleetLink[i] = Order(r, n, n)

(* Unless something is lost, an order is captured when its robot gets it, and   *)
(* before the completion; a state that waits on a link names a captured order.  *)
SentIsHeard ==
    rec = "recording" /\ pc # "failed" =>
        \A r \in Robots : \A n \in 1 .. orderHeader[r] : Heard(r, n) \/ OnTheFleetLink(r, n)

SealedIsHeard ==
    Sealed => \A r \in Robots : \A n \in 1 .. orderHeader[r] : Heard(r, n)

CarriedIsHeard ==
    rec = "recording" =>
        \A r \in Robots : /\ batch[r] \in {"carried", "returned"} => Heard(r, batches[r])
                          /\ accepted[r] # 0 => Heard(r, accepted[r])

NamedIsHeard ==
    rec = "recording" =>
        \A c \in Connections : \A i \in DOMAIN link[c] :
            link[c][i].topic = "state" /\ link[c][i].ref # 0 =>
                Heard(link[c][i].robot, link[c][i].ref)

OrderReferences ==
    \A i \in DOMAIN captured :
        captured[i].topic = "state" /\ captured[i].ref # 0 =>
            \E j \in 1 .. i - 1 :
                captured[j] = Order(captured[i].robot, captured[i].ref, captured[i].ref)

HeardInv ==
    job.faults = 0 =>
        SentIsHeard /\ SealedIsHeard /\ CarriedIsHeard /\ NamedIsHeard /\ OrderReferences

RecordInvariant == WireInvariant /\ StageInv /\ HeardInv

-----------------------------------------------------------------------------
(* Steps that publish no order and no pose *)

(* What waits on a link waited there before, but for connection messages.      *)
NothingNew ==
    \A c \in Connections : \A i \in DOMAIN link'[c] :
        \/ i \in DOMAIN link[c] /\ link'[c][i] = link[c][i]
        \/ c[1] \in Robots /\ link'[c][i].topic = "connection"

OrdersKept ==
    \A i \in DOMAIN FleetLink : FleetLink[i].topic = "order" =>
        \E k \in DOMAIN FleetLink' : FleetLink'[k] = FleetLink[i]

QuietOutcome ==
    /\ UNCHANGED <<job, batch, batches, accepted, orderHeader, captured>>
    /\ NothingNew
    /\ rec' \in {rec, "failed"}
    /\ pc' \in Closing <=> pc \in Closing
    /\ job.faults = 0 /\ pc' # "failed" => OrdersKept /\ pc # "failed"

LEMMA SeverOutcome ==
    ASSUME TypeOK, NEW x \in Robots \cup {Fleet}, NEW state, NEW kept,
           kept \subseteq 0 .. Len(link[ConnectionOf(x)]), Sever(x, state, kept)
    PROVE  /\ NothingNew
           /\ x # Fleet => FleetLink' = FleetLink
<1>0. /\ job \in Jobs /\ session \in {1, 2} /\ Fleet \notin Robots
      /\ link \in [Connections -> Seq(Messages)]
      /\ <<Fleet, 1>> \in Connections
  BY Numbers, ConnectionShape DEF TypeOK
<1> PICK c : c = ConnectionOf(x)
  OBVIOUS
<1>1. c \in Connections /\ c[1] = x
  BY <1>0, PresentConnection
<1>2. PICK k \in 0 .. Len(link[c]) : link' = [link EXCEPT ![c] = Cut(c, k)]
  BY DEF Sever
<1>3. \A i \in DOMAIN Cut(c, k) :
          \/ i \in DOMAIN link[c] /\ Cut(c, k)[i] = link[c][i]
          \/ i = Len(Cut(c, k)) /\ c[1] \in Robots /\ Cut(c, k)[i] = Will(c)
  BY <1>1, CutShape
<1>4. Will(c).topic = "connection"
  BY DEF Will, Connection, Message
<1>5. link'[c] = Cut(c, k) /\ \A d \in Connections \ {c} : link'[d] = link[d]
  BY <1>0, <1>1, <1>2
<1>6. NothingNew
  BY <1>3, <1>4, <1>5 DEF NothingNew
<1>7. ASSUME x # Fleet PROVE FleetLink' = FleetLink
  <2>1. <<Fleet, 1>> # c
    BY <1>1, <1>7
  <2> QED
    BY <1>0, <1>5, <2>1 DEF FleetLink
<1> QED
  BY <1>6, <1>7

LEMMA UnchangedLinks ==
    ASSUME link' = link PROVE NothingNew /\ OrdersKept /\ FleetLink' = FleetLink
BY DEF NothingNew, OrdersKept, FleetLink

LEMMA QuietSteps ==
    ASSUME WireInvariant, StageInv,
           \/ WriteComplete \/ NoFaultWork \/ NextIteration \/ BridgeFails
           \/ RecorderFails \/ InjectFault \/ Reconnect \/ UNCHANGED vars
           \/ \E x \in Robots \cup {Fleet} :
                  \/ ConnectionLost(x) \/ Exit(x)
                  \/ Shutdown(x) /\ pc = "shutdown" /\ pc' \in Closing
    PROVE  QuietOutcome
<1>0. /\ TypeOK /\ job \in Jobs /\ job.faults \in Nat /\ faults \in 0 .. job.faults
      /\ FaultTarget \in Robots /\ Fleet # FaultTarget /\ session \in {1, 2}
      /\ link \in [Connections -> Seq(Messages)]
      /\ \A c \in Connections : Len(link[c]) \in Nat /\ DOMAIN link[c] = 1 .. Len(link[c])
  BY Numbers, ConnectionShape, LinkShape DEF WireInvariant, TypeOK
<1>1. job.faults = 0 => ~MayFault
  BY <1>0 DEF MayFault
<1>2. FleetLink' = FleetLink => OrdersKept
  BY DEF OrdersKept
<1>3. CASE \/ WriteComplete \/ NoFaultWork \/ NextIteration \/ BridgeFails
           \/ RecorderFails \/ UNCHANGED vars
  <2>1. link' = link
    BY <1>3 DEF WriteComplete, NoFaultWork, NextIteration, BridgeFails, RecorderFails, vars
  <2>2. UNCHANGED <<job, batch, batches, accepted, orderHeader, captured>>
    BY <1>3 DEF WriteComplete, NoFaultWork, NextIteration, BridgeFails, RecorderFails, vars,
                simVars, headerVars, recVars
  <2>3. rec' \in {rec, "failed"}
    BY <1>3 DEF WriteComplete, NoFaultWork, NextIteration, BridgeFails, RecorderFails, vars,
                recVars
  <2>4. \/ pc' = pc
        \/ pc \in {"receive", "publish", "telemetry", "check", "faults"}
           /\ pc' \in {"publish", "receive", "failed"}
    BY <1>3 DEF WriteComplete, NoFaultWork, NextIteration, BridgeFails, RecorderFails, vars,
                Broken
  <2> QED
    BY <2>1, <2>2, <2>3, <2>4, UnchangedLinks DEF QuietOutcome, Closing
<1>4. CASE InjectFault
  <2>1. /\ UNCHANGED <<job, batch, batches, accepted, orderHeader, captured, rec>>
        /\ pc = "faults" /\ pc' = "publish"
    BY <1>4 DEF InjectFault, simVars, headerVars, recVars
  <2>2. NothingNew /\ FleetLink' = FleetLink
    <3>1. CASE client[FaultTarget] = "up"
      <4>1. PICK c \in Connections : c = Conn(FaultTarget) /\ c = ConnectionOf(FaultTarget)
        BY <1>0, PresentConnection DEF ConnectionOf
      <4>2. Flushed(c) \subseteq 0 .. Len(link[c])
        BY <1>0 DEF Flushed
      <4>3. Sever(FaultTarget, "none", Flushed(c))
        BY <1>4, <3>1, <4>1 DEF InjectFault
      <4> QED
        BY <1>0, <4>1, <4>2, <4>3, SeverOutcome
    <3>2. CASE client[FaultTarget] # "up"
      BY <1>4, <3>2, UnchangedLinks DEF InjectFault
    <3> QED
      BY <3>1, <3>2
  <2> QED
    BY <1>2, <2>1, <2>2 DEF QuietOutcome, Closing
<1>5. CASE Reconnect
  <2>1. /\ UNCHANGED <<job, batch, batches, accepted, orderHeader, captured, rec>>
        /\ pc = "faults" /\ pc' = "publish"
        /\ link' = [link EXCEPT ![Second] = Greeting]
    BY <1>5 DEF Reconnect, simVars, headerVars, recVars, Second
  <2>2. \A i \in DOMAIN Greeting : Greeting[i].topic = "connection"
    <3>1. Connection(FaultTarget, 4, "ONLINE", 2).topic = "connection"
      BY DEF Connection, Message
    <3> QED
      BY <3>1 DEF Greeting
  <2>3. link'[Second] = Greeting /\ \A d \in Connections \ {Second} : link'[d] = link[d]
    BY <1>0, <2>1, ConnectionShape
  <2>4. NothingNew
    <3> SUFFICES ASSUME NEW d \in Connections, NEW i \in DOMAIN link'[d]
                 PROVE  \/ i \in DOMAIN link[d] /\ link'[d][i] = link[d][i]
                        \/ d[1] \in Robots /\ link'[d][i].topic = "connection"
      BY DEF NothingNew
    <3>1. CASE d = Second
      BY <1>0, <2>2, <2>3, <3>1 DEF Second
    <3>2. CASE d # Second
      BY <2>3, <3>2
    <3> QED
      BY <3>1, <3>2
  <2>5. FleetLink' = FleetLink
    <3>1. <<Fleet, 1>> \in Connections /\ <<Fleet, 1>> # Second
      BY <1>0, ConnectionShape DEF Second
    <3> QED
      BY <2>3, <3>1 DEF FleetLink
  <2> QED
    BY <1>2, <2>1, <2>4, <2>5 DEF QuietOutcome, Closing
<1>6. ASSUME NEW x \in Robots \cup {Fleet}, ConnectionLost(x) \/ Exit(x)
      PROVE  QuietOutcome
  <2>1. /\ UNCHANGED <<job, batch, batches, accepted, orderHeader, captured, rec, pc>>
        /\ MayFault \/ pc = "failed"
    BY <1>6 DEF ConnectionLost, Exit, simVars, headerVars, recVars
  <2>2. PICK state : Sever(x, state, 0 .. Len(link[ConnectionOf(x)]))
    BY <1>6 DEF ConnectionLost, Exit
  <2>3. NothingNew
    BY <1>0, <2>2, SeverOutcome
  <2> QED
    BY <1>1, <2>1, <2>3 DEF QuietOutcome
<1>7. ASSUME NEW x \in Robots \cup {Fleet}, Shutdown(x), pc = "shutdown", pc' \in Closing
      PROVE  QuietOutcome
  <2>1. UNCHANGED <<job, batch, batches, accepted, orderHeader, captured, rec>>
    BY <1>7 DEF Shutdown, simVars, headerVars, recVars
  <2>2. NothingNew
    <3>1. CASE link' = link
      BY <3>1, UnchangedLinks
    <3>2. CASE Sever(x, "none", 0 .. Len(link[ConnectionOf(x)]))
      BY <1>0, <3>2, SeverOutcome
    <3> QED
      BY <1>7, <3>1, <3>2 DEF Shutdown
  <2>3. OrdersKept
    <3>1. ASSUME NEW i \in DOMAIN FleetLink, FleetLink[i].topic = "order" PROVE FALSE
      <4>1. FleetLink[i] # Control
        BY <3>1 DEF Control, Message
      <4>2. PICK r \in Robots : batch[r] = "published"
        BY <3>1, <4>1 DEF StageInv
      <4> QED
        BY <1>7, <4>2 DEF StageInv, Closing
    <3> QED
      BY <3>1 DEF OrdersKept
  <2> QED
    BY <1>7, <2>1, <2>2, <2>3 DEF QuietOutcome, Closing
<1> QED
  BY <1>3, <1>4, <1>5, <1>6, <1>7

LEMMA QuietStages ==
    ASSUME WireInvariant, StageInv, QuietOutcome
    PROVE  StageInv'
<1>0. /\ job' = job /\ batch' = batch /\ batches' = batches /\ orderHeader' = orderHeader
      /\ Robots' = Robots /\ <<Fleet, 1>> \in Connections /\ Fleet \notin Robots
  BY Sets, ConnectionShape, Numbers DEF QuietOutcome, WireInvariant, TypeOK
<1>1. \A i \in DOMAIN FleetLink' : i \in DOMAIN FleetLink /\ FleetLink'[i] = FleetLink[i]
  BY <1>0 DEF QuietOutcome, NothingNew, FleetLink
<1>2. /\ Sealed' => Sealed
      /\ Announced' => Announced
      /\ pc' \in Closing <=> pc \in Closing
  BY <1>1 DEF QuietOutcome, Sealed, Announced, Control, Message
<1>3. \A i \in DOMAIN FleetLink' :
          \/ FleetLink'[i] = Control
          \/ \E r \in Robots : /\ FleetLink'[i] = Order(r, batches[r], batches[r])
                               /\ batch[r] = "published"
  BY <1>1 DEF StageInv
<1>4. \A i, j \in DOMAIN FleetLink' :
          /\ FleetLink'[i].topic = "order" /\ FleetLink'[j].topic = "order"
          /\ FleetLink'[i].robot = FleetLink'[j].robot
          => i = j
  BY <1>1 DEF StageInv
<1>5. Control' = Control /\ \A r, b : Order(r, b, b)' = Order(r, b, b)
  BY DEF Control, Order, Message
<1> QED
  BY <1>0, <1>2, <1>3, <1>4, <1>5 DEF StageInv, Order, Control, Message

(* The parts of HeardInv survive a step that changes nothing they mention.     *)
LEMMA SentFrame ==
    ASSUME SentIsHeard, UNCHANGED <<job, orderHeader, captured>>,
           rec' = "recording" => rec = "recording",
           pc' # "failed" => OrdersKept /\ pc # "failed"
    PROVE  SentIsHeard'
<1> SUFFICES ASSUME rec' = "recording", pc' # "failed", NEW r \in Robots,
                    NEW n \in 1 .. orderHeader[r]
             PROVE  Heard(r, n)' \/ OnTheFleetLink(r, n)'
  BY Sets DEF SentIsHeard
<1>1. CASE Heard(r, n)
  BY <1>1 DEF Heard, Order, Message
<1>2. CASE OnTheFleetLink(r, n)
  <2>1. PICK i \in DOMAIN FleetLink : FleetLink[i] = Order(r, n, n)
    BY <1>2 DEF OnTheFleetLink
  <2>2. FleetLink[i].topic = "order"
    BY <2>1 DEF Order, Message
  <2>3. \E k \in DOMAIN FleetLink' : FleetLink'[k] = Order(r, n, n)
    BY <2>1, <2>2 DEF OrdersKept
  <2> QED
    BY <2>3 DEF OnTheFleetLink, Order, Message
<1> QED
  BY <1>1, <1>2 DEF SentIsHeard

LEMMA SealedFrame ==
    ASSUME SealedIsHeard, UNCHANGED <<job, orderHeader, captured>>, Sealed' => Sealed
    PROVE  SealedIsHeard'
BY Sets DEF SealedIsHeard, Heard, Order, Message

LEMMA CarriedFrame ==
    ASSUME CarriedIsHeard, UNCHANGED <<job, batch, batches, accepted, captured>>,
           rec' = "recording" => rec = "recording"
    PROVE  CarriedIsHeard'
BY Sets DEF CarriedIsHeard, Heard, Order, Message

(* No state is published. *)
LEMMA NamedFrame ==
    ASSUME NamedIsHeard, UNCHANGED <<job, captured>>,
           rec' = "recording" => rec = "recording",
           \A c \in Connections : \A i \in DOMAIN link'[c] :
               link'[c][i].topic = "state" =>
                   \E k \in DOMAIN link[c] : link'[c][i] = link[c][k]
    PROVE  NamedIsHeard'
BY Sets DEF NamedIsHeard, Heard, Order, Message

LEMMA ReferencesFrame ==
    ASSUME OrderReferences, captured' = captured PROVE OrderReferences'
BY DEF OrderReferences, Order, Message

LEMMA QuietHeard ==
    ASSUME HeardInv, QuietOutcome
    PROVE  HeardInv'
<1>1. /\ UNCHANGED <<job, batch, batches, accepted, orderHeader, captured>>
      /\ rec' = "recording" => rec = "recording"
      /\ Sealed' => Sealed
  BY DEF QuietOutcome, Sealed
<1>2. job.faults = 0 => (pc' # "failed" => OrdersKept /\ pc # "failed")
  BY DEF QuietOutcome
<1>3. \A c \in Connections : \A i \in DOMAIN link'[c] :
          link'[c][i].topic = "state" =>
              \E k \in DOMAIN link[c] : link'[c][i] = link[c][k]
  BY DEF QuietOutcome, NothingNew
<1> QED
  BY <1>1, <1>2, <1>3, SentFrame, SealedFrame, CarriedFrame, NamedFrame, ReferencesFrame
  DEF HeardInv

-----------------------------------------------------------------------------
(* Batches and orders *)

LEMMA SimulateKeepsRecord ==
    ASSUME WireInvariant, StageInv, HeardInv, Simulate
    PROVE  StageInv' /\ HeardInv'
<1>1. /\ UNCHANGED <<job, pc, orderHeader, link, rec, captured>>
      /\ accepted' = [r \in Robots |-> CurrentOrder(r)]
      /\ Robots' = Robots
  BY Sets DEF Simulate, headerVars, recVars
<1>2. PICK obtain \in SUBSET {r \in Idle : batches[r] < job.batches} :
          /\ batches' = [r \in Robots |-> IF r \in obtain THEN batches[r] + 1 ELSE batches[r]]
          /\ batch' = [r \in Robots |-> IF r \in obtain THEN "queued"
                                        ELSE IF r \in Idle THEN "none" ELSE batch[r]]
  BY DEF Simulate
<1>3. \A r \in Robots :
          /\ r \in obtain => batch[r] \in {"none", "returned"} /\ batch'[r] = "queued"
                             /\ batches'[r] = batches[r] + 1
          /\ r \notin obtain => /\ batches'[r] = batches[r]
                                /\ \/ batch'[r] = batch[r] /\ batch[r] # "returned"
                                   \/ batch[r] \in {"none", "returned"} /\ batch'[r] = "none"
  BY <1>2 DEF Idle
<1>4. StageInv'
  <2>1. \A r \in Robots :
            batches'[r] = orderHeader[r] + (IF batch'[r] \in {"queued", "pending"} THEN 1 ELSE 0)
    <3> TAKE r \in Robots
    <3>1. batches[r] = orderHeader[r] + (IF batch[r] \in {"queued", "pending"} THEN 1 ELSE 0)
      BY DEF StageInv
    <3>2. orderHeader[r] \in Nat /\ batches[r] \in Nat
      BY Numbers DEF WireInvariant, TypeOK
    <3>3. CASE r \in obtain
      <4>1. batches[r] = orderHeader[r]
        BY <1>3, <3>1, <3>2, <3>3
      <4> QED
        BY <1>3, <3>3, <4>1
    <3>4. CASE r \notin obtain
      BY <1>3, <3>1, <3>2, <3>4
    <3> QED
      BY <3>3, <3>4
  <2>2. \A r \in Robots : batch[r] = "published" =>
            batch'[r] = "published" /\ batches'[r] = batches[r]
    BY <1>3
  <2>3. \A i \in DOMAIN FleetLink :
            \/ FleetLink[i] = Control
            \/ \E r \in Robots : /\ FleetLink[i] = Order(r, batches'[r], batches'[r])
                                 /\ batch'[r] = "published"
    BY <2>2 DEF StageInv
  <2>4. pc \in Closing => \A r \in Robots : batch'[r] \notin {"pending", "published", "carried"}
    BY <1>3 DEF StageInv
  <2>5. /\ FleetLink' = FleetLink /\ (Announced' <=> Announced) /\ (Sealed' <=> Sealed)
    BY <1>1 DEF FleetLink, Announced, Sealed, Control, Message
  <2> QED
    BY <1>1, <2>1, <2>3, <2>4, <2>5 DEF StageInv, Order, Control, Message
<1>5. CarriedIsHeard => CarriedIsHeard'
  <2> SUFFICES ASSUME CarriedIsHeard, rec = "recording", NEW r \in Robots
               PROVE  /\ batch'[r] \in {"carried", "returned"} => Heard(r, batches[r])
                                                                  /\ batches'[r] = batches[r]
                      /\ accepted'[r] # 0 => Heard(r, accepted'[r])
    BY <1>1 DEF CarriedIsHeard, Heard, Order, Message
  <2>1. batch'[r] \in {"carried", "returned"} => batch'[r] = batch[r] /\ batches'[r] = batches[r]
    BY <1>3
  <2>2. accepted'[r] = IF batch[r] = "returned" THEN batches[r] ELSE accepted[r]
    BY <1>1 DEF CurrentOrder
  <2> QED
    BY <2>1, <2>2 DEF CarriedIsHeard
<1>6. HeardInv'
  <2>1. OrdersKept
    BY <1>1, UnchangedLinks
  <2>2. UNCHANGED <<job, orderHeader, captured>> /\ (Sealed' => Sealed) /\ rec' = rec /\ pc' = pc
    BY <1>1 DEF Sealed
  <2>3. \A c \in Connections : \A i \in DOMAIN link'[c] :
            link'[c][i].topic = "state" => \E k \in DOMAIN link[c] : link'[c][i] = link[c][k]
    BY <1>1
  <2> QED
    BY <1>5, <2>1, <2>2, <2>3, SentFrame, SealedFrame, NamedFrame, ReferencesFrame DEF HeardInv
<1> QED
  BY <1>4, <1>6

LEMMA ReceiveKeepsRecord ==
    ASSUME WireInvariant, StageInv, HeardInv, ReceiveDeliveries
    PROVE  StageInv' /\ HeardInv'
<1>1. /\ UNCHANGED <<job, batches, accepted, orderHeader, link, rec, captured>>
      /\ batch' = [r \in Robots |-> IF batch[r] = "carried" THEN "returned" ELSE batch[r]]
      /\ pc = "receive" /\ pc' = "faults" /\ Robots' = Robots
  BY Sets DEF ReceiveDeliveries, simVars, headerVars, recVars
<1>2. \A r \in Robots :
          \/ batch'[r] = batch[r]
          \/ batch[r] = "carried" /\ batch'[r] = "returned"
  BY <1>1
<1>3. /\ FleetLink' = FleetLink /\ (Announced' <=> Announced) /\ (Sealed' <=> Sealed)
  BY <1>1 DEF FleetLink, Announced, Sealed, Control, Message
<1>4. StageInv'
  <2>1. \A r \in Robots :
            /\ batch'[r] \in {"queued", "pending"} <=> batch[r] \in {"queued", "pending"}
            /\ batch[r] = "published" => batch'[r] = "published"
    BY <1>2
  <2>2. \A r \in Robots :
            batches[r] = orderHeader[r] + (IF batch'[r] \in {"queued", "pending"} THEN 1 ELSE 0)
    BY <2>1 DEF StageInv
  <2>3. \A i \in DOMAIN FleetLink :
            \/ FleetLink[i] = Control
            \/ \E r \in Robots : /\ FleetLink[i] = Order(r, batches[r], batches[r])
                                 /\ batch'[r] = "published"
    BY <2>1 DEF StageInv
  <2>4. pc' \notin Closing /\ ~Sealed /\ ~Announced
    BY <1>1 DEF Closing, StageInv
  <2> QED
    BY <1>1, <1>3, <2>2, <2>3, <2>4 DEF StageInv, Order, Control, Message
<1>5. CarriedIsHeard => CarriedIsHeard'
  <2> SUFFICES ASSUME CarriedIsHeard, rec = "recording", NEW r \in Robots
               PROVE  /\ batch'[r] \in {"carried", "returned"} => Heard(r, batches[r])
                      /\ accepted[r] # 0 => Heard(r, accepted[r])
    BY <1>1 DEF CarriedIsHeard, Heard, Order, Message
  <2> QED
    BY <1>2 DEF CarriedIsHeard
<1>6. HeardInv'
  <2>1. OrdersKept
    BY <1>1, UnchangedLinks
  <2>2. UNCHANGED <<job, orderHeader, captured>> /\ (Sealed' => Sealed) /\ rec' = rec
        /\ pc # "failed"
    BY <1>1, <1>3
  <2>3. \A c \in Connections : \A i \in DOMAIN link'[c] :
            link'[c][i].topic = "state" => \E k \in DOMAIN link[c] : link'[c][i] = link[c][k]
    BY <1>1
  <2> QED
    BY <1>5, <2>1, <2>2, <2>3, SentFrame, SealedFrame, NamedFrame, ReferencesFrame DEF HeardInv
<1> QED
  BY <1>4, <1>6

(* What PublishOrders appends. *)
LEMMA OrdersShape ==
    ASSUME WireInvariant, StageInv, PublishOrders
    PROVE  LET old == Len(FleetLink)
               new == Cardinality(Ready)
           IN  /\ old \in Nat /\ new \in Nat /\ DOMAIN FleetLink = 1 .. old
               /\ DOMAIN FleetLink' = 1 .. old + new
               /\ \A i \in 1 .. old : FleetLink'[i] = FleetLink[i]
               /\ \E file \in Ascending(Ready) :
                      /\ DOMAIN file = 1 .. new
                      /\ \A i \in 1 .. new : file[i] \in Ready
                      /\ \A r \in Ready : \E i \in 1 .. new : file[i] = r
                      /\ \A i, j \in 1 .. new : file[i] = file[j] => i = j
                      /\ \A i \in old + 1 .. old + new :
                             FleetLink'[i] = Order(file[i - old], batches[file[i - old]],
                                                   batches[file[i - old]])
               /\ \A c \in Connections : c # <<Fleet, 1>> => link'[c] = link[c]
<1>0. /\ job \in Jobs /\ Robots = 1 .. job.robots /\ job.robots \in Nat /\ job.batches \in Nat
      /\ link \in [Connections -> Seq(Messages)] /\ <<Fleet, 1>> \in Connections
      /\ FleetLink \in Seq(Messages) /\ Len(FleetLink) \in Nat
      /\ DOMAIN FleetLink = 1 .. Len(FleetLink)
  BY Numbers, ConnectionShape, LinkShape DEF WireInvariant, TypeOK, Robots, FleetLink
<1>1. PICK file \in Ascending(Ready) :
          link' = [link EXCEPT ![<<Fleet, 1>>] = @ \o [i \in DOMAIN file |-> OrderOf(file[i])]]
  BY DEF PublishOrders
<1> PICK new : new = Cardinality(Ready)
  OBVIOUS
<1> PICK output : output = [i \in DOMAIN file |-> OrderOf(file[i])]
  OBVIOUS
<1>2. /\ new \in Nat /\ DOMAIN file = 1 .. new /\ \A i \in 1 .. new : file[i] \in Ready
      /\ \A r \in Ready : \E i \in 1 .. new : file[i] = r
      /\ \A i, j \in 1 .. new : file[i] = file[j] => i = j
      /\ Ready \subseteq Robots
  <2>1. Ready \subseteq Robots /\ IsFiniteSet(Robots)
    <3>1. Ready \subseteq Robots
      BY DEF Ready
    <3>2. job.robots \in Int
      BY <1>0
    <3>3. IsFiniteSet(1 .. job.robots)
      BY <3>2, FS_Interval
    <3> QED
      BY <1>0, <3>1, <3>3
  <2>2. Cardinality(Ready) \in Nat
    BY <2>1, FS_Subset, FS_CardinalityType
  <2>3. file \in Bijection(1 .. new, Ready)
    BY DEF Ascending
  <2>4. /\ file \in [1 .. new -> Ready] /\ IsInjective(file)
        /\ \A r \in Ready : \E i \in 1 .. new : file[i] = r
    BY <2>3 DEF Bijection, Injection, Surjection
  <2> QED
    BY <2>1, <2>2, <2>4 DEF IsInjective
<1>3. \A r \in Ready : OrderOf(r) = Order(r, batches[r], batches[r]) /\ OrderOf(r) \in Messages
  <2> TAKE r \in Ready
  <2>1. r \in Robots /\ batch[r] \in {"queued", "pending"}
    BY DEF Ready, Discovered
  <2>2. batches[r] = orderHeader[r] + 1 /\ batches[r] \in Nat
    <3>1. batches[r] = orderHeader[r] + (IF batch[r] \in {"queued", "pending"} THEN 1 ELSE 0)
      BY <2>1 DEF StageInv
    <3>2. batches[r] = orderHeader[r] + 1
      BY <2>1, <3>1
    <3>3. batches \in [Robots -> 0 .. job.batches] /\ job.batches \in Nat
      BY <1>0 DEF WireInvariant, TypeOK
    <3>4. batches[r] \in 0 .. job.batches
      BY <2>1, <3>3
    <3>5. batches[r] \in Nat
      BY <3>3, <3>4
    <3> QED
      BY <3>2, <3>5
  <2> QED
    BY <2>1, <2>2, MessageTypes DEF OrderOf
<1>4. /\ output \in Seq(Messages) /\ Len(output) = new
      /\ \A i \in 1 .. new : output[i] = Order(file[i], batches[file[i]], batches[file[i]])
  <2>1. output \in [1 .. new -> Messages]
    BY <1>2, <1>3
  <2>2. output \in Seq(Messages)
    BY <1>2, <2>1, SeqDef
  <2>3. Len(output) = new
    BY <1>2, <2>1, <2>2, LenProperties
  <2> QED
    BY <1>2, <1>3, <2>2, <2>3
<1>5. /\ FleetLink' = FleetLink \o output
      /\ \A c \in Connections : c # <<Fleet, 1>> => link'[c] = link[c]
  BY <1>0, <1>1 DEF FleetLink
<1>6. /\ FleetLink \o output \in Seq(Messages)
      /\ Len(FleetLink \o output) = Len(FleetLink) + new
      /\ \A i \in 1 .. Len(FleetLink) + new : (FleetLink \o output)[i] =
             IF i <= Len(FleetLink) THEN FleetLink[i] ELSE output[i - Len(FleetLink)]
  BY <1>0, <1>4, ConcatProperties
<1>7. DOMAIN (FleetLink \o output) = 1 .. Len(FleetLink) + new
  BY <1>6, LenProperties
<1>8. /\ \A i \in 1 .. Len(FleetLink) : FleetLink'[i] = FleetLink[i]
      /\ \A i \in Len(FleetLink) + 1 .. Len(FleetLink) + new :
             /\ i - Len(FleetLink) \in 1 .. new
             /\ FleetLink'[i] = output[i - Len(FleetLink)]
  BY <1>0, <1>2, <1>5, <1>6
<1>9. \A i \in Len(FleetLink) + 1 .. Len(FleetLink) + new :
          FleetLink'[i] = Order(file[i - Len(FleetLink)], batches[file[i - Len(FleetLink)]],
                                batches[file[i - Len(FleetLink)]])
  BY <1>4, <1>8
<1> QED
  BY <1>0, <1>2, <1>5, <1>7, <1>8, <1>9

LEMMA PublishOrdersKeepsRecord ==
    ASSUME WireInvariant, StageInv, HeardInv, PublishOrders
    PROVE  StageInv' /\ HeardInv'
<1> PICK old, new : old = Len(FleetLink) /\ new = Cardinality(Ready)
  OBVIOUS
<1>0. /\ UNCHANGED <<job, batches, accepted, rec, captured>>
      /\ pc = "publish" /\ pc' = "telemetry" /\ Robots' = Robots
      /\ batch' = [r \in Robots |-> IF r \in Ready THEN "published" ELSE Discovered[r]]
      /\ orderHeader' = [r \in Robots |-> IF r \in Ready THEN orderHeader[r] + 1
                                          ELSE orderHeader[r]]
  BY Sets DEF PublishOrders, simVars, recVars
<1>1. /\ old \in Nat /\ new \in Nat /\ DOMAIN FleetLink = 1 .. old
      /\ DOMAIN FleetLink' = 1 .. old + new
      /\ \A i \in 1 .. old : FleetLink'[i] = FleetLink[i]
      /\ \A c \in Connections : c # <<Fleet, 1>> => link'[c] = link[c]
  BY OrdersShape
<1>2. PICK file \in Ascending(Ready) :
          /\ \A i \in 1 .. new : file[i] \in Ready
          /\ \A r \in Ready : \E i \in 1 .. new : file[i] = r
          /\ \A i, j \in 1 .. new : file[i] = file[j] => i = j
          /\ \A i \in old + 1 .. old + new :
                 FleetLink'[i] = Order(file[i - old], batches[file[i - old]],
                                       batches[file[i - old]])
  BY OrdersShape
<1>3. \A r \in Robots :
          /\ r \in Ready => batch[r] \in {"queued", "pending"} /\ batch'[r] = "published"
                            /\ orderHeader'[r] = orderHeader[r] + 1
          /\ r \notin Ready => /\ orderHeader'[r] = orderHeader[r]
                               /\ \/ batch'[r] = batch[r]
                                  \/ batch[r] = "queued" /\ batch'[r] = "pending"
  BY <1>0 DEF Ready, Discovered
<1>4. /\ pc \notin Closing /\ pc' \notin Closing /\ ~Sealed /\ ~Announced
  BY <1>0 DEF Closing, StageInv
(* An order that waited, and a new one. *)
<1>5. ASSUME NEW i \in 1 .. old
      PROVE  \E r \in Robots : /\ FleetLink'[i] = Order(r, batches[r], batches[r])
                               /\ batch[r] = "published" /\ r \notin Ready
  <2>1. FleetLink[i] # Control
    BY <1>1, <1>4 DEF Announced
  <2>2. PICK r \in Robots : /\ FleetLink[i] = Order(r, batches[r], batches[r])
                            /\ batch[r] = "published"
    BY <1>1, <2>1 DEF StageInv
  <2> QED
    BY <1>1, <1>3, <2>2
<1>6. ASSUME NEW i \in old + 1 .. old + new
      PROVE  /\ i - old \in 1 .. new /\ file[i - old] \in Ready
             /\ FleetLink'[i] = Order(file[i - old], batches[file[i - old]],
                                      batches[file[i - old]])
  <2>1. i - old \in 1 .. new
    BY <1>1
  <2> QED
    BY <1>2, <2>1
<1>7. \A i \in 1 .. old + new : i \in 1 .. old \/ i \in old + 1 .. old + new
  BY <1>1
<1>8. Ready \subseteq Robots /\ \A r, b : Order(r, b, b).robot = r /\ Order(r, b, b) # Control
  BY DEF Ready, Order, Control, Message
<1>9. StageInv'
  <2>1. \A r \in Robots :
            batches[r] = orderHeader'[r] + (IF batch'[r] \in {"queued", "pending"} THEN 1 ELSE 0)
    <3> TAKE r \in Robots
    <3>1. batches[r] = orderHeader[r] + (IF batch[r] \in {"queued", "pending"} THEN 1 ELSE 0)
          /\ orderHeader[r] \in Nat
      BY DEF StageInv, WireInvariant, TypeOK
    <3>2. CASE r \in Ready
      <4>1. orderHeader'[r] = orderHeader[r] + 1 /\ batches[r] = orderHeader[r] + 1
            /\ batch'[r] \notin {"queued", "pending"}
        BY <1>3, <3>1, <3>2
      <4>2. orderHeader[r] + 1 = orderHeader[r] + 1 + 0
        BY <3>1
      <4> QED
        BY <4>1, <4>2
    <3>3. CASE r \notin Ready
      BY <1>3, <3>1, <3>3
    <3> QED
      BY <3>2, <3>3
  <2>2. \A i \in DOMAIN FleetLink' :
            \E r \in Robots : /\ FleetLink'[i] = Order(r, batches[r], batches[r])
                              /\ batch'[r] = "published"
    <3> TAKE i \in DOMAIN FleetLink'
    <3>1. CASE i \in 1 .. old
      BY <1>3, <1>5, <3>1
    <3>2. CASE i \in old + 1 .. old + new
      BY <1>3, <1>6, <1>8, <3>2
    <3> QED
      BY <1>1, <1>7, <3>1, <3>2
  <2>3. ASSUME NEW i \in DOMAIN FleetLink', NEW j \in DOMAIN FleetLink',
               FleetLink'[i].topic = "order", FleetLink'[j].topic = "order",
               FleetLink'[i].robot = FleetLink'[j].robot
        PROVE  i = j
    <3>1. \A k \in 1 .. old : FleetLink'[k].robot \notin Ready
      BY <1>5, <1>8
    <3>2. \A k \in old + 1 .. old + new : FleetLink'[k].robot = file[k - old]
                                          /\ FleetLink'[k].robot \in Ready
      BY <1>6, <1>8
    <3>3. CASE i \in 1 .. old /\ j \in 1 .. old
      BY <1>1, <2>3, <3>3 DEF StageInv
    <3>4. CASE i \in old + 1 .. old + new /\ j \in old + 1 .. old + new
      <4>1. i - old = j - old
        BY <1>2, <1>6, <2>3, <3>2, <3>4
      <4> QED
        BY <1>1, <3>4, <4>1
    <3> QED
      BY <1>1, <1>7, <2>3, <3>1, <3>2, <3>3, <3>4
  <2>4. ~Announced' /\ ~Sealed'
    <3>1. \A i \in DOMAIN FleetLink' : FleetLink'[i] # Control
      BY <1>8, <2>2
    <3> QED
      BY <1>0, <1>4, <3>1 DEF Announced, Sealed, Control, Message
  <2> QED
    BY <1>0, <1>4, <2>1, <2>2, <2>3, <2>4 DEF StageInv, Order, Control, Message
<1>10. SentIsHeard => SentIsHeard'
  <2> SUFFICES ASSUME SentIsHeard, rec = "recording", NEW r \in Robots,
                      NEW n \in 1 .. orderHeader'[r]
               PROVE  Heard(r, n)' \/ OnTheFleetLink(r, n)'
    BY <1>0 DEF SentIsHeard
  <2>0. orderHeader[r] \in Nat /\ (r \in Ready => batches[r] = orderHeader[r] + 1)
    BY <1>3 DEF StageInv, WireInvariant, TypeOK
  <2>1. CASE n \in 1 .. orderHeader[r]
    <3>1. Heard(r, n) \/ OnTheFleetLink(r, n)
      BY <1>0, <2>1 DEF SentIsHeard
    <3>2. Heard(r, n) => Heard(r, n)'
      BY <1>0 DEF Heard, Order, Message
    <3>3. \A i \in DOMAIN FleetLink : i \in DOMAIN FleetLink' /\ FleetLink'[i] = FleetLink[i]
      BY <1>1
    <3>4. OnTheFleetLink(r, n) => OnTheFleetLink(r, n)'
      BY <3>3 DEF OnTheFleetLink, Order, Message
    <3> QED
      BY <3>1, <3>2, <3>4
  <2>2. CASE r \in Ready /\ n = batches[r]
    <3>1. PICK k \in 1 .. new : file[k] = r
      BY <1>2, <2>2
    <3>2. /\ old + k \in old + 1 .. old + new /\ old + k \in DOMAIN FleetLink'
          /\ (old + k) - old = k
      BY <1>1
    <3>3. FleetLink'[old + k] = Order(r, n, n)
      BY <1>6, <2>2, <3>1, <3>2
    <3> QED
      BY <3>2, <3>3 DEF OnTheFleetLink, Order, Message
  <2>3. n \in 1 .. orderHeader[r] \/ (r \in Ready /\ n = batches[r])
    BY <1>3, <2>0
  <2> QED
    BY <2>1, <2>2, <2>3
<1>11. CarriedIsHeard => CarriedIsHeard'
  <2>1. \A r \in Robots : batch'[r] \in {"carried", "returned"} => batch'[r] = batch[r]
    BY <1>3
  <2> QED
    BY <1>0, <2>1 DEF CarriedIsHeard, Heard, Order, Message
<1>12. \A c \in Connections : \A i \in DOMAIN link'[c] :
           link'[c][i].topic = "state" => \E k \in DOMAIN link[c] : link'[c][i] = link[c][k]
  <2> SUFFICES ASSUME NEW c \in Connections, NEW i \in DOMAIN link'[c],
                      link'[c][i].topic = "state"
               PROVE  c # <<Fleet, 1>>
    BY <1>1
  <2>1. ASSUME c = <<Fleet, 1>> PROVE FALSE
    <3>1. i \in DOMAIN FleetLink' /\ FleetLink'[i].topic = "state"
      BY <2>1 DEF FleetLink
    <3>2. \E r, b : FleetLink'[i] = Order(r, b, b)
      BY <1>1, <1>5, <1>6, <1>7, <3>1
    <3> QED
      BY <3>1, <3>2 DEF Order, Message
  <2> QED
    BY <2>1
<1>13. HeardInv'
  <2>1. ~Sealed'
    BY <1>0, <1>4 DEF Sealed
  <2>2. SealedIsHeard'
    BY <2>1 DEF SealedIsHeard
  <2>3. UNCHANGED <<job, captured>> /\ rec' = rec
    BY <1>0
  <2> QED
    BY <1>10, <1>11, <1>12, <2>2, <2>3, NamedFrame, ReferencesFrame DEF HeardInv
<1> QED
  BY <1>9, <1>13

-----------------------------------------------------------------------------
(* Telemetry and the completion *)

LEMMA PublishTelemetryKeepsRecord ==
    ASSUME WireInvariant, StageInv, HeardInv, PublishTelemetry
    PROVE  StageInv' /\ HeardInv'
<1>0. /\ job \in Jobs /\ Fleet \notin Robots /\ <<Fleet, 1>> \in Connections
      /\ link \in [Connections -> Seq(Messages)]
  BY Numbers, ConnectionShape DEF WireInvariant, TypeOK
<1>1. /\ UNCHANGED <<job, batch, batches, accepted, orderHeader, rec, captured>>
      /\ pc = "telemetry" /\ pc' = "check" /\ Robots' = Robots
  BY Sets DEF PublishTelemetry, simVars, recVars
<1>2. link' = [c \in Connections |->
                 IF ClientOf(c) \in Reporting /\ c = Conn(ClientOf(c))
                 THEN link[c] \o Pose(ClientOf(c)) ELSE link[c]]
  BY DEF PublishTelemetry
<1>3. FleetLink' = FleetLink
  <2>1. ClientOf(<<Fleet, 1>>) \notin Reporting
    BY <1>0 DEF ClientOf, Reporting
  <2> QED
    BY <1>0, <1>2, <2>1 DEF FleetLink
<1>4. /\ (Announced' <=> Announced) /\ (Sealed' <=> Sealed) /\ ~Sealed /\ ~Announced
      /\ pc' \notin Closing
  BY <1>1, <1>3 DEF Announced, Sealed, Control, Message, StageInv, Closing
<1>5. StageInv'
  BY <1>1, <1>3, <1>4 DEF StageInv, Order, Control, Message
(* A state names the order the simulation has. *)
<1>6. ASSUME NEW c \in Connections, NEW i \in DOMAIN link'[c], link'[c][i].topic = "state"
      PROVE  \/ \E k \in DOMAIN link[c] : link'[c][i] = link[c][k]
             \/ \E r \in Robots : \E h, e : link'[c][i] = State(r, h, e, accepted[r])
  <2>1. CASE link'[c] = link[c]
    BY <1>6, <2>1
  <2>2. CASE ClientOf(c) \in Reporting /\ link'[c] = link[c] \o Pose(ClientOf(c))
    <3> PICK r \in Robots : r = ClientOf(c)
      BY <2>2 DEF Reporting
    <3> PICK viz : viz = Visualization(r, vizHeader[r] + 1, SessionOfRobot(r), stateHeader[r])
      OBVIOUS
    <3> PICK state : state = State(r, stateHeader[r] + 1, SessionOfRobot(r), accepted[r])
      OBVIOUS
    <3>1. viz \in Messages /\ state \in Messages
      <4>1. /\ SessionOfRobot(r) \in {1, 2} /\ vizHeader[r] + 1 \in Nat
            /\ stateHeader[r] \in Nat /\ stateHeader[r] + 1 \in Nat
        BY DEF SessionOfRobot, WireInvariant, TypeOK
      <4>2. accepted[r] \in 0 .. job.batches /\ job.batches \in Nat
        BY Numbers DEF WireInvariant, TypeOK
      <4>3. accepted[r] \in Nat
        BY <4>2
      <4> QED
        BY <4>1, <4>3, MessageTypes
    <3>2. Pose(r) = <<viz>> \o (IF StateIsDue THEN <<state>> ELSE << >>)
      BY DEF Pose
    <3>3. /\ Pose(r) \in Seq(Messages)
          /\ \A k \in DOMAIN Pose(r) : Pose(r)[k] = viz \/ Pose(r)[k] = state
      BY <3>1, <3>2
    <3>4. \A s, t \in Seq(Messages) : \A k \in DOMAIN (s \o t) :
              \/ k \in DOMAIN s /\ (s \o t)[k] = s[k]
              \/ \E j \in DOMAIN t : (s \o t)[k] = t[j]
      BY Joined
    <3>5. \/ i \in DOMAIN link[c] /\ link'[c][i] = link[c][i]
          \/ \E j \in DOMAIN Pose(r) : link'[c][i] = Pose(r)[j]
      BY <1>0, <2>2, <3>3, <3>4
    <3>6. viz.topic # "state"
      BY DEF Visualization, Message
    <3> QED
      BY <1>6, <3>3, <3>5, <3>6
  <2> QED
    BY <1>2, <2>1, <2>2
<1>7. NamedIsHeard /\ CarriedIsHeard => NamedIsHeard'
  <2> SUFFICES ASSUME NamedIsHeard, CarriedIsHeard, rec = "recording",
                      NEW c \in Connections, NEW i \in DOMAIN link'[c],
                      link'[c][i].topic = "state", link'[c][i].ref # 0
               PROVE  Heard(link'[c][i].robot, link'[c][i].ref)
    BY <1>1, Sets DEF NamedIsHeard, Heard, Order, Message
  <2>1. \A r, h, e, n : State(r, h, e, n).robot = r /\ State(r, h, e, n).ref = n
    BY DEF State, Message
  <2>2. CASE \E k \in DOMAIN link[c] : link'[c][i] = link[c][k]
    BY <2>2 DEF NamedIsHeard
  <2>3. CASE \E r \in Robots : \E h, e : link'[c][i] = State(r, h, e, accepted[r])
    BY <2>1, <2>3 DEF CarriedIsHeard
  <2> QED
    BY <1>6, <2>2, <2>3
<1>8. HeardInv'
  <2>1. OrdersKept
    BY <1>3 DEF OrdersKept
  <2>2. UNCHANGED <<job, batch, batches, accepted, orderHeader, captured>>
        /\ (Sealed' => Sealed) /\ rec' = rec /\ pc # "failed"
    BY <1>1, <1>4
  <2> QED
    BY <1>7, <2>1, <2>2, SentFrame, SealedFrame, CarriedFrame, ReferencesFrame DEF HeardInv
<1> QED
  BY <1>5, <1>8

LEMMA FinishKeepsRecord ==
    ASSUME WireInvariant, StageInv, HeardInv, Finish
    PROVE  StageInv' /\ HeardInv'
<1>0. /\ job \in Jobs /\ <<Fleet, 1>> \in Connections
      /\ link \in [Connections -> Seq(Messages)]
      /\ FleetLink \in Seq(Messages) /\ Len(FleetLink) \in Nat
      /\ DOMAIN FleetLink = 1 .. Len(FleetLink)
  BY ConnectionShape, LinkShape DEF WireInvariant, TypeOK, FleetLink
<1>1. /\ UNCHANGED <<job, batch, batches, accepted, orderHeader, rec, captured>>
      /\ pc = "check" /\ pc' = "shutdown" /\ Robots' = Robots
      /\ \A r \in Robots : batch[r] \notin {"pending", "published", "carried"}
  BY Sets DEF Finish, MayFinish, simVars, headerVars, recVars
<1>2. /\ FleetLink' = Append(FleetLink, Control)
      /\ \A c \in Connections : c # <<Fleet, 1>> => link'[c] = link[c]
  BY <1>0 DEF Finish, Announce, FleetLink
<1> PICK n : n = Len(FleetLink) + 1
  OBVIOUS
<1>3. /\ n \in Nat /\ DOMAIN FleetLink' = 1 .. n /\ FleetLink'[n] = Control
      /\ \A i \in 1 .. n : i = n \/ (i \in DOMAIN FleetLink /\ FleetLink'[i] = FleetLink[i])
      /\ \A i \in DOMAIN FleetLink : i \in 1 .. n
  <2>1. /\ Append(FleetLink, Control) \in Seq(Messages)
        /\ Len(Append(FleetLink, Control)) = n
        /\ \A i \in 1 .. Len(FleetLink) : Append(FleetLink, Control)[i] = FleetLink[i]
        /\ Append(FleetLink, Control)[n] = Control
    BY <1>0, ControlType, AppendProperties
  <2>2. DOMAIN Append(FleetLink, Control) = 1 .. n
    BY <2>1, LenProperties
  <2> QED
    BY <1>0, <1>2, <2>1, <2>2
<1>4. Control.topic = "control" /\ pc' \in Closing /\ Control' = Control
  BY <1>1 DEF Control, Message, Closing
<1>5. StageInv'
  <2>1. \A i \in DOMAIN FleetLink' :
            \/ FleetLink'[i] = Control
            \/ \E r \in Robots : /\ FleetLink'[i] = Order(r, batches[r], batches[r])
                                 /\ batch[r] = "published"
    BY <1>3 DEF StageInv
  <2>2. \A i, j \in DOMAIN FleetLink' :
            /\ FleetLink'[i].topic = "order" /\ FleetLink'[j].topic = "order"
            /\ FleetLink'[i].robot = FleetLink'[j].robot
            => i = j
    BY <1>3, <1>4 DEF StageInv
  <2> QED
    BY <1>1, <1>4, <2>1, <2>2 DEF StageInv, Order, Message
<1>6. HeardInv'
  <2>1. OrdersKept
    BY <1>3 DEF OrdersKept
  <2>2. UNCHANGED <<job, batch, batches, accepted, orderHeader, captured>>
        /\ (Sealed' => Sealed) /\ rec' = rec /\ pc # "failed"
    BY <1>1 DEF Sealed
  <2>3. \A c \in Connections : \A i \in DOMAIN link'[c] :
            link'[c][i].topic = "state" => \E k \in DOMAIN link[c] : link'[c][i] = link[c][k]
    <3> SUFFICES ASSUME NEW c \in Connections, NEW i \in DOMAIN link'[c],
                        link'[c][i].topic = "state"
                 PROVE  \E k \in DOMAIN link[c] : link'[c][i] = link[c][k]
      OBVIOUS
    <3>1. CASE c # <<Fleet, 1>>
      BY <1>2, <3>1
    <3>2. CASE c = <<Fleet, 1>>
      <4>1. i \in DOMAIN FleetLink' /\ FleetLink'[i].topic = "state"
        BY <3>2 DEF FleetLink
      <4>2. i \in DOMAIN FleetLink /\ FleetLink'[i] = FleetLink[i]
        BY <1>3, <1>4, <4>1
      <4> QED
        BY <3>2, <4>2 DEF FleetLink
    <3> QED
      BY <3>1, <3>2
  <2> QED
    BY <2>1, <2>2, <2>3, SentFrame, SealedFrame, CarriedFrame, NamedFrame, ReferencesFrame
    DEF HeardInv
<1> QED
  BY <1>5, <1>6

-----------------------------------------------------------------------------
(* The broker hands a message on *)

LEMMA RouteDetail ==
    ASSUME TypeOK, NEW c \in Connections, Route(c)
    PROVE  LET m == link[c][1]
           IN  /\ rec' = "sealed" =>
                      rec \in {"sealed", "recording"} /\ captured' = captured
                      /\ (rec = "recording" => m = Control)
               /\ \/ batch' = batch
                  \/ m.topic = "order" /\ batch' = [batch EXCEPT ![m.robot] = "carried"]
               /\ job.faults = 0 /\ rec' = "recording" => captured' = Append(captured, m)
<1> DEFINE m == link[c][1]
<1>0. /\ Head(link[c]) = m
      /\ rec \in {"recording", "sealed", "overflow", "failed"}
      /\ job.faults = 0 => ~MayFault
  <2>1. Head(link[c]) = m
    BY RouteShape
  <2>2. job.faults \in Nat
    BY Numbers DEF TypeOK
  <2> HIDE DEF m
  <2> QED
    BY <2>1, <2>2 DEF TypeOK, MayFault
<1> HIDE DEF m
<1>1. PICK missed \in MayMiss(m) :
          /\ IF rec = "recording" /\ missed # "recorder" THEN Record(m) ELSE UNCHANGED recVars
          /\ batch' = IF m.topic = "order" /\ missed # "robot" /\ client[m.robot] = "up"
                      THEN [batch EXCEPT ![m.robot] = "carried"] ELSE batch
  BY <1>0 DEF Route, Deliver
<1>2. job.faults = 0 => missed = "nobody"
  BY <1>0, <1>1 DEF MayMiss
<1>3. \/ batch' = batch
      \/ m.topic = "order" /\ batch' = [batch EXCEPT ![m.robot] = "carried"]
  BY <1>1
<1>4. CASE rec = "recording" /\ missed # "recorder"
  <2>1. \/ rec' = "overflow" /\ captured' = captured
        \/ rec' = "sealed" /\ captured' = captured /\ m = Control
        \/ rec' = rec /\ captured' = Append(captured, m)
    BY <1>1, <1>4 DEF Record
  <2> QED
    BY <1>3, <1>4, <2>1 DEF m
<1>5. CASE ~(rec = "recording" /\ missed # "recorder")
  <2>1. rec' = rec /\ captured' = captured
    BY <1>1, <1>5 DEF recVars
  <2>2. job.faults = 0 => rec # "recording"
    BY <1>2, <1>5
  <2>3. rec' = "sealed" => rec = "sealed"
    BY <2>1
  <2> QED
    BY <1>3, <2>1, <2>2, <2>3 DEF m
<1> QED
  BY <1>4, <1>5

LEMMA RouteKeepsStages ==
    ASSUME WireInvariant, StageInv, NEW c \in Connections, Route(c)
    PROVE  StageInv' /\ (Sealed' => Sealed \/ (c = <<Fleet, 1>> /\ link[c][1] = Control))
<1> PICK m : m = link[c][1]
  OBVIOUS
<1>0. /\ job \in Jobs /\ Fleet \notin Robots /\ <<Fleet, 1>> \in Connections
      /\ c[1] \in Robots \cup {Fleet} /\ (c[1] = Fleet => c = <<Fleet, 1>>)
      /\ batch \in [Robots -> BatchStages] /\ TypeOK
  BY Numbers, ConnectionShape DEF WireInvariant, TypeOK
<1>1. /\ DOMAIN link[c] = 1 .. Len(link[c]) /\ Len(link[c]) \in Nat \ {0}
      /\ 1 \in DOMAIN link[c]
      /\ \A d \in Connections \ {c} : link'[d] = link[d]
      /\ DOMAIN link'[c] = 1 .. Len(link[c]) - 1
      /\ \A i \in 1 .. Len(link[c]) - 1 : link'[c][i] = link[c][i + 1]
  BY <1>0, RouteShape
<1>2. UNCHANGED <<job, batches, accepted, orderHeader, pc>> /\ Robots' = Robots
  <2>1. UNCHANGED <<job, simVars, pc, client, lastTick, faultVars, headerVars>>
    BY <1>0, RouteShape
  <2> QED
    BY <2>1, Sets DEF simVars, headerVars
<1>3. /\ rec' = "sealed" => rec = "sealed" \/ m = Control
      /\ \/ batch' = batch
         \/ m.topic = "order" /\ batch' = [batch EXCEPT ![m.robot] = "carried"]
  BY <1>0, RouteDetail
<1>4. FromConnection(c, m)
  BY <1>1 DEF WireInvariant, WireInv, LinkInv
<1>5. CASE c # <<Fleet, 1>>
  <2>1. m.topic # "order" /\ m # Control
    BY <1>0, <1>4, <1>5 DEF FromConnection
  <2>2. batch' = batch /\ (Sealed' => Sealed)
    BY <1>3, <2>1 DEF Sealed
  <2>3. FleetLink' = FleetLink
    BY <1>0, <1>1, <1>5 DEF FleetLink
  <2>4. Announced' <=> Announced
    BY <2>3 DEF Announced, Control, Message
  <2> QED
    BY <1>2, <2>2, <2>3, <2>4 DEF StageInv, Order, Control, Message
<1>6. CASE c = <<Fleet, 1>>
  <2> PICK n : n = Len(link[c])
    OBVIOUS
  <2>1. /\ n \in Nat \ {0} /\ DOMAIN FleetLink = 1 .. n /\ 1 \in DOMAIN FleetLink
        /\ FleetLink[1] = m /\ DOMAIN FleetLink' = 1 .. n - 1
        /\ \A i \in 1 .. n - 1 : /\ i + 1 \in DOMAIN FleetLink /\ i + 1 # 1
                                 /\ FleetLink'[i] = FleetLink[i + 1]
    BY <1>1, <1>6 DEF FleetLink
  <2>2. Control.topic = "control" /\ Control' = Control
    BY DEF Control, Message
  <2>3. \/ batch' = batch
        \/ \E r \in Robots : /\ m.topic = "order" /\ m.robot = r /\ batch[r] = "published"
                             /\ batch' = [batch EXCEPT ![r] = "carried"]
    <3> SUFFICES ASSUME batch' # batch
                 PROVE  \E r \in Robots :
                            /\ m.topic = "order" /\ m.robot = r /\ batch[r] = "published"
                            /\ batch' = [batch EXCEPT ![r] = "carried"]
      OBVIOUS
    <3>1. m.topic = "order" /\ batch' = [batch EXCEPT ![m.robot] = "carried"] /\ m # Control
      BY <1>3, <2>2
    <3>2. PICK r \in Robots : m = Order(r, batches[r], batches[r]) /\ batch[r] = "published"
      BY <2>1, <3>1 DEF StageInv
    <3>3. m.robot = r
      BY <3>2 DEF Order, Message
    <3> QED
      BY <3>1, <3>2, <3>3
  <2>4. \A r \in Robots :
            /\ batch'[r] \in {"queued", "pending"} <=> batch[r] \in {"queued", "pending"}
            /\ \/ batch'[r] = batch[r]
               \/ m.topic = "order" /\ m.robot = r /\ batch[r] = "published"
    BY <1>0, <2>3
  <2>5. \A r \in Robots :
            batches[r] = orderHeader[r] + (IF batch'[r] \in {"queued", "pending"} THEN 1 ELSE 0)
    BY <2>4 DEF StageInv
  <2>6. ASSUME NEW i \in 1 .. n - 1
        PROVE  \/ FleetLink'[i] = Control
               \/ \E r \in Robots : /\ FleetLink'[i] = Order(r, batches[r], batches[r])
                                    /\ batch'[r] = "published"
    <3>1. CASE FleetLink[i + 1] = Control
      BY <2>1, <3>1
    <3>2. CASE FleetLink[i + 1] # Control
      <4>1. PICK r \in Robots : /\ FleetLink[i + 1] = Order(r, batches[r], batches[r])
                                /\ batch[r] = "published"
        BY <2>1, <3>2 DEF StageInv
      <4>2. FleetLink[i + 1].topic = "order" /\ FleetLink[i + 1].robot = r
        BY <4>1 DEF Order, Message
      <4>3. ~(m.topic = "order" /\ m.robot = r)
        BY <2>1, <4>2 DEF StageInv
      <4> QED
        BY <2>1, <2>4, <4>1, <4>3
    <3> QED
      BY <3>1, <3>2
  <2>7. ASSUME NEW i \in 1 .. n - 1, NEW j \in 1 .. n - 1,
               FleetLink'[i].topic = "order", FleetLink'[j].topic = "order",
               FleetLink'[i].robot = FleetLink'[j].robot
        PROVE  i = j
    <3>1. /\ i + 1 \in DOMAIN FleetLink /\ FleetLink'[i] = FleetLink[i + 1]
          /\ j + 1 \in DOMAIN FleetLink /\ FleetLink'[j] = FleetLink[j + 1]
      BY <2>1
    <3>2. /\ FleetLink[i + 1].topic = "order" /\ FleetLink[j + 1].topic = "order"
          /\ FleetLink[i + 1].robot = FleetLink[j + 1].robot
      BY <2>7, <3>1
    <3>3. i + 1 = j + 1
      BY <3>1, <3>2 DEF StageInv
    <3> QED
      BY <3>3
  <2>8. /\ Sealed' => Sealed \/ m = Control
        /\ m = Control => Announced
        /\ Announced' => Announced
    BY <1>3, <2>1, <2>2 DEF Sealed, Announced
  <2>9. pc \in Closing =>
            \A r \in Robots : batch'[r] \notin {"pending", "published", "carried"}
    BY <2>4 DEF StageInv
  <2>10. Sealed' \/ Announced' => pc \in Closing
    BY <2>8 DEF StageInv
  <2> QED
    BY <1>2, <1>6, <2>1, <2>2, <2>5, <2>6, <2>7, <2>8, <2>9, <2>10 DEF StageInv, Order, Message
<1> QED
  BY <1>5, <1>6

LEMMA RouteKeepsHeard ==
    ASSUME WireInvariant, StageInv, HeardInv, NEW c \in Connections, Route(c)
    PROVE  HeardInv'
<1> PICK m : m = link[c][1]
  OBVIOUS
<1> PICK n : n = Len(captured)
  OBVIOUS
<1>0. /\ job \in Jobs /\ TypeOK /\ <<Fleet, 1>> \in Connections
  BY ConnectionShape DEF WireInvariant, TypeOK
<1>1. /\ DOMAIN link[c] = 1 .. Len(link[c]) /\ Len(link[c]) \in Nat \ {0}
      /\ 1 \in DOMAIN link[c] /\ m \in Messages
      /\ \A d \in Connections \ {c} : link'[d] = link[d]
      /\ DOMAIN link'[c] = 1 .. Len(link[c]) - 1
      /\ \A i \in 1 .. Len(link[c]) - 1 : link'[c][i] = link[c][i + 1]
  BY <1>0, RouteShape
<1>2. UNCHANGED <<job, batches, accepted, orderHeader, pc>> /\ Robots' = Robots
      /\ Connections' = Connections
  <2>1. UNCHANGED <<job, simVars, pc, client, lastTick, faultVars, headerVars>>
    BY <1>0, RouteShape
  <2> QED
    BY <2>1, Sets DEF simVars, headerVars
<1>3. /\ rec' = "recording" => rec = "recording"
      /\ captured' = captured \/ (captured' = Append(captured, m) /\ rec = "recording")
  BY <1>0, RouteOutcome
<1>4. /\ \/ batch' = batch
         \/ m.topic = "order" /\ batch' = [batch EXCEPT ![m.robot] = "carried"]
      /\ job.faults = 0 /\ rec' = "recording" => captured' = Append(captured, m)
  BY <1>0, RouteDetail
<1>5. /\ n \in Nat /\ DOMAIN captured = 1 .. n
      /\ DOMAIN Append(captured, m) = 1 .. n + 1
      /\ \A i \in 1 .. n : Append(captured, m)[i] = captured[i]
      /\ Append(captured, m)[n + 1] = m
  BY <1>0, <1>1, Grown
<1>6. \A i \in DOMAIN captured : i \in DOMAIN captured' /\ captured'[i] = captured[i]
  BY <1>3, <1>5
<1>7. \A r, b : Heard(r, b) => Heard(r, b)'
  BY <1>6 DEF Heard, Order, Message
<1>8. captured' = Append(captured, m) => n + 1 \in DOMAIN captured' /\ captured'[n + 1] = m
  BY <1>5
<1> SUFFICES ASSUME job.faults = 0
             PROVE  (SentIsHeard /\ SealedIsHeard /\ CarriedIsHeard /\ NamedIsHeard
                     /\ OrderReferences)'
  BY <1>2 DEF HeardInv
<1>9. SentIsHeard /\ SealedIsHeard /\ CarriedIsHeard /\ NamedIsHeard /\ OrderReferences
  BY DEF HeardInv
<1>10. SentIsHeard'
  <2> SUFFICES ASSUME rec' = "recording", pc # "failed", NEW r \in Robots,
                      NEW b \in 1 .. orderHeader[r]
               PROVE  Heard(r, b)' \/ OnTheFleetLink(r, b)'
    BY <1>2 DEF SentIsHeard
  <2>1. Heard(r, b) \/ OnTheFleetLink(r, b)
    BY <1>3, <1>9 DEF SentIsHeard
  <2>2. ASSUME NEW i \in DOMAIN FleetLink, FleetLink[i] = Order(r, b, b)
        PROVE  Heard(r, b)' \/ OnTheFleetLink(r, b)'
    <3>1. CASE c # <<Fleet, 1>>
      <4>1. FleetLink' = FleetLink
        BY <1>0, <1>1, <3>1 DEF FleetLink
      <4> QED
        BY <2>2, <4>1 DEF OnTheFleetLink, Order, Message
    <3>2. CASE c = <<Fleet, 1>> /\ i = 1
      <4>1. m = Order(r, b, b)
        BY <2>2, <3>2 DEF FleetLink
      <4> QED
        BY <1>4, <1>8, <4>1 DEF Heard, Order, Message
    <3>3. CASE c = <<Fleet, 1>> /\ i # 1
      <4>1. i - 1 \in 1 .. Len(link[c]) - 1 /\ (i - 1) + 1 = i
        BY <1>1, <3>3 DEF FleetLink
      <4>2. i - 1 \in DOMAIN FleetLink' /\ FleetLink'[i - 1] = Order(r, b, b)
        BY <1>1, <2>2, <3>3, <4>1 DEF FleetLink
      <4> QED
        BY <4>2 DEF OnTheFleetLink, Order, Message
    <3> QED
      BY <3>1, <3>2, <3>3
  <2> QED
    BY <1>7, <2>1, <2>2 DEF OnTheFleetLink
<1>11. SealedIsHeard'
  <2> SUFFICES ASSUME Sealed', NEW r \in Robots, NEW b \in 1 .. orderHeader[r]
               PROVE  Heard(r, b)'
    BY <1>2 DEF SealedIsHeard
  <2>1. CASE Sealed
    BY <1>7, <1>9, <2>1 DEF SealedIsHeard
  <2>2. CASE ~Sealed
    <3>1. c = <<Fleet, 1>> /\ m = Control
      BY <2>2, RouteKeepsStages
    <3>2. Announced
      BY <1>1, <3>1 DEF Announced, FleetLink
    <3>3. /\ pc \in Closing /\ pc # "failed"
          /\ \A q \in Robots : batch[q] # "published"
      BY <3>2 DEF StageInv, Closing
    <3>4. ~OnTheFleetLink(r, b)
      <4>1. Order(r, b, b) # Control
        BY DEF Order, Control, Message
      <4> QED
        BY <3>3, <4>1 DEF OnTheFleetLink, StageInv
    <3>5. rec = "recording"
      BY <1>0, <2>2, RouteDetail DEF Sealed
    <3> QED
      BY <1>7, <1>9, <3>3, <3>4, <3>5 DEF SentIsHeard
  <2> QED
    BY <2>1, <2>2
(* Heard at last, with the order's number as it is now. *)
<1> DEFINE HeardNow(r, b) == \E j \in DOMAIN captured' : captured'[j] = Order(r, b, b)
<1>now. \A r, b : Heard(r, b) => HeardNow(r, b)
  BY <1>6 DEF Heard
<1>12. CarriedIsHeard'
  <2> SUFFICES ASSUME rec' = "recording", NEW r \in Robots
               PROVE  /\ batch'[r] \in {"carried", "returned"} => HeardNow(r, batches[r])
                      /\ accepted[r] # 0 => HeardNow(r, accepted[r])
    BY <1>2 DEF CarriedIsHeard, Heard, Order, Message
  <2>1. accepted[r] # 0 => HeardNow(r, accepted[r])
    BY <1>3, <1>now, <1>9 DEF CarriedIsHeard
  <2>2. CASE batch'[r] = batch[r]
    BY <1>3, <1>now, <1>9, <2>1, <2>2 DEF CarriedIsHeard
  <2>3. CASE batch'[r] # batch[r]
    <3>1. m.topic = "order" /\ m.robot = r
      BY <1>0, <1>4, <2>3 DEF TypeOK
    <3>2. m # Control
      BY <3>1 DEF Control, Message
    <3>3. c = <<Fleet, 1>>
      BY <1>0, <1>1, <3>1, ConnectionShape DEF WireInvariant, WireInv, LinkInv, FromConnection
    <3>4. PICK q \in Robots : m = Order(q, batches[q], batches[q])
      BY <1>1, <3>2, <3>3 DEF StageInv, FleetLink
    <3>5. q = r
      BY <3>1, <3>4 DEF Order, Message
    <3>6. HeardNow(r, batches[r])
      <4>1. m = Order(r, batches[r], batches[r])
        BY <3>4, <3>5
      <4> QED
        BY <1>4, <1>8, <4>1
    <3> QED
      BY <2>1, <3>6
  <2> QED
    BY <2>2, <2>3
<1>13. NamedIsHeard'
  <2> SUFFICES ASSUME rec' = "recording", NEW d \in Connections, NEW i \in DOMAIN link'[d],
                      link'[d][i].topic = "state", link'[d][i].ref # 0
               PROVE  HeardNow(link'[d][i].robot, link'[d][i].ref)
    BY <1>2 DEF NamedIsHeard, Heard, Order, Message
  <2>1. PICK k \in DOMAIN link[d] : link'[d][i] = link[d][k]
    <3>1. CASE d # c
      BY <1>1, <3>1
    <3>2. CASE d = c
      <4>1. i \in 1 .. Len(link[c]) - 1 /\ i + 1 \in DOMAIN link[c]
        BY <1>1, <3>2
      <4> QED
        BY <1>1, <3>2, <4>1
    <3> QED
      BY <3>1, <3>2
  <2>2. Heard(link[d][k].robot, link[d][k].ref)
    BY <1>3, <1>9, <2>1 DEF NamedIsHeard
  <2> QED
    BY <1>now, <2>1, <2>2
<1>14. OrderReferences'
  <2> SUFFICES ASSUME NEW i \in DOMAIN captured', captured'[i].topic = "state",
                      captured'[i].ref # 0
               PROVE  \E j \in 1 .. i - 1 :
                          captured'[j] = Order(captured'[i].robot, captured'[i].ref,
                                               captured'[i].ref)
    BY DEF OrderReferences, Order, Message
  <2>1. CASE i \in DOMAIN captured
    <3>1. PICK j \in 1 .. i - 1 :
              captured[j] = Order(captured[i].robot, captured[i].ref, captured[i].ref)
      BY <1>6, <1>9, <2>1 DEF OrderReferences
    <3>2. j \in DOMAIN captured
      BY <1>5, <2>1
    <3> QED
      BY <1>6, <2>1, <3>1, <3>2
  <2>2. CASE i \notin DOMAIN captured
    <3>1. captured' = Append(captured, m) /\ rec = "recording"
      BY <1>3, <2>2
    <3>2. i = n + 1 /\ captured'[i] = m
      BY <1>5, <2>2, <3>1
    <3>3. Heard(m.robot, m.ref)
      BY <1>1, <1>9, <3>1, <3>2 DEF NamedIsHeard
    <3>4. PICK j \in DOMAIN captured : captured[j] = Order(m.robot, m.ref, m.ref)
      BY <3>3 DEF Heard
    <3>5. j \in 1 .. i - 1 /\ captured'[j] = captured[j]
      BY <1>5, <1>6, <3>2
    <3> QED
      BY <3>2, <3>4, <3>5
  <2> QED
    BY <2>1, <2>2
<1> QED
  BY <1>10, <1>11, <1>12, <1>13, <1>14

-----------------------------------------------------------------------------
(* Every step, and the theorems *)

LEMMA InitRecord == Init => StageInv /\ HeardInv
<1> SUFFICES ASSUME Init PROVE StageInv /\ HeardInv
  OBVIOUS
<1>0. job \in Jobs /\ <<Fleet, 1>> \in Connections
  BY ConnectionShape DEF Init
<1>1. /\ FleetLink = << >> /\ pc = "receive" /\ rec = "recording" /\ captured = << >>
      /\ \A r \in Robots : batch[r] = "none" /\ batches[r] = 0 /\ orderHeader[r] = 0
                           /\ accepted[r] = 0
  BY <1>0 DEF Init, FleetLink
<1>2. \A c \in Connections : \A i \in DOMAIN link[c] : link[c][i].topic = "connection"
  <2> SUFFICES ASSUME NEW c \in Connections
               PROVE  \A i \in DOMAIN link[c] : link[c][i].topic = "connection"
    OBVIOUS
  <2>1. link[c] = << >> \/ link[c] = <<Connection(c[1], 1, "ONLINE", 1)>>
    BY DEF Init
  <2>2. Connection(c[1], 1, "ONLINE", 1).topic = "connection"
    BY DEF Connection, Message
  <2> QED
    BY <2>1, <2>2
<1>3. StageInv
  BY <1>1 DEF StageInv, Announced, Sealed, Closing
<1>4. SentIsHeard /\ SealedIsHeard /\ CarriedIsHeard /\ OrderReferences
  BY <1>1 DEF SentIsHeard, SealedIsHeard, CarriedIsHeard, OrderReferences, Sealed
<1>5. NamedIsHeard
  BY <1>2 DEF NamedIsHeard
<1> QED
  BY <1>3, <1>4, <1>5 DEF HeardInv

LEMMA NextRecord ==
    WireInvariant /\ StageInv /\ HeardInv /\ [Next]_vars => StageInv' /\ HeardInv'
<1> SUFFICES ASSUME WireInvariant, StageInv, HeardInv, [Next]_vars
             PROVE  StageInv' /\ HeardInv'
  OBVIOUS
<1>1. CASE \/ WriteComplete \/ NoFaultWork \/ NextIteration \/ BridgeFails
           \/ RecorderFails \/ InjectFault \/ Reconnect \/ Terminated \/ UNCHANGED vars
  BY <1>1, QuietSteps, QuietStages, QuietHeard DEF Terminated
<1>2. CASE \E x \in Robots \cup {Fleet} : ConnectionLost(x) \/ Exit(x)
  BY <1>2, QuietSteps, QuietStages, QuietHeard
<1>3. CASE (\E r \in Robots : ShutdownRobot(r)) \/ ShutdownFleet
  <2>1. \E x \in Robots \cup {Fleet} : Shutdown(x) /\ pc = "shutdown" /\ pc' \in Closing
    BY <1>3 DEF ShutdownRobot, ShutdownFleet, Closing
  <2> QED
    BY <2>1, QuietSteps, QuietStages, QuietHeard
<1>4. CASE Simulate \/ ReceiveDeliveries
  BY <1>4, SimulateKeepsRecord, ReceiveKeepsRecord
<1>5. CASE PublishOrders \/ PublishTelemetry \/ Finish
  BY <1>5, PublishOrdersKeepsRecord, PublishTelemetryKeepsRecord, FinishKeepsRecord
<1>6. CASE Broker
  BY <1>6, RouteKeepsStages, RouteKeepsHeard DEF Broker
<1> QED
  BY <1>1, <1>2, <1>3, <1>4, <1>5, <1>6 DEF Next, Simulation, Bridge, Faults

(* The invariant of the batches on their way and of what was heard of them.     *)
THEOREM RecordHolds == Spec => []RecordInvariant
<1>1. Init => RecordInvariant
  BY InitInvariant, InitRecord DEF RecordInvariant
<1>2. RecordInvariant /\ [Next]_vars => RecordInvariant'
  BY NextInvariant, NextRecord DEF RecordInvariant
<1> QED
  BY <1>1, <1>2, PTL DEF Spec

(* When the recorder stops at the fleet's completion, while messages of the     *)
(* robots' clients may still be on their way (lsmart-recorder.rs 84-88), every  *)
(* order is in the capture and came back to its robot, for any number of robots *)
(* and whatever the pauses and the deadlines do, unless a connection or a       *)
(* message is lost.                                                            *)
THEOREM OrdersSealed == Spec => []OrdersAreSealed
<1>1. RecordInvariant => OrdersAreSealed
  <2> SUFFICES ASSUME RecordInvariant, Sealed, job.faults = 0, NEW r \in Robots
               PROVE  /\ batch[r] \notin {"published", "carried"}
                      /\ \A n \in 1 .. orderHeader[r] : Heard(r, n)
    BY DEF OrdersAreSealed, Heard
  <2>1. batch[r] \notin {"published", "carried"}
    BY DEF RecordInvariant, StageInv
  <2>2. \A n \in 1 .. orderHeader[r] : Heard(r, n)
    BY DEF RecordInvariant, HeardInv, SealedIsHeard
  <2> QED
    BY <2>1, <2>2
<1> QED
  BY <1>1, RecordHolds, PTL

-----------------------------------------------------------------------------
(* References *)

(* For the states a visualization refers to the invariant below holds as long  *)
(* as nothing is lost and the pauses suffice.                                 *)

IsStateOf(m, r, h) == m.topic = "state" /\ m.robot = r /\ m.header = h

StateHeard(r, h) == \E j \in DOMAIN captured : IsStateOf(captured[j], r, h)

StateOnLink(r, h) == \E k \in DOMAIN link[Conn(r)] : IsStateOf(link[Conn(r)][k], r, h)

Refers(m) == m.topic = "visualization" /\ m.ref # 0

(* The last state of a robot is captured or waits on the link of its present   *)
(* session; one that a visualization refers to is captured or waits before it. *)
StatesAreKept ==
    rec = "recording" =>
        \A r \in Robots : stateHeader[r] # 0 =>
            StateHeard(r, stateHeader[r]) \/ StateOnLink(r, stateHeader[r])

StateWaitsBefore(c, i) ==
    \E k \in 1 .. i - 1 : IsStateOf(link[c][k], link[c][i].robot, link[c][i].ref)

StatesComeFirst ==
    rec = "recording" =>
        \A c \in Connections : \A i \in DOMAIN link[c] :
            Refers(link[c][i]) =>
                StateHeard(link[c][i].robot, link[c][i].ref) \/ StateWaitsBefore(c, i)

StateReferences ==
    \A i \in DOMAIN captured :
        Refers(captured[i]) =>
            \E j \in 1 .. i - 1 : IsStateOf(captured[j], captured[i].robot, captured[i].ref)

NothingBroke == pc # "failed" /\ \A x \in Robots \cup {Fleet} : client[x] # "dead"

PoseInv == Calm => NothingBroke /\ StatesAreKept /\ StatesComeFirst /\ StateReferences

PoseInvariant == RecordInvariant /\ PoseInv

-----------------------------------------------------------------------------
(* Steps that only add to the links *)

(* The sequence both is s and then what t has. *)
Extends(both, s, t) ==
    /\ \A i \in DOMAIN s : i \in DOMAIN both /\ both[i] = s[i]
    /\ \A i \in DOMAIN both : i \notin DOMAIN s => \E j \in DOMAIN t : both[i] = t[j]
    /\ \A j \in DOMAIN t : \E i \in DOMAIN both : both[i] = t[j]

LEMMA Extended ==
    ASSUME NEW S, NEW s \in Seq(S), NEW t \in Seq(S)
    PROVE  Extends(s \o t, s, t)
<1>1. /\ s \o t \in Seq(S) /\ Len(s \o t) = Len(s) + Len(t)
      /\ \A i \in 1 .. Len(s) + Len(t) :
             (s \o t)[i] = IF i <= Len(s) THEN s[i] ELSE t[i - Len(s)]
  BY ConcatProperties
<1>2. /\ DOMAIN (s \o t) = 1 .. Len(s) + Len(t)
      /\ DOMAIN s = 1 .. Len(s) /\ DOMAIN t = 1 .. Len(t)
      /\ Len(s) \in Nat /\ Len(t) \in Nat
  BY <1>1, LenProperties
<1>3. \A i \in 1 .. Len(s) : i \in 1 .. Len(s) + Len(t) /\ (s \o t)[i] = s[i]
  BY <1>1, <1>2
<1>4. \A i \in 1 .. Len(s) + Len(t) : i \notin 1 .. Len(s) =>
          i - Len(s) \in 1 .. Len(t) /\ (s \o t)[i] = t[i - Len(s)]
  BY <1>1, <1>2
<1>5. \A j \in 1 .. Len(t) : /\ Len(s) + j \in 1 .. Len(s) + Len(t)
                             /\ (s \o t)[Len(s) + j] = t[j]
  <2> TAKE j \in 1 .. Len(t)
  <2>1. /\ Len(s) + j \in 1 .. Len(s) + Len(t) /\ ~(Len(s) + j <= Len(s))
        /\ (Len(s) + j) - Len(s) = j
    BY <1>2
  <2> QED
    BY <1>1, <2>1
<1> QED
  BY <1>2, <1>3, <1>4, <1>5 DEF Extends

LinksGrow ==
    \A c \in Connections : \A i \in DOMAIN link[c] :
        i \in DOMAIN link'[c] /\ link'[c][i] = link[c][i]

NoNewReferences ==
    \A c \in Connections : \A i \in DOMAIN link'[c] : i \notin DOMAIN link[c] =>
        ~Refers(link'[c][i])

(* A new visualization refers to the last state before this step. *)
NewReferences ==
    \A c \in Connections : \A i \in DOMAIN link'[c] :
        i \notin DOMAIN link[c] /\ Refers(link'[c][i]) =>
            \E r \in Robots : /\ c = Conn(r) /\ link'[c][i].robot = r
                              /\ link'[c][i].ref = stateHeader[r]

LEMMA GrowthKeepsPoses ==
    ASSUME WireInvariant, WireInvariant', PoseInv,
           UNCHANGED <<job, session, captured>>,
           rec' = "recording" => rec = "recording",
           Calm => NothingBroke', LinksGrow, NewReferences,
           \A r \in Robots : \/ stateHeader'[r] = stateHeader[r]
                             \/ \E k \in DOMAIN link'[Conn(r)] :
                                    IsStateOf(link'[Conn(r)][k], r, stateHeader'[r])
    PROVE  PoseInv'
<1>0. /\ Robots' = Robots /\ Connections' = Connections
      /\ \A r : Conn(r)' = Conn(r)
      /\ \A r \in Robots : Conn(r) \in Connections
      /\ \A r, h : StateHeard(r, h)' <=> StateHeard(r, h)
      /\ Calm' <=> Calm
  <2>1. \A r \in Robots : Conn(r) \in Connections
    <3>1. job \in Jobs /\ session \in {1, 2} /\ Fleet \notin Robots
      BY Numbers DEF WireInvariant, TypeOK
    <3> QED
      BY <3>1, PresentConnection DEF ConnectionOf
  <2> QED
    BY <2>1, Sets DEF Conn, SessionOfRobot, StateHeard, IsStateOf, Calm
<1>1. \A c \in Connections : /\ DOMAIN link[c] = 1 .. Len(link[c]) /\ Len(link[c]) \in Nat
                             /\ DOMAIN link'[c] = 1 .. Len(link'[c]) /\ Len(link'[c]) \in Nat
  <2>1. \A s \in Seq(Messages) : DOMAIN s = 1 .. Len(s) /\ Len(s) \in Nat
    BY LenProperties
  <2>2. link \in [Connections -> Seq(Messages)] /\ link' \in [Connections -> Seq(Messages)]
    BY Sets DEF WireInvariant, TypeOK
  <2> QED
    BY <2>1, <2>2
<1> SUFFICES ASSUME Calm PROVE (NothingBroke /\ StatesAreKept /\ StatesComeFirst /\ StateReferences)'
  BY <1>0 DEF PoseInv
<1>2. StatesAreKept /\ StatesComeFirst /\ StateReferences
  BY DEF PoseInv
<1>3. StateReferences'
  BY <1>2 DEF StateReferences, Refers, IsStateOf
<1>4. \A r \in Robots : \A h : StateOnLink(r, h) => StateOnLink(r, h)'
  BY <1>0 DEF StateOnLink, LinksGrow, IsStateOf
<1>5. StatesAreKept'
  <2> SUFFICES ASSUME rec = "recording", NEW r \in Robots, stateHeader'[r] # 0
               PROVE  \/ StateHeard(r, stateHeader'[r])
                      \/ \E k \in DOMAIN link'[Conn(r)] :
                             IsStateOf(link'[Conn(r)][k], r, stateHeader'[r])
    BY <1>0 DEF StatesAreKept, StateOnLink, StateHeard, IsStateOf
  <2>1. CASE stateHeader'[r] = stateHeader[r]
    <3>1. StateHeard(r, stateHeader[r]) \/ StateOnLink(r, stateHeader[r])
      BY <1>2, <2>1 DEF StatesAreKept
    <3>2. StateOnLink(r, stateHeader[r]) =>
              \E k \in DOMAIN link'[Conn(r)] :
                  IsStateOf(link'[Conn(r)][k], r, stateHeader[r])
      BY <1>0 DEF StateOnLink, LinksGrow
    <3> QED
      BY <2>1, <3>1, <3>2
  <2> QED
    BY <2>1
<1>6. StatesComeFirst'
  <2> SUFFICES ASSUME rec = "recording", NEW c \in Connections, NEW i \in DOMAIN link'[c],
                      Refers(link'[c][i])
               PROVE  \/ StateHeard(link'[c][i].robot, link'[c][i].ref)
                      \/ \E k \in 1 .. i - 1 :
                             IsStateOf(link'[c][k], link'[c][i].robot, link'[c][i].ref)
    BY <1>0 DEF StatesComeFirst, StateWaitsBefore, StateHeard, IsStateOf, Refers
  <2>1. CASE i \in DOMAIN link[c]
    <3>1. link'[c][i] = link[c][i]
      BY <2>1 DEF LinksGrow
    <3>2. StateHeard(link[c][i].robot, link[c][i].ref) \/ StateWaitsBefore(c, i)
      BY <1>2, <2>1, <3>1 DEF StatesComeFirst
    <3>3. \A k \in 1 .. i - 1 : k \in DOMAIN link[c]
      BY <1>1, <2>1
    <3>4. \A k \in 1 .. i - 1 : link'[c][k] = link[c][k]
      BY <3>3 DEF LinksGrow
    <3> QED
      BY <3>1, <3>2, <3>4 DEF StateWaitsBefore
  <2>2. CASE i \notin DOMAIN link[c]
    <3>1. PICK r \in Robots : c = Conn(r) /\ link'[c][i].robot = r
                              /\ link'[c][i].ref = stateHeader[r]
      BY <2>2 DEF NewReferences
    <3>2. stateHeader[r] # 0
      BY <3>1 DEF Refers
    <3>3. StateHeard(r, stateHeader[r]) \/ StateOnLink(r, stateHeader[r])
      BY <1>2, <3>2 DEF StatesAreKept
    <3>4. \A k \in DOMAIN link[c] : k \in 1 .. i - 1 /\ link'[c][k] = link[c][k]
      <4>1. \A k \in DOMAIN link[c] : k \in 1 .. i - 1
        BY <1>1, <2>2
      <4> QED
        BY <4>1 DEF LinksGrow
    <3>5. StateOnLink(r, stateHeader[r]) =>
              \E k \in 1 .. i - 1 : IsStateOf(link'[c][k], r, stateHeader[r])
      BY <3>1, <3>4 DEF StateOnLink
    <3> QED
      BY <3>1, <3>3, <3>5
  <2> QED
    BY <2>1, <2>2
<1> QED
  BY <1>3, <1>5, <1>6

LEMMA QuietPoses ==
    ASSUME WireInvariant, WireInvariant', PoseInv,
           \/ Simulate \/ WriteComplete \/ ReceiveDeliveries \/ NoFaultWork \/ NextIteration
           \/ BridgeFails \/ RecorderFails \/ UNCHANGED vars
           \/ \E x \in Robots \cup {Fleet} :
                  \/ ConnectionLost(x) \/ Exit(x)
                  \/ Shutdown(x) /\ pc = "shutdown" /\ pc' \in Closing
    PROVE  PoseInv'
<1>0. /\ job \in Jobs /\ job.faults \in Nat /\ faults \in 0 .. job.faults
      /\ client \in [Robots \cup {Fleet} -> {"up", "dead", "none"}]
  BY Numbers DEF WireInvariant, TypeOK
<1>1. Calm => ~MayFault /\ NothingBroke
  BY <1>0 DEF MayFault, Calm, PoseInv
<1>2. ASSUME Calm
      PROVE  \/ /\ client' = client /\ link' = link /\ rec' = rec
                /\ pc' = pc \/ pc' \in {"receive", "publish", "faults"}
             \/ /\ \E x \in Robots \cup {Fleet} : client' = [client EXCEPT ![x] = "none"]
                /\ link' = link /\ rec' = rec /\ pc' \in Closing
  <2>1. CASE \/ Simulate \/ WriteComplete \/ ReceiveDeliveries \/ NoFaultWork
             \/ NextIteration \/ UNCHANGED vars
    <3>1. client' = client /\ link' = link
      BY <2>1 DEF Simulate, WriteComplete, ReceiveDeliveries, NoFaultWork, NextIteration, vars
    <3>2. rec' = rec
      BY <2>1 DEF Simulate, WriteComplete, ReceiveDeliveries, NoFaultWork, NextIteration, vars,
                  recVars
    <3>3. pc' = pc \/ pc' \in {"receive", "publish", "faults"}
      BY <2>1 DEF Simulate, WriteComplete, ReceiveDeliveries, NoFaultWork, NextIteration, vars
    <3> QED
      BY <3>1, <3>2, <3>3
  <2>2. CASE BridgeFails
    <3>1. ~Broken
      BY <1>1, <1>2 DEF Broken, NothingBroke, Reporting
    <3> QED
      BY <1>1, <1>2, <2>2, <3>1 DEF BridgeFails, Calm
  <2>3. CASE RecorderFails
    BY <1>1, <1>2, <2>3 DEF RecorderFails, Calm
  <2>4. ASSUME NEW x \in Robots \cup {Fleet}, ConnectionLost(x) \/ Exit(x) PROVE FALSE
    BY <1>1, <1>2, <2>4 DEF ConnectionLost, Exit, NothingBroke
  <2>5. ASSUME NEW x \in Robots \cup {Fleet}, Shutdown(x), pc' \in Closing
        PROVE  client' = [client EXCEPT ![x] = "none"] /\ link' = link /\ rec' = rec
    BY <1>2, <2>5 DEF Shutdown, Calm, recVars
  <2> QED
    BY <2>1, <2>2, <2>3, <2>4, <2>5
<1>3. UNCHANGED <<job, session, captured, stateHeader>>
  BY DEF Simulate, WriteComplete, ReceiveDeliveries, NoFaultWork, NextIteration, BridgeFails,
         RecorderFails, ConnectionLost, Exit, Shutdown, vars, faultVars, headerVars, recVars
<1>4. CASE ~Calm
  BY <1>3, <1>4 DEF PoseInv, Calm
<1>5. CASE Calm
  <2>1. link' = link /\ rec' = rec
    BY <1>2, <1>5
  <2>2. NothingBroke'
    <3>1. \A x \in Robots \cup {Fleet} : client'[x] # "dead"
      BY <1>0, <1>1, <1>2, <1>5 DEF NothingBroke
    <3>2. pc' # "failed"
      BY <1>1, <1>2, <1>5 DEF NothingBroke, Closing
    <3> QED
      BY <1>3, <3>1, <3>2, Sets DEF NothingBroke
  <2>3. LinksGrow /\ NewReferences
    BY <2>1 DEF LinksGrow, NewReferences
  <2> QED
    BY <1>3, <2>1, <2>2, <2>3, GrowthKeepsPoses
<1> QED
  BY <1>4, <1>5

(* The socket is closed when all that was published has left. *)
(* A worker that keeps up has sent all it was given when it is stopped. *)
LEMMA CleanCut ==
    ASSUME WireInvariant, InjectFault, Calm, client[FaultTarget] = "up"
    PROVE  LET c == Conn(FaultTarget)
           IN  /\ c \in Connections /\ c[1] = FaultTarget /\ Will(c) \in Messages
               /\ link' = [link EXCEPT ![c] = @ \o <<Will(c)>>]
<1>0. /\ job \in Jobs /\ session \in {1, 2} /\ FaultTarget \in Robots /\ TypeOK
      /\ link \in [Connections -> Seq(Messages)] /\ Fleet \notin Robots
  BY Numbers DEF WireInvariant, TypeOK
<1> PICK c \in Connections : c = Conn(FaultTarget) /\ c = ConnectionOf(FaultTarget)
                             /\ c[1] = FaultTarget
  BY <1>0, PresentConnection DEF ConnectionOf
<1>1. link' = [link EXCEPT ![c] = Cut(c, Len(link[c]))]
  BY DEF InjectFault, Sever, Flushed, Calm
<1>2. link[c] \in Seq(Messages) /\ SubSeq(link[c], 1, Len(link[c])) = link[c]
  <2>1. \A t \in Seq(Messages) : SubSeq(t, 1, Len(t)) = t
    BY SubSeqFull
  <2> QED
    BY <1>0, <2>1
<1>3. Cut(c, Len(link[c])) = link[c] \o <<Will(c)>>
  BY <1>0, <1>2 DEF Cut, ClientOf
<1>4. Will(c) \in Messages
  <2>1. c[1] \in Robots /\ c[2] \in {1, 2}
    BY <1>0, ConnectionShape
  <2>2. 2 * c[2] \in Nat
    BY <2>1
  <2> QED
    BY <2>1, <2>2, MessageTypes DEF Will
<1> QED
  BY <1>1, <1>3, <1>4

LEMMA InjectFaultKeepsPoses ==
    ASSUME WireInvariant, WireInvariant', PoseInv, InjectFault
    PROVE  PoseInv'
<1>0. /\ job \in Jobs /\ session \in {1, 2} /\ FaultTarget \in Robots /\ TypeOK
      /\ client \in [Robots \cup {Fleet} -> {"up", "dead", "none"}]
      /\ link \in [Connections -> Seq(Messages)] /\ Fleet \notin Robots
  BY Numbers DEF WireInvariant, TypeOK
<1>1. UNCHANGED <<job, captured, rec, stateHeader>> /\ session' = session /\ pc' = "publish"
  BY DEF InjectFault, simVars, headerVars, recVars
<1>2. client' = [client EXCEPT ![FaultTarget] = "none"]
  BY DEF InjectFault, Sever
<1>3. Calm => NothingBroke'
  <2>1. Calm => NothingBroke
    BY DEF PoseInv
  <2> QED
    BY <1>0, <1>1, <1>2, <2>1, Sets DEF NothingBroke
<1>4. CASE ~Calm
  BY <1>1, <1>4 DEF PoseInv, Calm
<1>5. CASE Calm
  <2>1. LinksGrow /\ NewReferences
    <3>1. CASE client[FaultTarget] # "up"
      <4>1. link' = link
        BY <3>1 DEF InjectFault
      <4> QED
        BY <4>1 DEF LinksGrow, NewReferences
    <3>2. CASE client[FaultTarget] = "up"
      <4> PICK c : c = Conn(FaultTarget)
        OBVIOUS
      <4> PICK will : will = Will(c)
        OBVIOUS
      <4>1. /\ c \in Connections /\ will \in Messages
            /\ link' = [link EXCEPT ![c] = @ \o <<will>>]
        BY <1>5, <3>2, CleanCut
      <4>2. link[c] \in Seq(Messages)
        BY <1>0, <4>1
      <4>4. will \in Messages /\ ~Refers(will)
        BY <4>1 DEF Will, Connection, Message, Refers
      <4>5. <<will>> \in Seq(Messages) /\ \A j \in DOMAIN <<will>> : <<will>>[j] = will
        BY <4>4
      <4>7. /\ link'[c] = link[c] \o <<will>>
            /\ \A d \in Connections \ {c} : link'[d] = link[d]
        BY <1>0, <4>1
      <4>8. Extends(link'[c], link[c], <<will>>)
        BY <4>2, <4>5, <4>7, Extended
      <4>9. LinksGrow
        BY <4>1, <4>7, <4>8 DEF Extends, LinksGrow
      <4>10. \A i \in DOMAIN link'[c] : i \notin DOMAIN link[c] => ~Refers(link'[c][i])
        BY <4>4, <4>5, <4>8 DEF Extends
      <4> QED
        BY <4>7, <4>9, <4>10 DEF NewReferences
    <3> QED
      BY <3>1, <3>2
  <2> QED
    BY <1>1, <1>3, <2>1, GrowthKeepsPoses
<1> QED
  BY <1>4, <1>5

LEMMA FleetKeepsPoses ==
    ASSUME WireInvariant, WireInvariant', StageInv, PoseInv, PublishOrders \/ Finish
    PROVE  PoseInv'
<1>0. /\ job \in Jobs /\ <<Fleet, 1>> \in Connections /\ Fleet \notin Robots
      /\ link \in [Connections -> Seq(Messages)] /\ TypeOK
  BY Numbers, ConnectionShape DEF WireInvariant, TypeOK
<1>1. UNCHANGED <<job, captured, rec, client, stateHeader>> /\ session' = session
      /\ pc' \in {"telemetry", "shutdown"}
  BY DEF PublishOrders, Finish, faultVars, headerVars, recVars
<1>2. \A c \in Connections : c # <<Fleet, 1>> => link'[c] = link[c]
  BY <1>0 DEF PublishOrders, Finish, Announce
<1>3. \A i \in DOMAIN FleetLink : i \in DOMAIN FleetLink' /\ FleetLink'[i] = FleetLink[i]
  <2>1. CASE PublishOrders
    <3> PICK old, new : old = Len(FleetLink) /\ new = Cardinality(Ready)
      OBVIOUS
    <3>1. /\ old \in Nat /\ new \in Nat /\ DOMAIN FleetLink = 1 .. old
          /\ DOMAIN FleetLink' = 1 .. old + new
          /\ \A i \in 1 .. old : FleetLink'[i] = FleetLink[i]
      BY <2>1, OrdersShape
    <3> QED
      BY <3>1
  <2>2. CASE Finish
    <3>1. FleetLink' = Append(FleetLink, Control) /\ FleetLink \in Seq(Messages)
      BY <1>0, <2>2 DEF Finish, Announce, FleetLink
    <3>2. /\ Append(FleetLink, Control) \in Seq(Messages)
          /\ Len(Append(FleetLink, Control)) = Len(FleetLink) + 1
          /\ \A i \in 1 .. Len(FleetLink) : Append(FleetLink, Control)[i] = FleetLink[i]
      BY <3>1, ControlType, AppendProperties
    <3>3. /\ DOMAIN FleetLink = 1 .. Len(FleetLink) /\ Len(FleetLink) \in Nat
          /\ DOMAIN Append(FleetLink, Control) = 1 .. Len(FleetLink) + 1
      BY <3>1, <3>2, LenProperties
    <3> QED
      BY <3>1, <3>2, <3>3
  <2> QED
    BY <2>1, <2>2
<1>4. LinksGrow
  BY <1>2, <1>3 DEF LinksGrow, FleetLink
<1>5. NewReferences
  <2>1. \A i \in DOMAIN link'[<<Fleet, 1>>] : ~Refers(link'[<<Fleet, 1>>][i])
    <3> SUFFICES ASSUME NEW i \in DOMAIN link'[<<Fleet, 1>>]
                 PROVE  ~Refers(link'[<<Fleet, 1>>][i])
      OBVIOUS
    <3>1. /\ Robots' = Robots /\ Connections' = Connections
          /\ \A c, m : FromConnection(c, m)' <=> FromConnection(c, m)
      BY <1>1, Sets, SameSource
    <3>2. LinkInv'
      BY DEF WireInvariant, WireInv
    <3> PICK c : c = <<Fleet, 1>>
      OBVIOUS
    <3>3. c \in Connections' /\ c[1] = Fleet /\ i \in DOMAIN link'[c]
      BY <1>0, <3>1
    <3> PICK m : m = link'[c][i]
      OBVIOUS
    <3>4. m = Control \/ m.topic = "order"
      BY <1>0, <3>1, <3>2, <3>3 DEF LinkInv, FromConnection, Control, Message
    <3> QED
      BY <3>4 DEF Control, Message, Refers
  <2> QED
    BY <1>2, <2>1 DEF NewReferences
<1>6. Calm => NothingBroke'
  <2>1. Calm => NothingBroke
    BY DEF PoseInv
  <2> QED
    BY <1>1, <2>1, Sets DEF NothingBroke
<1> QED
  BY <1>1, <1>4, <1>5, <1>6, GrowthKeepsPoses

LEMMA PublishTelemetryKeepsPoses ==
    ASSUME WireInvariant, WireInvariant', PoseInv, PublishTelemetry
    PROVE  PoseInv'
<1>0. /\ job \in Jobs /\ session \in {1, 2} /\ Fleet \notin Robots
      /\ link \in [Connections -> Seq(Messages)]
      /\ Reporting \subseteq Robots
  BY Numbers DEF WireInvariant, TypeOK, Reporting
<1>1. UNCHANGED <<job, captured, rec, client>> /\ session' = session /\ pc' = "check"
      /\ stateHeader' = [r \in Robots |-> IF r \in Reporting /\ StateIsDue
                                          THEN stateHeader[r] + 1 ELSE stateHeader[r]]
      /\ link' = [c \in Connections |->
                    IF ClientOf(c) \in Reporting /\ c = Conn(ClientOf(c))
                    THEN link[c] \o Pose(ClientOf(c)) ELSE link[c]]
  BY DEF PublishTelemetry, faultVars, recVars
<1>2. \A r \in Robots : Conn(r) \in Connections /\ ClientOf(Conn(r)) = r
  <2>1. \A r \in Robots : Conn(r) \in Connections
    BY <1>0, PresentConnection DEF ConnectionOf
  <2> QED
    BY <2>1 DEF Conn, ClientOf
<1>3. ASSUME NEW r \in Robots
      PROVE  /\ Pose(r) \in Seq(Messages)
             /\ \A k \in DOMAIN Pose(r) :
                    Refers(Pose(r)[k]) => Pose(r)[k].robot = r /\ Pose(r)[k].ref = stateHeader[r]
             /\ StateIsDue => \E k \in DOMAIN Pose(r) :
                                  IsStateOf(Pose(r)[k], r, stateHeader[r] + 1)
  <2> PICK viz : viz = Visualization(r, vizHeader[r] + 1, SessionOfRobot(r), stateHeader[r])
    OBVIOUS
  <2> PICK state : state = State(r, stateHeader[r] + 1, SessionOfRobot(r), accepted[r])
    OBVIOUS
  <2>1. viz \in Messages /\ state \in Messages
    <3>1. /\ SessionOfRobot(r) \in {1, 2} /\ vizHeader[r] + 1 \in Nat
          /\ stateHeader[r] \in Nat /\ stateHeader[r] + 1 \in Nat
      <4>1. SessionOfRobot(r) \in {1, 2}
        BY <1>0 DEF SessionOfRobot
      <4>2. vizHeader[r] \in Nat /\ stateHeader[r] \in Nat
        BY DEF WireInvariant, TypeOK
      <4> QED
        BY <4>1, <4>2
    <3>2. accepted[r] \in 0 .. job.batches /\ job.batches \in Nat
      BY Numbers DEF WireInvariant, TypeOK
    <3>3. accepted[r] \in Nat
      BY <3>2
    <3> QED
      BY <3>1, <3>3, MessageTypes
  <2>2. Pose(r) = <<viz>> \o (IF StateIsDue THEN <<state>> ELSE << >>)
    BY DEF Pose
  <2>3. /\ Pose(r) \in Seq(Messages)
        /\ \A k \in DOMAIN Pose(r) : Pose(r)[k] = viz \/ Pose(r)[k] = state
        /\ StateIsDue => 2 \in DOMAIN Pose(r) /\ Pose(r)[2] = state
    BY <2>1, <2>2
  <2>4. /\ viz.robot = r /\ viz.ref = stateHeader[r]
        /\ ~Refers(state) /\ IsStateOf(state, r, stateHeader[r] + 1)
    BY DEF Visualization, State, Message, Refers, IsStateOf
  <2> QED
    BY <2>3, <2>4
<1>5. \A r \in Reporting : Extends(link'[Conn(r)], link[Conn(r)], Pose(r))
  <2> TAKE r \in Reporting
  <2>1. Conn(r) \in Connections /\ ClientOf(Conn(r)) = r
    BY <1>0, <1>2
  <2>2. link'[Conn(r)] = link[Conn(r)] \o Pose(r)
    BY <1>1, <2>1
  <2>3. link[Conn(r)] \in Seq(Messages) /\ Pose(r) \in Seq(Messages)
    BY <1>0, <1>3, <2>1
  <2> QED
    BY <2>2, <2>3, Extended
<1>6. \A c \in Connections :
          \/ link'[c] = link[c]
          \/ \E r \in Reporting : c = Conn(r)
  BY <1>1
<1>7. LinksGrow
  BY <1>5, <1>6 DEF LinksGrow, Extends
<1>8. NewReferences
  <2> SUFFICES ASSUME NEW c \in Connections, NEW i \in DOMAIN link'[c],
                      i \notin DOMAIN link[c], Refers(link'[c][i])
               PROVE  \E r \in Robots : /\ c = Conn(r) /\ link'[c][i].robot = r
                                        /\ link'[c][i].ref = stateHeader[r]
    BY DEF NewReferences
  <2>1. PICK r \in Reporting : c = Conn(r)
    BY <1>6
  <2>2. PICK j \in DOMAIN Pose(r) : link'[c][i] = Pose(r)[j]
    BY <1>5, <2>1 DEF Extends
  <2> QED
    BY <1>0, <1>3, <2>1, <2>2
<1>9. \A r \in Robots : \/ stateHeader'[r] = stateHeader[r]
                        \/ \E k \in DOMAIN link'[Conn(r)] :
                               IsStateOf(link'[Conn(r)][k], r, stateHeader'[r])
  <2> SUFFICES ASSUME NEW r \in Robots, stateHeader'[r] # stateHeader[r]
               PROVE  \E k \in DOMAIN link'[Conn(r)] :
                          IsStateOf(link'[Conn(r)][k], r, stateHeader'[r])
    OBVIOUS
  <2>1. r \in Reporting /\ StateIsDue /\ stateHeader'[r] = stateHeader[r] + 1
    BY <1>1
  <2>2. PICK j \in DOMAIN Pose(r) : IsStateOf(Pose(r)[j], r, stateHeader[r] + 1)
    BY <1>3, <2>1
  <2>3. PICK k \in DOMAIN link'[Conn(r)] : link'[Conn(r)][k] = Pose(r)[j]
    BY <1>5, <2>1 DEF Extends
  <2> QED
    BY <2>1, <2>2, <2>3
<1>10. Calm => NothingBroke'
  <2>1. Calm => NothingBroke
    BY DEF PoseInv
  <2> QED
    BY <1>1, <2>1, Sets DEF NothingBroke
<1> QED
  BY <1>1, <1>7, <1>8, <1>9, <1>10, GrowthKeepsPoses

-----------------------------------------------------------------------------
(* The second session, and the broker *)

(* By then all that the first session had to say was heard. *)
LEMMA ReconnectKeepsPoses ==
    ASSUME WireInvariant, PoseInv, Reconnect
    PROVE  PoseInv'
<1>0. /\ job \in Jobs /\ session \in {1, 2} /\ FaultTarget \in Robots
      /\ client \in [Robots \cup {Fleet} -> {"up", "dead", "none"}]
      /\ link \in [Connections -> Seq(Messages)]
      /\ First \in Connections /\ Second \in Connections
  BY Numbers, ConnectionShape DEF WireInvariant, TypeOK
<1>1. /\ UNCHANGED <<job, captured, rec, stateHeader>> /\ session' = 2 /\ pc' = "publish"
      /\ client' = [client EXCEPT ![FaultTarget] = "up"]
      /\ link' = [link EXCEPT ![Second] = Greeting]
      /\ link[First] = << >>
  BY DEF Reconnect, simVars, headerVars, recVars, FirstSessionEnded, First, Second
<1>2. Robots' = Robots /\ Connections' = Connections
  BY <1>1, Sets
<1>3. session = 1
  BY <1>0 DEF WireInvariant, WireInv, SessionInv, Reconnect, ShouldReconnect
<1>4. /\ Conn(FaultTarget) = First
      /\ \A r \in Robots \ {FaultTarget} : Conn(r) # Second /\ Conn(r)' = Conn(r)
                                           /\ Conn(r) \in Connections
  <2>1. \A r \in Robots : Conn(r) \in Connections
    BY <1>0, PresentConnection, Numbers DEF ConnectionOf
  <2> QED
    BY <1>3, <2>1 DEF Conn, SessionOfRobot, First, Second
<1>5. /\ link'[Second] = Greeting
      /\ \A c \in Connections \ {Second} : link'[c] = link[c]
  BY <1>0, <1>1
<1>6. \A i \in DOMAIN Greeting : ~Refers(Greeting[i])
  <2>1. ~Refers(Connection(FaultTarget, 4, "ONLINE", 2))
    BY DEF Connection, Message, Refers
  <2> QED
    BY <2>1 DEF Greeting
<1> SUFFICES ASSUME Calm PROVE (NothingBroke /\ StatesAreKept /\ StatesComeFirst /\ StateReferences)'
  BY <1>1 DEF PoseInv, Calm
<1>7. NothingBroke /\ StatesAreKept /\ StatesComeFirst /\ StateReferences
  BY DEF PoseInv
<1>8. NothingBroke'
  BY <1>0, <1>1, <1>2, <1>7 DEF NothingBroke
<1>9. StateReferences'
  BY <1>1, <1>7 DEF StateReferences, Refers, IsStateOf
<1>10. StatesAreKept'
  <2> SUFFICES ASSUME rec = "recording", NEW r \in Robots, stateHeader[r] # 0
               PROVE  StateHeard(r, stateHeader[r]) \/ StateOnLink(r, stateHeader[r])'
    BY <1>1, <1>2 DEF StatesAreKept, StateOnLink, StateHeard, IsStateOf
  <2>1. StateHeard(r, stateHeader[r]) \/ StateOnLink(r, stateHeader[r])
    BY <1>7 DEF StatesAreKept
  <2>2. CASE r = FaultTarget
    <3>1. ~StateOnLink(r, stateHeader[r])
      BY <1>1, <1>4, <2>2 DEF StateOnLink
    <3> QED
      BY <2>1, <3>1
  <2>3. CASE r # FaultTarget
    <3>1. link'[Conn(r)] = link[Conn(r)] /\ Conn(r)' = Conn(r)
      BY <1>4, <1>5, <2>3
    <3>2. StateOnLink(r, stateHeader[r]) => StateOnLink(r, stateHeader[r])'
      BY <1>1, <3>1 DEF StateOnLink, IsStateOf
    <3> QED
      BY <2>1, <3>2
  <2> QED
    BY <2>2, <2>3
<1>11. StatesComeFirst'
  <2> SUFFICES ASSUME rec = "recording", NEW c \in Connections, NEW i \in DOMAIN link'[c],
                      Refers(link'[c][i])
               PROVE  \/ StateHeard(link'[c][i].robot, link'[c][i].ref)
                      \/ \E k \in 1 .. i - 1 :
                             IsStateOf(link'[c][k], link'[c][i].robot, link'[c][i].ref)
    BY <1>1, <1>2 DEF StatesComeFirst, StateWaitsBefore, StateHeard, IsStateOf, Refers
  <2>1. c # Second
    BY <1>5, <1>6
  <2>2. link'[c] = link[c]
    BY <1>5, <2>1
  <2> QED
    BY <1>7, <2>2 DEF StatesComeFirst, StateWaitsBefore
<1> QED
  BY <1>8, <1>9, <1>10, <1>11

LEMMA RouteKeepsPoses ==
    ASSUME WireInvariant, PoseInv, NEW c \in Connections, Route(c)
    PROVE  PoseInv'
<1> PICK m : m = link[c][1]
  OBVIOUS
<1> PICK n : n = Len(captured)
  OBVIOUS
<1>0. /\ TypeOK /\ \A r \in Robots : Conn(r) \in Connections
  <2>1. job \in Jobs /\ session \in {1, 2} /\ Fleet \notin Robots
    BY Numbers DEF WireInvariant, TypeOK
  <2> QED
    BY <2>1, PresentConnection DEF ConnectionOf, WireInvariant
<1>1. /\ DOMAIN link[c] = 1 .. Len(link[c]) /\ Len(link[c]) \in Nat \ {0}
      /\ 1 \in DOMAIN link[c] /\ m \in Messages
      /\ \A d \in Connections \ {c} : link'[d] = link[d]
      /\ DOMAIN link'[c] = 1 .. Len(link[c]) - 1
      /\ \A i \in 1 .. Len(link[c]) - 1 : link'[c][i] = link[c][i + 1]
  BY <1>0, RouteShape
<1>2. /\ UNCHANGED <<job, stateHeader, pc, client>> /\ session' = session
      /\ Robots' = Robots /\ Connections' = Connections /\ \A r : Conn(r)' = Conn(r)
  <2>1. UNCHANGED <<job, simVars, pc, client, lastTick, faultVars, headerVars>>
    BY <1>0, RouteShape
  <2> QED
    BY <2>1, Sets DEF headerVars, faultVars, Conn, SessionOfRobot
<1>3. /\ rec' = "recording" => rec = "recording"
      /\ captured' = captured \/ (captured' = Append(captured, m) /\ rec = "recording")
      /\ job.faults = 0 /\ rec' = "recording" => captured' = Append(captured, m)
  BY <1>0, RouteOutcome, RouteDetail
<1>4. /\ n \in Nat /\ DOMAIN captured = 1 .. n
      /\ DOMAIN Append(captured, m) = 1 .. n + 1
      /\ \A i \in 1 .. n : Append(captured, m)[i] = captured[i]
      /\ Append(captured, m)[n + 1] = m
  BY <1>0, <1>1, Grown
<1>5. \A i \in DOMAIN captured : i \in DOMAIN captured' /\ captured'[i] = captured[i]
  BY <1>3, <1>4
<1>6. captured' = Append(captured, m) => n + 1 \in DOMAIN captured' /\ captured'[n + 1] = m
  BY <1>4
<1> DEFINE HeardNow(r, h) == \E j \in DOMAIN captured' : IsStateOf(captured'[j], r, h)
<1>7. /\ \A r, h : StateHeard(r, h) => HeardNow(r, h)
      /\ captured' = Append(captured, m) => \A r, h : IsStateOf(m, r, h) => HeardNow(r, h)
  BY <1>5, <1>6 DEF StateHeard
<1> SUFFICES ASSUME Calm PROVE (NothingBroke /\ StatesAreKept /\ StatesComeFirst /\ StateReferences)'
  BY <1>2 DEF PoseInv, Calm
<1>8. /\ NothingBroke /\ StatesAreKept /\ StatesComeFirst /\ StateReferences
      /\ rec' = "recording" => captured' = Append(captured, m)
  BY <1>3 DEF PoseInv, Calm
<1>9. NothingBroke'
  BY <1>2, <1>8 DEF NothingBroke
<1>10. StatesAreKept'
  <2> SUFFICES ASSUME rec' = "recording", NEW r \in Robots, NEW h, h = stateHeader[r], h # 0
               PROVE  HeardNow(r, h) \/ \E k \in DOMAIN link'[Conn(r)] :
                                            IsStateOf(link'[Conn(r)][k], r, h)
    BY <1>2 DEF StatesAreKept, StateOnLink, StateHeard, IsStateOf
  <2>1. StateHeard(r, h) \/ StateOnLink(r, h)
    BY <1>3, <1>8 DEF StatesAreKept
  <2>2. ASSUME NEW k \in DOMAIN link[Conn(r)], IsStateOf(link[Conn(r)][k], r, h)
        PROVE  HeardNow(r, h) \/ \E l \in DOMAIN link'[Conn(r)] :
                                     IsStateOf(link'[Conn(r)][l], r, h)
    <3>1. CASE Conn(r) # c
      BY <1>0, <1>1, <2>2, <3>1
    <3>2. CASE Conn(r) = c /\ k = 1
      BY <1>7, <1>8, <2>2, <3>2
    <3>3. CASE Conn(r) = c /\ k # 1
      <4>1. k - 1 \in DOMAIN link'[c] /\ link'[c][k - 1] = link[c][k]
        BY <1>1, <3>3
      <4> QED
        BY <2>2, <3>3, <4>1
    <3> QED
      BY <3>1, <3>2, <3>3
  <2> QED
    BY <1>7, <2>1, <2>2 DEF StateOnLink
<1>11. StatesComeFirst'
  <2> SUFFICES ASSUME rec' = "recording", NEW d \in Connections, NEW i \in DOMAIN link'[d],
                      NEW v, v = link'[d][i], Refers(v)
               PROVE  \/ HeardNow(v.robot, v.ref)
                      \/ \E k \in 1 .. i - 1 : IsStateOf(link'[d][k], v.robot, v.ref)
    BY <1>2 DEF StatesComeFirst, StateWaitsBefore, StateHeard, IsStateOf, Refers
  <2>1. CASE d # c
    <3>1. link'[d] = link[d]
      BY <1>1, <2>1
    <3>2. StateHeard(v.robot, v.ref) \/ StateWaitsBefore(d, i)
      BY <1>3, <1>8, <3>1 DEF StatesComeFirst
    <3> QED
      BY <1>7, <3>1, <3>2 DEF StateWaitsBefore
  <2>2. CASE d = c
    <3>1. /\ i \in 1 .. Len(link[c]) - 1 /\ i + 1 \in DOMAIN link[c] /\ v = link[c][i + 1]
          /\ (i + 1) - 1 = i
      BY <1>1, <2>2
    <3>2. StateHeard(v.robot, v.ref) \/ StateWaitsBefore(c, i + 1)
      BY <1>3, <1>8, <3>1 DEF StatesComeFirst
    <3>3. ASSUME NEW k \in 1 .. i, IsStateOf(link[c][k], v.robot, v.ref)
          PROVE  \/ HeardNow(v.robot, v.ref)
                 \/ \E l \in 1 .. i - 1 : IsStateOf(link'[c][l], v.robot, v.ref)
      <4>1. CASE k = 1
        BY <1>7, <1>8, <3>3, <4>1
      <4>2. CASE k # 1
        <5> PICK last \in Nat : last = Len(link[c])
          BY <1>1
        <5>0. i \in 1 .. last - 1
          BY <3>1
        <5>1. k - 1 \in 1 .. i - 1 /\ k - 1 \in 1 .. last - 1 /\ (k - 1) + 1 = k
          BY <4>2, <5>0
        <5>2. link'[c][k - 1] = link[c][k]
          BY <1>1, <5>1
        <5> QED
          BY <3>3, <5>1, <5>2
      <4> QED
        BY <4>1, <4>2
    <3> QED
      BY <1>7, <2>2, <3>1, <3>2, <3>3 DEF StateWaitsBefore
  <2> QED
    BY <2>1, <2>2
<1>12. StateReferences'
  <2> SUFFICES ASSUME NEW i \in DOMAIN captured', NEW v, v = captured'[i], Refers(v)
               PROVE  \E j \in 1 .. i - 1 : IsStateOf(captured'[j], v.robot, v.ref)
    BY DEF StateReferences, IsStateOf, Refers
  <2>1. CASE i \in DOMAIN captured
    <3>1. PICK j \in 1 .. i - 1 : IsStateOf(captured[j], v.robot, v.ref)
      BY <1>5, <1>8, <2>1 DEF StateReferences
    <3>2. j \in DOMAIN captured
      BY <1>4, <2>1
    <3> QED
      BY <1>5, <3>1, <3>2
  <2>2. CASE i \notin DOMAIN captured
    <3>1. captured' = Append(captured, m) /\ rec = "recording" /\ i = n + 1 /\ v = m
      BY <1>3, <1>4, <2>2
    <3>2. ~StateWaitsBefore(c, 1)
      BY DEF StateWaitsBefore
    <3>3. StateHeard(v.robot, v.ref)
      BY <1>1, <1>8, <3>1, <3>2 DEF StatesComeFirst
    <3>4. PICK j \in DOMAIN captured : IsStateOf(captured[j], v.robot, v.ref)
      BY <3>3 DEF StateHeard
    <3>5. j \in 1 .. i - 1 /\ captured'[j] = captured[j]
      BY <1>4, <1>5, <3>1
    <3> QED
      BY <3>4, <3>5
  <2> QED
    BY <2>1, <2>2
<1> QED
  BY <1>9, <1>10, <1>11, <1>12

-----------------------------------------------------------------------------
(* Every step, and the theorems *)

LEMMA InitPoses == Init => PoseInv
<1> SUFFICES ASSUME Init PROVE PoseInv
  OBVIOUS
<1>1. /\ pc = "receive" /\ captured = << >>
      /\ \A x \in Robots \cup {Fleet} : client[x] = "up"
      /\ \A r \in Robots : stateHeader[r] = 0
  BY DEF Init
<1>2. \A c \in Connections : \A i \in DOMAIN link[c] : ~Refers(link[c][i])
  <2> SUFFICES ASSUME NEW c \in Connections
               PROVE  \A i \in DOMAIN link[c] : ~Refers(link[c][i])
    OBVIOUS
  <2>1. link[c] = << >> \/ link[c] = <<Connection(c[1], 1, "ONLINE", 1)>>
    BY DEF Init
  <2>2. ~Refers(Connection(c[1], 1, "ONLINE", 1))
    BY DEF Connection, Message, Refers
  <2> QED
    BY <2>1, <2>2
<1> QED
  BY <1>1, <1>2 DEF PoseInv, NothingBroke, StatesAreKept, StatesComeFirst, StateReferences

LEMMA NextPoses == PoseInvariant /\ [Next]_vars => PoseInvariant'
<1> SUFFICES ASSUME PoseInvariant, [Next]_vars PROVE PoseInvariant'
  OBVIOUS
<1>0. WireInvariant /\ StageInv /\ HeardInv /\ PoseInv
  BY DEF PoseInvariant, RecordInvariant
<1>1. WireInvariant' /\ StageInv' /\ HeardInv'
  BY <1>0, NextInvariant, NextRecord
<1>2. PoseInv'
  <2>1. CASE \/ Simulate \/ WriteComplete \/ ReceiveDeliveries \/ NoFaultWork \/ NextIteration
             \/ BridgeFails \/ RecorderFails \/ Terminated \/ UNCHANGED vars
    BY <1>0, <1>1, <2>1, QuietPoses DEF Terminated
  <2>2. CASE \E x \in Robots \cup {Fleet} : ConnectionLost(x) \/ Exit(x)
    BY <1>0, <1>1, <2>2, QuietPoses
  <2>3. CASE (\E r \in Robots : ShutdownRobot(r)) \/ ShutdownFleet
    <3>1. \E x \in Robots \cup {Fleet} : Shutdown(x) /\ pc = "shutdown" /\ pc' \in Closing
      BY <2>3 DEF ShutdownRobot, ShutdownFleet, Closing
    <3> QED
      BY <1>0, <1>1, <3>1, QuietPoses
  <2>4. CASE InjectFault \/ Reconnect
    BY <1>0, <1>1, <2>4, InjectFaultKeepsPoses, ReconnectKeepsPoses
  <2>5. CASE PublishOrders \/ PublishTelemetry \/ Finish
    BY <1>0, <1>1, <2>5, FleetKeepsPoses, PublishTelemetryKeepsPoses
  <2>6. CASE Broker
    BY <1>0, <2>6, RouteKeepsPoses DEF Broker
  <2> QED
    BY <2>1, <2>2, <2>3, <2>4, <2>5, <2>6 DEF Next, Simulation, Bridge, Faults
<1> QED
  BY <1>1, <1>2 DEF PoseInvariant, RecordInvariant

(* What a message refers to is in the capture before it, over the outage and in *)
(* the new session too: a state's order, for the gate lets the controller have  *)
(* a batch only when its order went through the broker (LSMART_DEMO.md 52-55), *)
(* unless something is lost; a visualization's state (lsmart-bridge.rs          *)
(* 490-506) if the pauses suffice as well.                                      *)
THEOREM ReferencesHold == Spec => []ReferencesAreCaptured
<1>1. Init => PoseInvariant
  BY InitInvariant, InitRecord, InitPoses DEF PoseInvariant, RecordInvariant
<1>2. PoseInvariant /\ [Next]_vars => PoseInvariant'
  BY NextPoses
<1>3. PoseInvariant => ReferencesAreCaptured
  <2> SUFFICES ASSUME PoseInvariant, NEW i \in DOMAIN captured, captured[i].ref # 0
               PROVE  /\ captured[i].topic = "state" /\ job.faults = 0 =>
                          \E j \in 1 .. i - 1 :
                              /\ captured[j].topic = "order"
                              /\ captured[j].robot = captured[i].robot
                              /\ captured[j].ref = captured[i].ref
                      /\ captured[i].topic = "visualization" /\ Calm =>
                          \E j \in 1 .. i - 1 :
                              /\ captured[j].topic = "state"
                              /\ captured[j].robot = captured[i].robot
                              /\ captured[j].header = captured[i].ref
    BY DEF ReferencesAreCaptured, CapturedBefore
  <2>1. ASSUME captured[i].topic = "state", job.faults = 0
        PROVE  \E j \in 1 .. i - 1 :
                   /\ captured[j].topic = "order" /\ captured[j].robot = captured[i].robot
                   /\ captured[j].ref = captured[i].ref
    <3>1. PICK j \in 1 .. i - 1 :
              captured[j] = Order(captured[i].robot, captured[i].ref, captured[i].ref)
      BY <2>1 DEF PoseInvariant, RecordInvariant, HeardInv, OrderReferences
    <3> QED
      BY <3>1 DEF Order, Message
  <2>2. ASSUME captured[i].topic = "visualization", Calm
        PROVE  \E j \in 1 .. i - 1 :
                   IsStateOf(captured[j], captured[i].robot, captured[i].ref)
    BY <2>2 DEF PoseInvariant, PoseInv, StateReferences, Refers
  <2> QED
    BY <2>1, <2>2 DEF IsStateOf
<1> QED
  BY <1>1, <1>2, <1>3, PTL DEF Spec

-----------------------------------------------------------------------------
(* The headers of a calm run *)

(* Two messages of one topic and one robot. *)
SameStream(m, n) == m.topic = n.topic /\ m.robot = n.robot /\ m.topic # "control"

Rising(s) ==
    \A i, j \in DOMAIN s : i < j /\ SameStream(s[i], s[j]) => s[i].header < s[j].header

(* What was published until now: no header is ahead of its counter.            *)
Said ==
    {m \in Messages :
        \/ m = Control
        \/ /\ m.robot \in Robots /\ m.header # 0
           /\ \/ m.topic = "order" /\ m.header <= orderHeader[m.robot]
              \/ m.topic = "visualization" /\ m.header <= vizHeader[m.robot]
              \/ m.topic = "state" /\ m.header <= stateHeader[m.robot]
              \/ m.topic = "connection" /\ m.header = 1
              \/ /\ m.topic = "connection" /\ m.robot = FaultTarget
                 /\ (m.header = 2 /\ faultInjected) \/ (m.header = 4 /\ session = 2)}

WaitingInv ==
    \A c \in Connections : Rising(link[c]) /\ \A k \in DOMAIN link[c] : link[c][k] \in Said

CapturedInv ==
    Rising(captured) /\ \A i \in DOMAIN captured : captured[i] \in Said /\ captured[i] # Control

CapturedIsBehind ==
    \A i \in DOMAIN captured : \A c \in Connections : \A k \in DOMAIN link[c] :
        SameStream(captured[i], link[c][k]) => captured[i].header < link[c][k].header

(* A visualization at most per tick, a state per StatePeriod.                  *)
CountInv ==
    \A r \in Robots : /\ lastTick[r] <= tick /\ vizHeader[r] <= lastTick[r]
                      /\ stateHeader[r] <= lastTick[r] \div StatePeriod

(* The recorder goes on until it hears the completion. *)
AnswerInv ==
    /\ rec \in {"recording", "sealed"}
    /\ pc \in Closing /\ rec = "recording" => Announced

CalmInv == Calm => WaitingInv /\ CapturedInv /\ CapturedIsBehind /\ AnswerInv

AnswerInvariant == PoseInvariant /\ CountInv /\ CalmInv

LEMMA RisingJoined ==
    ASSUME NEW S, NEW s \in Seq(S), NEW t \in Seq(S), Rising(s), Rising(t),
           \A i \in DOMAIN s : \A j \in DOMAIN t :
               SameStream(s[i], t[j]) => s[i].header < t[j].header
    PROVE  Rising(s \o t)
<1>1. /\ s \o t \in Seq(S) /\ Len(s \o t) = Len(s) + Len(t)
      /\ \A i \in 1 .. Len(s) + Len(t) :
             (s \o t)[i] = IF i <= Len(s) THEN s[i] ELSE t[i - Len(s)]
  BY ConcatProperties
<1>2. /\ DOMAIN (s \o t) = 1 .. Len(s) + Len(t)
      /\ DOMAIN s = 1 .. Len(s) /\ DOMAIN t = 1 .. Len(t)
      /\ Len(s) \in Nat /\ Len(t) \in Nat
  BY <1>1, LenProperties
<1> SUFFICES ASSUME NEW i \in 1 .. Len(s) + Len(t), NEW j \in 1 .. Len(s) + Len(t), i < j,
                    SameStream((s \o t)[i], (s \o t)[j])
             PROVE  (s \o t)[i].header < (s \o t)[j].header
  BY <1>2 DEF Rising
<1> PICK m, n : m = (s \o t)[i] /\ n = (s \o t)[j]
  OBVIOUS
<1>3. CASE j <= Len(s)
  <2>1. i \in DOMAIN s /\ j \in DOMAIN s /\ m = s[i] /\ n = s[j]
    BY <1>1, <1>2, <1>3
  <2> QED
    BY <2>1 DEF Rising
<1>4. CASE i <= Len(s) /\ j > Len(s)
  <2>1. i \in DOMAIN s /\ j - Len(s) \in DOMAIN t /\ m = s[i] /\ n = t[j - Len(s)]
    BY <1>1, <1>2, <1>4
  <2> QED
    BY <2>1
<1>5. CASE i > Len(s)
  <2>1. /\ i - Len(s) \in DOMAIN t /\ j - Len(s) \in DOMAIN t
        /\ m = t[i - Len(s)] /\ n = t[j - Len(s)] /\ i - Len(s) < j - Len(s)
    BY <1>1, <1>2, <1>5
  <2> QED
    BY <2>1 DEF Rising
<1> QED
  BY <1>2, <1>3, <1>4, <1>5

LEMMA RisingSmall ==
    /\ Rising(<< >>)
    /\ \A m : Rising(<<m>>)
BY DEF Rising

(* Steps that capture nothing, and add to the links what is ahead of all that  *)
(* was said.                                                                  *)
LEMMA GrowthKeepsHeaders ==
    ASSUME TypeOK, WaitingInv, CapturedInv, CapturedIsBehind, NEW output,
           UNCHANGED <<job, captured>>,
           \A c \in Connections :
               output[c] \in Seq(Messages) /\ link'[c] = link[c] \o output[c] /\ Rising(output[c]),
           Said \subseteq Said',
           \A c \in Connections : \A k \in DOMAIN output[c] :
               /\ output[c][k] \in Said'
               /\ \A m \in Said : SameStream(m, output[c][k]) => m.header < output[c][k].header
    PROVE  WaitingInv' /\ CapturedInv' /\ CapturedIsBehind'
<1>1. Connections' = Connections
  BY Sets
<1>2. \A c \in Connections : link[c] \in Seq(Messages)
  BY LinkShape
<1>3. ASSUME NEW c \in Connections, NEW k \in DOMAIN link'[c]
      PROVE  \/ \E i \in DOMAIN link[c] : link'[c][k] = link[c][i]
             \/ \E i \in DOMAIN output[c] : link'[c][k] = output[c][i]
  <2>1. \A s, t \in Seq(Messages) : \A i \in DOMAIN (s \o t) :
            (i \in DOMAIN s /\ (s \o t)[i] = s[i]) \/ \E j \in DOMAIN t : (s \o t)[i] = t[j]
    BY Joined
  <2>2. \A i \in DOMAIN (link[c] \o output[c]) :
            \/ i \in DOMAIN link[c] /\ (link[c] \o output[c])[i] = link[c][i]
            \/ \E j \in DOMAIN output[c] : (link[c] \o output[c])[i] = output[c][j]
    BY <1>2, <2>1
  <2>3. link'[c] = link[c] \o output[c]
    OBVIOUS
  <2> QED
    BY <1>3, <2>2, <2>3
<1>4. WaitingInv'
  <2> SUFFICES ASSUME NEW c \in Connections
               PROVE  Rising(link'[c]) /\ \A k \in DOMAIN link'[c] : link'[c][k] \in Said'
    BY <1>1 DEF WaitingInv
  <2>1. Rising(link'[c])
    <3> PICK s, t \in Seq(Messages) : s = link[c] /\ t = output[c]
      BY <1>2
    <3>1. Rising(s) /\ Rising(t)
      BY DEF WaitingInv
    <3>2. \A i \in DOMAIN s : \A j \in DOMAIN t :
              SameStream(s[i], t[j]) => s[i].header < t[j].header
      BY DEF WaitingInv
    <3>3. link'[c] = s \o t
      OBVIOUS
    <3> QED
      BY <3>1, <3>2, <3>3, RisingJoined
  <2>2. ASSUME NEW k \in DOMAIN link'[c] PROVE link'[c][k] \in Said'
    <3> PICK m : m = link'[c][k]
      OBVIOUS
    <3>1. m \in Said'
      BY <1>3, <2>2 DEF WaitingInv
    <3> QED
      BY <3>1
  <2> QED
    BY <2>1, <2>2
<1>5. CapturedInv'
  <2>1. \A i \in DOMAIN captured : captured[i] \in Said'
    BY DEF CapturedInv
  <2> QED
    BY <2>1 DEF CapturedInv
<1>6. CapturedIsBehind'
  <2> SUFFICES ASSUME NEW i \in DOMAIN captured, NEW c \in Connections, NEW k \in DOMAIN link'[c],
                      SameStream(captured[i], link'[c][k])
               PROVE  captured[i].header < link'[c][k].header
    BY <1>1 DEF CapturedIsBehind
  <2>1. CASE \E j \in DOMAIN link[c] : link'[c][k] = link[c][j]
    BY <2>1 DEF CapturedIsBehind
  <2>2. CASE \E j \in DOMAIN output[c] : link'[c][k] = output[c][j]
    BY <2>2 DEF CapturedInv
  <2> QED
    BY <1>3, <2>1, <2>2
<1> QED
  BY <1>4, <1>5, <1>6

LEMMA HeaderFrame ==
    ASSUME UNCHANGED <<job, link, captured, headerVars, session, faultInjected>>,
           WaitingInv, CapturedInv, CapturedIsBehind
    PROVE  WaitingInv' /\ CapturedInv' /\ CapturedIsBehind'
<1>1. Connections' = Connections /\ Robots' = Robots /\ Messages' = Messages
  BY Sets
<1> QED
  BY <1>1 DEF WaitingInv, CapturedInv, CapturedIsBehind, Said, headerVars

LEMMA OneSpeakerKeepsHeaders ==
    ASSUME TypeOK, WaitingInv, CapturedInv, CapturedIsBehind,
           UNCHANGED <<job, captured>>,
           NEW c \in Connections, NEW said \in Seq(Messages), Rising(said),
           link' = [link EXCEPT ![c] = @ \o said],
           Said \subseteq Said',
           \A k \in DOMAIN said :
               /\ said[k] \in Said'
               /\ \A m \in Said : SameStream(m, said[k]) => m.header < said[k].header
    PROVE  WaitingInv' /\ CapturedInv' /\ CapturedIsBehind'
<1> PICK output : output = [d \in Connections |-> IF d = c THEN said ELSE << >>]
  OBVIOUS
<1>1. link \in [Connections -> Seq(Messages)]
  BY DEF TypeOK
<1>2. ASSUME NEW d \in Connections
      PROVE  output[d] \in Seq(Messages) /\ link'[d] = link[d] \o output[d] /\ Rising(output[d])
  <2>1. CASE d = c
    BY <1>1, <2>1
  <2>2. CASE d # c
    <3>1. \A s \in Seq(Messages) : s \o << >> = s
      OBVIOUS
    <3>2. output[d] = << >> /\ link'[d] = link[d] /\ link[d] \in Seq(Messages)
      BY <1>1, <2>2
    <3>3. << >> \in Seq(Messages)
      OBVIOUS
    <3> QED
      BY <3>1, <3>2, <3>3, RisingSmall
  <2> QED
    BY <2>1, <2>2
<1>3. ASSUME NEW d \in Connections, NEW k \in DOMAIN output[d]
      PROVE  k \in DOMAIN said /\ output[d][k] = said[k]
  BY <1>3
<1>4. ASSUME NEW d \in Connections, NEW k \in DOMAIN output[d]
      PROVE  /\ output[d][k] \in Said'
             /\ \A m \in Said : SameStream(m, output[d][k]) => m.header < output[d][k].header
  BY <1>3, <1>4
<1>5. \A d \in Connections :
          output[d] \in Seq(Messages) /\ link'[d] = link[d] \o output[d] /\ Rising(output[d])
  BY <1>2
<1>6. \A d \in Connections : \A k \in DOMAIN output[d] :
          /\ output[d][k] \in Said'
          /\ \A m \in Said : SameStream(m, output[d][k]) => m.header < output[d][k].header
  BY <1>4
<1>7. /\ TypeOK /\ WaitingInv /\ CapturedInv /\ CapturedIsBehind
      /\ UNCHANGED <<job, captured>> /\ Said \subseteq Said'
  OBVIOUS
<1> QED
  BY ONLY <1>5, <1>6, <1>7, GrowthKeepsHeaders

LEMMA InjectFaultKeepsHeaders ==
    ASSUME WireInvariant, Calm, InjectFault, WaitingInv, CapturedInv, CapturedIsBehind
    PROVE  WaitingInv' /\ CapturedInv' /\ CapturedIsBehind'
<1>0. /\ TypeOK /\ session \in {1, 2} /\ SessionInv /\ FaultTarget \in Robots /\ job \in Jobs
  BY Numbers DEF WireInvariant, WireInv, TypeOK
<1>1. /\ UNCHANGED <<job, captured, session, headerVars>> /\ ~faultInjected /\ faultInjected'
  BY DEF InjectFault, ShouldInjectFault, recVars
<1>2. session = 1
  BY <1>0, <1>1 DEF SessionInv
<1>3. Messages' = Messages /\ Robots' = Robots
  BY <1>1, Sets
<1>4. Said \subseteq Said'
  BY <1>1, <1>3 DEF Said, headerVars
<1>5. CASE client[FaultTarget] # "up"
  <2>1. link' = link /\ Connections' = Connections
    BY <1>1, <1>5, Sets DEF InjectFault
  <2> QED
    BY <1>1, <1>4, <2>1 DEF WaitingInv, CapturedInv, CapturedIsBehind
<1>6. CASE client[FaultTarget] = "up"
  <2> PICK c, will : c = Conn(FaultTarget) /\ will = Will(c)
    OBVIOUS
  <2>1. /\ c \in Connections /\ will \in Messages
        /\ link' = [link EXCEPT ![c] = @ \o <<will>>]
    BY <1>6, CleanCut
  <2>2. c = First
    BY <1>2 DEF Conn, SessionOfRobot, First
  <2>3. will = Connection(FaultTarget, 2, "CONNECTION_BROKEN", 1)
    BY <2>2 DEF Will, First
  <2>4. /\ will.topic = "connection" /\ will.header = 2 /\ will.robot = FaultTarget
    BY <2>3 DEF Connection, Message
  <2>5. will \in Said'
    BY <1>0, <1>1, <1>3, <2>1, <2>4 DEF Said
  <2>6. \A m \in Said : SameStream(m, will) => m.header < will.header
    BY <1>1, <1>2, <2>4 DEF Said, SameStream, Control, Message
  <2>7. <<will>> \in Seq(Messages) /\ \A k \in DOMAIN <<will>> : <<will>>[k] = will
    BY <2>1
  <2>8. \A k \in DOMAIN <<will>> :
            /\ <<will>>[k] \in Said'
            /\ \A m \in Said : SameStream(m, <<will>>[k]) => m.header < <<will>>[k].header
    BY <2>5, <2>6, <2>7
  <2>9. Rising(<<will>>)
    BY RisingSmall
  <2>10. UNCHANGED <<job, captured>> /\ TypeOK
    BY <1>0, <1>1
  <2> QED
    BY <1>4, <2>1, <2>7, <2>8, <2>9, <2>10, OneSpeakerKeepsHeaders
<1> QED
  BY <1>5, <1>6

LEMMA ReconnectKeepsHeaders ==
    ASSUME WireInvariant, Reconnect, WaitingInv, CapturedInv, CapturedIsBehind
    PROVE  WaitingInv' /\ CapturedInv' /\ CapturedIsBehind'
<1>0. /\ TypeOK /\ session \in {1, 2} /\ SessionInv /\ FaultTarget \in Robots /\ job \in Jobs
      /\ link \in [Connections -> Seq(Messages)] /\ Second \in Connections
  BY Numbers, ConnectionShape DEF WireInvariant, WireInv, TypeOK
<1>1. /\ UNCHANGED <<job, captured, headerVars, faultInjected>> /\ session' = 2
      /\ link' = [link EXCEPT ![Second] = Greeting] /\ reconnectAt # 0
  BY DEF Reconnect, ShouldReconnect, recVars, Second
<1>2. session = 1 /\ link[Second] = << >>
  BY <1>0, <1>1 DEF SessionInv
<1>3. Messages' = Messages /\ Robots' = Robots
  BY <1>1, Sets
<1>4. Said \subseteq Said'
  BY <1>1, <1>2, <1>3 DEF Said, headerVars
<1> PICK back : back = Connection(FaultTarget, 4, "ONLINE", 2)
  OBVIOUS
<1>5. /\ back.topic = "connection" /\ back.header = 4 /\ back.robot = FaultTarget
      /\ back \in Messages
  BY <1>0, MessageTypes DEF Connection, Message
<1>6. back \in Said' /\ \A m \in Said : SameStream(m, back) => m.header < back.header
  <2>1. back \in Said'
    BY <1>0, <1>1, <1>3, <1>5 DEF Said
  <2>2. \A m \in Said : SameStream(m, back) => m.header < back.header
    BY <1>2, <1>5 DEF Said, SameStream, Control, Message
  <2> QED
    BY <2>1, <2>2
<1> PICK said : said = Greeting
  OBVIOUS
<1>7. said = << >> \/ said = <<back>>
  BY DEF Greeting
<1>8. said \in Seq(Messages) /\ Rising(said) /\ \A k \in DOMAIN said : said[k] = back
  <2>1. Rising(said)
    BY <1>7, RisingSmall
  <2>2. back \in Messages
    BY <1>5
  <2>3. << >> \in Seq(Messages) /\ <<back>> \in Seq(Messages)
    BY <2>2
  <2>4. DOMAIN << >> = {} /\ DOMAIN <<back>> = {1} /\ <<back>>[1] = back
    OBVIOUS
  <2> QED
    BY <1>7, <2>1, <2>3, <2>4
<1>9. link' = [link EXCEPT ![Second] = @ \o said]
  <2>1. << >> \o said = said
    BY <1>8
  <2> QED
    BY <1>1, <1>2, <2>1
<1>10. \A k \in DOMAIN said :
          /\ said[k] \in Said'
          /\ \A m \in Said : SameStream(m, said[k]) => m.header < said[k].header
  BY <1>6, <1>8
<1>11. /\ TypeOK /\ WaitingInv /\ CapturedInv /\ CapturedIsBehind
       /\ UNCHANGED <<job, captured>> /\ Said \subseteq Said'
  BY <1>0, <1>1, <1>4
<1>12. Second \in Connections /\ said \in Seq(Messages) /\ Rising(said)
  BY <1>0, <1>8
<1> QED
  BY ONLY <1>9, <1>10, <1>11, <1>12, OneSpeakerKeepsHeaders

LEMMA FleetKeepsHeaders ==
    ASSUME WireInvariant, PublishOrders \/ Finish, WaitingInv, CapturedInv, CapturedIsBehind
    PROVE  WaitingInv' /\ CapturedInv' /\ CapturedIsBehind'
<1>0. /\ TypeOK /\ job \in Jobs /\ <<Fleet, 1>> \in Connections
      /\ orderHeader \in [Robots -> Nat]
  BY Numbers, ConnectionShape DEF WireInvariant, TypeOK
<1>1. UNCHANGED <<job, captured, session, faultInjected, vizHeader, stateHeader>>
  BY DEF PublishOrders, Finish, recVars, faultVars, headerVars
<1>2. Messages' = Messages /\ Robots' = Robots
  BY <1>1, Sets
<1>3. CASE PublishOrders
  <2>1. orderHeader' = [r \in Robots |-> IF r \in Ready THEN orderHeader[r] + 1
                                         ELSE orderHeader[r]]
    BY <1>3 DEF PublishOrders
  <2>2. PICK said \in Seq(Messages) :
            /\ link' = [link EXCEPT ![<<Fleet, 1>>] = @ \o said]
            /\ \A i \in DOMAIN said : \E r \in Ready : said[i] = OrderOf(r)
            /\ \A i, j \in DOMAIN said : said[i].robot = said[j].robot => i = j
    BY <1>0, <1>3, OrdersSaid
  <2>3. \A r \in Robots : orderHeader[r] \in Nat /\ orderHeader[r] <= orderHeader'[r]
    BY <1>0, <2>1
  <2>4. Said \subseteq Said'
    <3> SUFFICES ASSUME NEW m \in Said PROVE m \in Said'
      OBVIOUS
    <3>1. m \in Messages /\ m.header \in Nat
      BY DEF Said, Messages
    <3>2. m.robot \in Robots /\ m.header <= orderHeader[m.robot] =>
              m.header <= orderHeader'[m.robot]
      BY <1>0, <2>1, <2>3, <3>1
    <3> QED
      BY <1>1, <1>2, <3>2 DEF Said
  <2>5. ASSUME NEW k \in DOMAIN said
        PROVE  /\ said[k] \in Said'
               /\ \A m \in Said : SameStream(m, said[k]) => m.header < said[k].header
    <3>1. PICK r \in Ready : said[k] = OrderOf(r)
      BY <2>2
    <3>2. r \in Robots /\ orderHeader[r] \in Nat /\ orderHeader'[r] = orderHeader[r] + 1
      BY <1>0, <2>1 DEF Ready
    <3>3. said[k] \in Messages
      BY <2>2
    <3>4. said[k].topic = "order" /\ said[k].robot = r /\ said[k].header = orderHeader[r] + 1
      BY <3>1 DEF OrderOf, Order, Message
    <3>5. said[k] \in Said'
      BY <1>2, <3>2, <3>3, <3>4 DEF Said
    <3>6. ASSUME NEW m \in Said, SameStream(m, said[k]) PROVE m.header < said[k].header
      <4>1. m.topic = "order" /\ m.robot = r /\ m.header \in Nat
        BY <3>4, <3>6 DEF SameStream, Said, Messages
      <4>2. m.header <= orderHeader[r]
        BY <4>1 DEF Said, Control, Message
      <4> QED
        BY <3>2, <3>4, <4>1, <4>2
    <3> QED
      BY <3>5, <3>6
  <2>6. Rising(said)
    BY <2>2 DEF Rising, SameStream
  <2>7. \A k \in DOMAIN said :
            /\ said[k] \in Said'
            /\ \A m \in Said : SameStream(m, said[k]) => m.header < said[k].header
    BY <2>5
  <2>8. link' = [link EXCEPT ![<<Fleet, 1>>] = @ \o said] /\ said \in Seq(Messages)
    BY <2>2
  <2>9. /\ TypeOK /\ WaitingInv /\ CapturedInv /\ CapturedIsBehind /\ <<Fleet, 1>> \in Connections
        /\ UNCHANGED <<job, captured>> /\ Said \subseteq Said'
    BY <1>0, <1>1, <2>4
  <2> QED
    BY ONLY <2>6, <2>7, <2>8, <2>9, OneSpeakerKeepsHeaders
<1>4. CASE Finish
  <2>1. /\ orderHeader' = orderHeader
        /\ link' = [link EXCEPT ![<<Fleet, 1>>] = Append(@, Control)]
    BY <1>4 DEF Finish, Announce, headerVars
  <2>2. Said \subseteq Said'
    BY <1>1, <1>2, <2>1 DEF Said
  <2> PICK said : said = <<Control>>
    OBVIOUS
  <2>3. /\ said \in Seq(Messages) /\ \A k \in DOMAIN said : said[k] = Control
        /\ Rising(said)
    BY ControlType, RisingSmall
  <2>4. link' = [link EXCEPT ![<<Fleet, 1>>] = @ \o said]
    <3>1. \A s \in Seq(Messages) : Append(s, Control) = s \o <<Control>>
      BY ControlType, AppendIsConcat
    <3>2. link[<<Fleet, 1>>] \in Seq(Messages)
      BY <1>0, LinkShape
    <3>3. Append(link[<<Fleet, 1>>], Control) = link[<<Fleet, 1>>] \o said
      BY <3>1, <3>2
    <3> QED
      BY <2>1, <3>3
  <2>5. Control \in Said' /\ \A m : ~SameStream(m, Control)
    BY <1>2, ControlType DEF Said, SameStream, Control, Message
  <2>6. \A k \in DOMAIN said :
            /\ said[k] \in Said'
            /\ \A m \in Said : SameStream(m, said[k]) => m.header < said[k].header
    BY <2>3, <2>5
  <2>7. /\ TypeOK /\ WaitingInv /\ CapturedInv /\ CapturedIsBehind /\ <<Fleet, 1>> \in Connections
        /\ UNCHANGED <<job, captured>> /\ Said \subseteq Said'
    BY <1>0, <1>1, <2>2
  <2> QED
    BY ONLY <2>3, <2>4, <2>6, <2>7, OneSpeakerKeepsHeaders
<1> QED
  BY <1>3, <1>4

LEMMA PublishTelemetryKeepsHeaders ==
    ASSUME WireInvariant, PublishTelemetry, WaitingInv, CapturedInv, CapturedIsBehind
    PROVE  WaitingInv' /\ CapturedInv' /\ CapturedIsBehind'
<1>0. /\ TypeOK /\ job \in Jobs /\ session \in {1, 2}
      /\ link \in [Connections -> Seq(Messages)]
      /\ vizHeader \in [Robots -> Nat] /\ stateHeader \in [Robots -> Nat]
  BY DEF WireInvariant, TypeOK
<1>1. /\ UNCHANGED <<job, captured, session, faultInjected, orderHeader>>
      /\ vizHeader' = [r \in Robots |-> IF r \in Reporting THEN vizHeader[r] + 1 ELSE vizHeader[r]]
      /\ stateHeader' = [r \in Robots |-> IF r \in Reporting /\ StateIsDue
                                          THEN stateHeader[r] + 1 ELSE stateHeader[r]]
      /\ link' = [c \in Connections |->
                   IF ClientOf(c) \in Reporting /\ c = Conn(ClientOf(c))
                   THEN link[c] \o Pose(ClientOf(c)) ELSE link[c]]
  BY DEF PublishTelemetry, recVars, faultVars
<1>2. Messages' = Messages /\ Robots' = Robots
  BY <1>1, Sets
<1>3. \A r \in Robots :
          /\ vizHeader[r] \in Nat /\ vizHeader'[r] \in Nat /\ vizHeader[r] <= vizHeader'[r]
          /\ stateHeader[r] \in Nat /\ stateHeader'[r] \in Nat /\ stateHeader[r] <= stateHeader'[r]
  BY <1>0, <1>1
<1>4. Said \subseteq Said'
  <2> SUFFICES ASSUME NEW m \in Said PROVE m \in Said'
    OBVIOUS
  <2>1. m \in Messages /\ m.header \in Nat
    BY DEF Said, Messages
  <2>2. m.robot \in Robots /\ m.header <= vizHeader[m.robot] => m.header <= vizHeader'[m.robot]
    BY <1>3, <2>1
  <2>3. m.robot \in Robots /\ m.header <= stateHeader[m.robot] =>
            m.header <= stateHeader'[m.robot]
    BY <1>3, <2>1
  <2> QED
    BY <1>1, <1>2, <2>2, <2>3 DEF Said
<1> PICK output : output = [c \in Connections |->
                             IF ClientOf(c) \in Reporting /\ c = Conn(ClientOf(c))
                             THEN Pose(ClientOf(c)) ELSE << >>]
  OBVIOUS
<1>5. ASSUME NEW c \in Connections
      PROVE  /\ output[c] \in Seq(Messages) /\ link'[c] = link[c] \o output[c] /\ Rising(output[c])
             /\ \A k \in DOMAIN output[c] :
                    /\ output[c][k] \in Said'
                    /\ \A m \in Said : SameStream(m, output[c][k]) =>
                           m.header < output[c][k].header
  <2>1. CASE ~(ClientOf(c) \in Reporting /\ c = Conn(ClientOf(c)))
    <3>1. \A s \in Seq(Messages) : s \o << >> = s
      OBVIOUS
    <3>2. output[c] = << >> /\ link'[c] = link[c] /\ link[c] \in Seq(Messages)
      BY <1>0, <1>1, <2>1
    <3>3. << >> \in Seq(Messages) /\ DOMAIN << >> = {}
      OBVIOUS
    <3> QED
      BY <3>1, <3>2, <3>3, RisingSmall
  <2>2. CASE ClientOf(c) \in Reporting /\ c = Conn(ClientOf(c))
    <3> PICK r : r = ClientOf(c)
      OBVIOUS
    <3> PICK viz, state :
            /\ viz = Visualization(r, vizHeader[r] + 1, SessionOfRobot(r), stateHeader[r])
            /\ state = State(r, stateHeader[r] + 1, SessionOfRobot(r), accepted[r])
      OBVIOUS
    <3>1. r \in Robots /\ r \in Reporting /\ output[c] = Pose(r) /\ link'[c] = link[c] \o output[c]
      BY <1>1, <2>2 DEF Reporting
    <3>2. /\ viz \in Messages /\ state \in Messages /\ output[c] \in Seq(Messages)
          /\ DOMAIN output[c] = 1 .. (IF StateIsDue THEN 2 ELSE 1)
          /\ output[c][1] = viz /\ (StateIsDue => output[c][2] = state)
      BY <1>0, <3>1, PoseSaid
    <3>3. /\ viz.topic = "visualization" /\ viz.robot = r /\ viz.header = vizHeader[r] + 1
          /\ state.topic = "state" /\ state.robot = r /\ state.header = stateHeader[r] + 1
      BY DEF Visualization, State, Message
    <3>4. /\ vizHeader'[r] = vizHeader[r] + 1
          /\ StateIsDue => stateHeader'[r] = stateHeader[r] + 1
      BY <1>1, <3>1
    <3>5. viz \in Said'
      BY <1>2, <1>3, <3>1, <3>2, <3>3, <3>4 DEF Said
    <3>6. StateIsDue => state \in Said'
      BY <1>2, <1>3, <3>1, <3>2, <3>3, <3>4 DEF Said
    <3>7. ASSUME NEW m \in Said
          PROVE  /\ SameStream(m, viz) => m.header < viz.header
                 /\ SameStream(m, state) => m.header < state.header
      <4>1. m.header \in Nat
        BY DEF Said, Messages
      <4>2. SameStream(m, viz) => m.header <= vizHeader[r]
        BY <3>3 DEF Said, SameStream, Control, Message
      <4>3. SameStream(m, state) => m.header <= stateHeader[r]
        BY <3>3 DEF Said, SameStream, Control, Message
      <4> QED
        BY <1>3, <3>1, <3>3, <4>1, <4>2, <4>3
    <3>8. \A k \in DOMAIN output[c] :
              \/ k = 1 /\ output[c][k] = viz
              \/ k = 2 /\ StateIsDue /\ output[c][k] = state
      BY <3>2
    <3>9. Rising(output[c])
      BY <3>3, <3>8 DEF Rising, SameStream
    <3> QED
      BY <3>1, <3>2, <3>5, <3>6, <3>7, <3>8, <3>9
  <2> QED
    BY <2>1, <2>2
<1>6. \A c \in Connections :
          output[c] \in Seq(Messages) /\ link'[c] = link[c] \o output[c] /\ Rising(output[c])
  BY <1>5
<1>7. \A c \in Connections : \A k \in DOMAIN output[c] :
          /\ output[c][k] \in Said'
          /\ \A m \in Said : SameStream(m, output[c][k]) => m.header < output[c][k].header
  BY <1>5
<1>8. /\ TypeOK /\ WaitingInv /\ CapturedInv /\ CapturedIsBehind
      /\ UNCHANGED <<job, captured>> /\ Said \subseteq Said'
  BY <1>0, <1>1, <1>4
<1> QED
  BY ONLY <1>6, <1>7, <1>8, GrowthKeepsHeaders

LEMMA RouteKeepsHeaders ==
    ASSUME WireInvariant, NEW c \in Connections, Route(c),
           WaitingInv, CapturedInv, CapturedIsBehind
    PROVE  WaitingInv' /\ CapturedInv' /\ CapturedIsBehind'
<1> PICK m : m = link[c][1]
  OBVIOUS
<1>0. /\ TypeOK /\ job \in Jobs /\ session \in {1, 2} /\ Fleet \notin Robots
      /\ captured \in Seq(Messages) /\ LinkInv /\ SessionInv
  BY Numbers DEF WireInvariant, WireInv, TypeOK
<1>1. /\ link[c] # << >> /\ 1 \in DOMAIN link[c] /\ m \in Messages
      /\ DOMAIN link[c] = 1 .. Len(link[c]) /\ Len(link[c]) \in Nat \ {0}
      /\ \A d \in Connections \ {c} : link'[d] = link[d]
      /\ DOMAIN link'[c] = 1 .. Len(link[c]) - 1
      /\ \A i \in 1 .. Len(link[c]) - 1 : link'[c][i] = link[c][i + 1]
      /\ UNCHANGED <<job, session, faultInjected, orderHeader, vizHeader, stateHeader>>
  BY <1>0, RouteShape DEF faultVars, headerVars
<1>2. \/ captured' = captured
      \/ captured' = Append(captured, m) /\ m # Control
  BY <1>0, RouteOutcome
<1>3. /\ DOMAIN captured = 1 .. Len(captured) /\ Len(captured) \in Nat
      /\ DOMAIN Append(captured, m) = 1 .. Len(captured) + 1
      /\ \A i \in 1 .. Len(captured) : Append(captured, m)[i] = captured[i]
      /\ Append(captured, m)[Len(captured) + 1] = m
  BY <1>0, <1>1, Grown
<1>4. Connections' = Connections /\ Messages' = Messages /\ Robots' = Robots
  BY <1>1, Sets
<1>5. Said' = Said
  BY <1>1, <1>4 DEF Said
<1>6. m \in Said
  BY <1>1 DEF WaitingInv
<1>7. ASSUME NEW d \in Connections, NEW k \in DOMAIN link'[d]
      PROVE  /\ link'[d][k] \in Said
             /\ \A i \in DOMAIN captured : SameStream(captured[i], link'[d][k]) =>
                    captured[i].header < link'[d][k].header
             /\ SameStream(m, link'[d][k]) => m.header < link'[d][k].header
  <2>1. CASE d = c
    <3>0. k \in 1 .. Len(link[c]) - 1 /\ Len(link[c]) \in Nat
      BY <1>1, <1>7, <2>1
    <3>1. k + 1 \in DOMAIN link[c] /\ link'[c][k] = link[c][k + 1] /\ 1 < k + 1
      BY <1>1, <3>0
    <3>2. SameStream(m, link[c][k + 1]) => m.header < link[c][k + 1].header
      BY <1>1, <3>1 DEF WaitingInv, Rising
    <3> QED
      BY <2>1, <3>1, <3>2 DEF WaitingInv, CapturedIsBehind
  <2>2. CASE d # c
    <3>1. link'[d] = link[d] /\ k \in DOMAIN link[d]
      BY <1>1, <1>7, <2>2
    <3> PICK n : n = link[d][k]
      OBVIOUS
    <3>2. ~SameStream(m, n)
      <4> SUFFICES ASSUME SameStream(m, n) PROVE FALSE
        OBVIOUS
      <4>1. FromConnection(c, m) /\ FromConnection(d, n)
        BY <1>0, <1>1, <3>1 DEF LinkInv
      <4>2. m.topic = n.topic /\ m.robot = n.robot /\ m.topic # "control"
            /\ Control.topic = "control"
        BY DEF SameStream, Control, Message
      <4>3. c[1] = d[1]
        BY <4>1, <4>2, ConnectionShape, <1>0 DEF FromConnection
      <4>4. {c, d} = {First, Second}
        <5>1. /\ c = <<c[1], c[2]>> /\ c[2] \in {1, 2} /\ (c[2] = 2 => c = Second)
              /\ d = <<d[1], d[2]>> /\ d[2] \in {1, 2} /\ (d[2] = 2 => d = Second)
          BY <1>0, ConnectionShape
        <5>2. \/ c = Second /\ d = <<FaultTarget, 1>>
              \/ d = Second /\ c = <<FaultTarget, 1>>
          BY <2>2, <4>3, <5>1 DEF Second
        <5> QED
          BY <5>2 DEF First
      <4>5. link[c] # << >> /\ link[d] # << >>
        BY <1>1, <3>1
      <4> QED
        BY <1>0, <4>4, <4>5 DEF SessionInv
    <3> QED
      BY <3>1, <3>2 DEF WaitingInv, CapturedIsBehind
  <2> QED
    BY <2>1, <2>2
<1>8. WaitingInv'
  <2>1. ASSUME NEW d \in Connections PROVE Rising(link'[d])
    <3>1. CASE d # c
      BY <1>1, <3>1 DEF WaitingInv
    <3>2. CASE d = c
      <4> SUFFICES ASSUME NEW i \in DOMAIN link'[c], NEW j \in DOMAIN link'[c], i < j,
                          SameStream(link'[c][i], link'[c][j])
                   PROVE  link'[c][i].header < link'[c][j].header
        BY <3>2 DEF Rising
      <4>1. /\ i + 1 \in DOMAIN link[c] /\ j + 1 \in DOMAIN link[c] /\ i + 1 < j + 1
            /\ link'[c][i] = link[c][i + 1] /\ link'[c][j] = link[c][j + 1]
        BY <1>1
      <4> QED
        BY <4>1 DEF WaitingInv, Rising
    <3> QED
      BY <3>1, <3>2
  <2> QED
    BY <1>4, <1>5, <1>7, <2>1 DEF WaitingInv
<1>9. CASE captured' = captured
  <2>1. CapturedInv'
    BY <1>5, <1>9 DEF CapturedInv
  <2>2. CapturedIsBehind'
    BY <1>4, <1>7, <1>9 DEF CapturedIsBehind
  <2> QED
    BY <1>8, <2>1, <2>2
<1>10. CASE captured' = Append(captured, m) /\ m # Control
  <2>1. \A i \in DOMAIN captured' :
            \/ i \in DOMAIN captured /\ captured'[i] = captured[i]
            \/ i = Len(captured) + 1 /\ captured'[i] = m
    BY <1>3, <1>10
  <2>2. ASSUME NEW i \in DOMAIN captured', NEW j \in DOMAIN captured', i < j,
               SameStream(captured'[i], captured'[j])
        PROVE  captured'[i].header < captured'[j].header
    <3>1. i \in DOMAIN captured /\ captured'[i] = captured[i]
      BY <1>3, <2>1, <2>2
    <3>2. CASE j \in DOMAIN captured /\ captured'[j] = captured[j]
      BY <2>2, <3>1, <3>2 DEF CapturedInv, Rising
    <3>3. CASE captured'[j] = m
      BY <1>1, <2>2, <3>1, <3>3 DEF CapturedIsBehind
    <3> QED
      BY <2>1, <3>2, <3>3
  <2>3. Rising(captured')
    BY <2>2 DEF Rising
  <2>4. \A i \in DOMAIN captured' : captured'[i] \in Said /\ captured'[i] # Control
    BY <1>6, <1>10, <2>1 DEF CapturedInv
  <2>5. \A i \in DOMAIN captured' : \A d \in Connections : \A k \in DOMAIN link'[d] :
            SameStream(captured'[i], link'[d][k]) => captured'[i].header < link'[d][k].header
    BY <1>7, <2>1
  <2> QED
    BY <1>4, <1>5, <1>8, <2>3, <2>4, <2>5 DEF CapturedInv, CapturedIsBehind
<1> QED
  BY <1>2, <1>9, <1>10

-----------------------------------------------------------------------------
(* How much is published in a run *)

LEMMA Quotient ==
    ASSUME NEW p \in Nat \ {0}, NEW a \in Nat
    PROVE  a \div p \in Nat
BY SMT

LEMMA QuotientGrows ==
    ASSUME NEW p \in Nat \ {0}, NEW a \in Nat, NEW b \in Nat, a <= b
    PROVE  /\ a \div p <= b \div p
           /\ a < b /\ b % p = 0 => a \div p + 1 <= b \div p
<1>1. p \in Int /\ a \in Int /\ b \in Int /\ p > 0 /\ a >= 0
  OBVIOUS
<1>2. a \div p <= b \div p
  BY ONLY <1>1, a <= b, SMT
<1>3. a < b /\ b % p = 0 => a \div p < b \div p
  BY ONLY <1>1, SMT
<1>4. a \div p \in Nat /\ b \div p \in Nat
  BY Quotient
<1> QED
  BY <1>2, <1>3, <1>4

LEMMA NextCount ==
    ASSUME TypeOK, CountInv, [Next]_vars
    PROVE  CountInv'
<1>0. /\ StatePeriod \in Nat \ {0} /\ job \in Jobs /\ job.ticks \in Nat
      /\ tick \in Nat
      /\ \A r \in Robots : lastTick[r] \in Nat /\ vizHeader[r] \in Nat /\ stateHeader[r] \in Nat
  <2>1. job.ticks \in Nat
    BY Numbers DEF TypeOK
  <2>2. tick \in 0 .. job.ticks /\ \A r \in Robots : lastTick[r] \in 0 .. job.ticks
    BY DEF TypeOK
  <2> QED
    BY <2>1, <2>2, ConstantsAssumption DEF TypeOK
<1>1. job' = job /\ Robots' = Robots
  <2>1. job' = job
    BY DEF Next, Simulation, Bridge, Broker, Faults, Simulate, WriteComplete, ReceiveDeliveries,
           NoFaultWork, InjectFault, Reconnect, PublishOrders, PublishTelemetry, NextIteration,
           Finish, ShutdownRobot, ShutdownFleet, Shutdown, BridgeFails, Route, RecorderFails,
           ConnectionLost, Exit, Terminated, vars
  <2> QED
    BY <2>1, Sets
<1>2. CASE PublishTelemetry
  <2>1. /\ tick' = tick /\ lastTick' = [r \in Robots |-> tick]
        /\ vizHeader' = [r \in Robots |-> IF r \in Reporting THEN vizHeader[r] + 1 ELSE vizHeader[r]]
        /\ stateHeader' = [r \in Robots |-> IF r \in Reporting /\ StateIsDue
                                            THEN stateHeader[r] + 1 ELSE stateHeader[r]]
    BY <1>2 DEF PublishTelemetry, simVars
  <2>2. ASSUME NEW r \in Robots
        PROVE  /\ lastTick'[r] <= tick' /\ vizHeader'[r] <= lastTick'[r]
               /\ stateHeader'[r] <= lastTick'[r] \div StatePeriod
    <3>1. /\ lastTick[r] <= tick /\ vizHeader[r] <= lastTick[r]
          /\ stateHeader[r] <= lastTick[r] \div StatePeriod
      BY DEF CountInv
    <3>2. lastTick'[r] = tick
      BY <2>1
    <3>3. r \in Reporting => lastTick[r] < tick
      BY <1>0 DEF Reporting, Fresh
    <3>4. vizHeader'[r] <= tick
      BY <1>0, <2>1, <3>1, <3>3
    <3>5. /\ lastTick[r] \div StatePeriod \in Nat /\ tick \div StatePeriod \in Nat
          /\ lastTick[r] \div StatePeriod <= tick \div StatePeriod
          /\ lastTick[r] < tick /\ StateIsDue =>
                 lastTick[r] \div StatePeriod + 1 <= tick \div StatePeriod
      BY <1>0, <3>1, Quotient, QuotientGrows DEF StateIsDue
    <3>6. stateHeader'[r] <= tick \div StatePeriod
      <4>1. CASE r \in Reporting /\ StateIsDue
        <5>1. stateHeader'[r] = stateHeader[r] + 1
          BY <2>1, <4>1
        <5> QED
          BY <1>0, <3>1, <3>3, <3>5, <4>1, <5>1
      <4>2. CASE ~(r \in Reporting /\ StateIsDue)
        <5>1. stateHeader'[r] = stateHeader[r]
          BY <2>1, <4>2
        <5> QED
          BY <1>0, <3>1, <3>5, <5>1
      <4> QED
        BY <4>1, <4>2
    <3> QED
      BY <1>0, <2>1, <3>2, <3>4, <3>6
  <2> QED
    BY <1>1, <2>2 DEF CountInv
<1>3. CASE ~PublishTelemetry
  <2>1. UNCHANGED <<lastTick, vizHeader, stateHeader>> /\ tick' \in {tick, tick + 1}
    BY <1>3 DEF Next, Simulation, Bridge, Broker, Faults, Simulate, WriteComplete,
           ReceiveDeliveries, NoFaultWork, InjectFault, Reconnect, PublishOrders, NextIteration,
           Finish, ShutdownRobot, ShutdownFleet, Shutdown, BridgeFails, Route, RecorderFails,
           ConnectionLost, Exit, Terminated, vars, simVars, headerVars
  <2> QED
    BY <1>0, <1>1, <2>1 DEF CountInv
<1> QED
  BY <1>2, <1>3

-----------------------------------------------------------------------------
(* A calm run fits the capture: no two of its messages have one key, and there *)
(* are fewer keys than the recorder's limit.                                   *)

Place(m) ==
    m.header + (CASE m.topic = "connection" -> 0
                  [] m.topic = "order" -> 2
                  [] m.topic = "visualization" -> 2 + job.batches
                  [] OTHER -> 2 + job.batches + job.ticks)

Places == 2 + job.ticks + job.ticks \div StatePeriod + job.batches

Key(m) ==
    IF m.topic = "connection" /\ m.header = 4 THEN <<0, 0>> ELSE <<m.robot, Place(m)>>

Keys == (Robots \X (1 .. Places)) \cup {<<0, 0>>}

LEMMA IntervalSize ==
    ASSUME NEW n \in Nat
    PROVE  IsFiniteSet(1 .. n) /\ Cardinality(1 .. n) = n
<1>1. IsFiniteSet(1 .. n) /\ Cardinality(1 .. n) = IF 1 > n THEN 0 ELSE n - 1 + 1
  BY FS_Interval
<1> QED
  BY <1>1

LEMMA KeysFit ==
    ASSUME job \in Jobs
    PROVE  IsFiniteSet(Keys) /\ Cardinality(Keys) \in Nat /\ Cardinality(Keys) < job.limit
<1> PICK K : K = Places
  OBVIOUS
<1>1. /\ job.robots \in Nat /\ job.limit \in Nat /\ K \in Nat
      /\ job.robots * K + 2 <= job.limit /\ 0 \notin Robots
  <2>1. job.ticks \div StatePeriod \in Nat
    BY Numbers, ConstantsAssumption, Quotient
  <2>2. /\ job.robots \in Nat /\ job.limit \in Nat /\ job.ticks \in Nat /\ job.batches \in Nat
        /\ 0 \notin Robots
    BY Numbers
  <2>3. job.limit >= WorstCase(job)
    BY ConstantsAssumption
  <2>4. WorstCase(job) = job.robots * K + 2
    BY DEF WorstCase, Places
  <2>5. K \in Nat
    BY <2>1, <2>2 DEF Places
  <2>6. job.robots * K \in Nat
    BY <2>2, <2>5
  <2> QED
    BY <2>2, <2>3, <2>4, <2>5, <2>6
<1>2. \A n \in Nat : IsFiniteSet(1 .. n) /\ Cardinality(1 .. n) = n
  BY IntervalSize
<1> PICK S, T : S = Robots /\ T = 1 .. K
  OBVIOUS
<1>3. IsFiniteSet(S \X T) /\ Cardinality(S \X T) = job.robots * K
  <2>1. IsFiniteSet(S) /\ Cardinality(S) = job.robots
    BY <1>1, <1>2 DEF Robots
  <2>2. IsFiniteSet(T) /\ Cardinality(T) = K
    BY <1>1, <1>2
  <2>3. IsFiniteSet(S \X T) /\ Cardinality(S \X T) = Cardinality(S) * Cardinality(T)
    BY ONLY <2>1, <2>2, FS_Product
  <2> QED
    BY <2>1, <2>2, <2>3
<1>4. /\ IsFiniteSet(Keys)
      /\ Cardinality(Keys) \in {job.robots * K, job.robots * K + 1}
  <2> PICK U : U = S \X T
    OBVIOUS
  <2>1. /\ IsFiniteSet(U \cup {<<0, 0>>})
        /\ Cardinality(U \cup {<<0, 0>>}) =
               IF <<0, 0>> \in U THEN Cardinality(U) ELSE Cardinality(U) + 1
    BY <1>3, FS_AddElement
  <2>2. Keys = U \cup {<<0, 0>>}
    BY DEF Keys
  <2> QED
    BY <1>3, <2>1, <2>2
<1>5. job.robots * K \in Nat
  BY <1>1
<1> QED
  BY <1>1, <1>4, <1>5

LEMMA SaidIsKeyed ==
    ASSUME TypeOK, StageInv, CountInv, NEW m \in Said, m # Control
    PROVE  Key(m) \in Keys
<1>0. /\ job \in Jobs /\ job.ticks \in Nat /\ job.batches \in Nat /\ 0 \notin Robots
      /\ job.ticks \div StatePeriod \in Nat /\ StatePeriod \in Nat \ {0}
  BY Numbers, ConstantsAssumption, Quotient DEF TypeOK
<1> PICK q \in Nat : q = job.ticks \div StatePeriod
  BY <1>0
<1>1. CASE m.topic = "connection" /\ m.header = 4
  BY <1>1 DEF Key, Keys
<1>2. CASE ~(m.topic = "connection" /\ m.header = 4)
  <2> PICK r \in Robots : r = m.robot
    BY DEF Said
  <2>1. m.header \in Nat \ {0}
    BY DEF Said, Messages
  <2>2. orderHeader[r] \in Nat /\ orderHeader[r] <= job.batches
    <3>1. orderHeader[r] \in Nat /\ batches[r] \in 0 .. job.batches
      BY DEF TypeOK
    <3>2. batches[r] = orderHeader[r] + (IF batch[r] \in {"queued", "pending"} THEN 1 ELSE 0)
      BY DEF StageInv
    <3> QED
      BY <1>0, <3>1, <3>2
  <2>3. /\ vizHeader[r] \in Nat /\ vizHeader[r] <= job.ticks
        /\ stateHeader[r] \in Nat /\ stateHeader[r] <= q
    <3>1. /\ vizHeader[r] \in Nat /\ stateHeader[r] \in Nat /\ lastTick[r] \in 0 .. job.ticks
      BY DEF TypeOK
    <3>2. vizHeader[r] <= lastTick[r] /\ stateHeader[r] <= lastTick[r] \div StatePeriod
      BY DEF CountInv
    <3>3. lastTick[r] \div StatePeriod \in Nat /\ lastTick[r] \div StatePeriod <= q
      <4> PICK a, b \in Nat : a = lastTick[r] /\ b = job.ticks
        BY <1>0, <3>1
      <4>1. a <= b
        BY <1>0, <3>1
      <4>2. a \div StatePeriod \in Nat /\ a \div StatePeriod <= b \div StatePeriod
        BY <1>0, <4>1, Quotient, QuotientGrows
      <4> QED
        BY <4>2
    <3> QED
      BY <1>0, <3>1, <3>2, <3>3
  <2>4. \/ m.topic = "order" /\ m.header <= job.batches
        \/ m.topic = "visualization" /\ m.header <= job.ticks
        \/ m.topic = "state" /\ m.header <= q
        \/ m.topic = "connection" /\ m.header \in {1, 2}
    <3>1. \/ m.topic = "order" /\ m.header <= orderHeader[r]
          \/ m.topic = "visualization" /\ m.header <= vizHeader[r]
          \/ m.topic = "state" /\ m.header <= stateHeader[r]
          \/ m.topic = "connection" /\ m.header \in {1, 2}
      BY <1>2 DEF Said
    <3> QED
      BY <1>0, <2>1, <2>2, <2>3, <3>1
  <2>5. Place(m) \in 1 .. Places
    <3>1. Places = 2 + job.ticks + q + job.batches
      BY DEF Places
    <3>2. CASE m.topic = "order" /\ m.header <= job.batches
      BY <1>0, <2>1, <3>1, <3>2 DEF Place
    <3>3. CASE m.topic = "visualization" /\ m.header <= job.ticks
      BY <1>0, <2>1, <3>1, <3>3 DEF Place
    <3>4. CASE m.topic = "state" /\ m.header <= q
      BY <1>0, <2>1, <3>1, <3>4 DEF Place
    <3>5. CASE m.topic = "connection" /\ m.header \in {1, 2}
      BY <1>0, <2>1, <3>1, <3>5 DEF Place
    <3> QED
      BY <2>4, <3>2, <3>3, <3>4, <3>5
  <2>6. Key(m) = <<r, Place(m)>>
    BY <1>2 DEF Key
  <2> QED
    BY <2>5, <2>6 DEF Keys
<1> QED
  BY <1>1, <1>2

(* What was said with one key is of one stream and has one header.             *)
LEMMA KeyTells ==
    ASSUME TypeOK, StageInv, CountInv, NEW m \in Said, NEW n \in Said,
           m # Control, n # Control, Key(m) = Key(n)
    PROVE  SameStream(m, n) /\ m.header = n.header
<1>0. /\ job \in Jobs /\ job.ticks \in Nat /\ job.batches \in Nat /\ 0 \notin Robots
      /\ FaultTarget \in Robots
  BY Numbers DEF TypeOK
<1>1. \A x \in Said : x # Control =>
          /\ x.robot \in Robots /\ x.header \in Nat \ {0}
          /\ \/ x.topic = "order" /\ x.header <= job.batches
             \/ x.topic = "visualization" /\ x.header <= job.ticks
             \/ x.topic = "state"
             \/ x.topic = "connection" /\ x.header \in {1, 2}
             \/ x.topic = "connection" /\ x.header = 4 /\ x.robot = FaultTarget
  <2> SUFFICES ASSUME NEW x \in Said, x # Control
               PROVE  /\ x.robot \in Robots /\ x.header \in Nat \ {0}
                      /\ \/ x.topic = "order" /\ x.header <= job.batches
                         \/ x.topic = "visualization" /\ x.header <= job.ticks
                         \/ x.topic = "state"
                         \/ x.topic = "connection" /\ x.header \in {1, 2}
                         \/ /\ x.topic = "connection" /\ x.header = 4
                            /\ x.robot = FaultTarget
    OBVIOUS
  <2> PICK r \in Robots : r = x.robot
    BY DEF Said
  <2>1. x.header \in Nat \ {0}
    BY DEF Said, Messages
  <2>2. orderHeader[r] \in Nat /\ orderHeader[r] <= job.batches
    <3>1. orderHeader[r] \in Nat /\ batches[r] \in 0 .. job.batches
      BY DEF TypeOK
    <3>2. batches[r] = orderHeader[r] + (IF batch[r] \in {"queued", "pending"} THEN 1 ELSE 0)
      BY DEF StageInv
    <3> QED
      BY <1>0, <3>1, <3>2
  <2>3. vizHeader[r] \in Nat /\ vizHeader[r] <= job.ticks
    <3>1. vizHeader[r] \in Nat /\ lastTick[r] \in 0 .. job.ticks /\ vizHeader[r] <= lastTick[r]
      BY DEF TypeOK, CountInv
    <3> QED
      BY <1>0, <3>1
  <2>4. \/ x.topic = "order" /\ x.header <= orderHeader[r]
        \/ x.topic = "visualization" /\ x.header <= vizHeader[r]
        \/ x.topic = "state"
        \/ x.topic = "connection" /\ x.header \in {1, 2}
        \/ x.topic = "connection" /\ x.header = 4 /\ x.robot = FaultTarget
    BY DEF Said
  <2> QED
    BY <1>0, <2>1, <2>2, <2>3, <2>4
<1> PICK b, t \in Nat : b = job.batches /\ t = job.ticks
  BY <1>0
<1>2. ASSUME NEW x \in {m, n}
      PROVE  /\ x.robot \in Robots /\ x.header \in Nat \ {0}
             /\ \/ /\ x.topic = "order" /\ x.header <= b
                   /\ Key(x) = <<x.robot, x.header + 2>>
                \/ /\ x.topic = "visualization" /\ x.header <= t
                   /\ Key(x) = <<x.robot, x.header + (2 + b)>>
                \/ /\ x.topic = "state"
                   /\ Key(x) = <<x.robot, x.header + (2 + b + t)>>
                \/ /\ x.topic = "connection" /\ x.header \in {1, 2}
                   /\ Key(x) = <<x.robot, x.header + 0>>
                \/ /\ x.topic = "connection" /\ x.header = 4 /\ x.robot = FaultTarget
                   /\ Key(x) = <<0, 0>>
  <2>1. x \in Said /\ x # Control
    OBVIOUS
  <2>2. /\ x.topic = "order" => Key(x) = <<x.robot, x.header + 2>>
        /\ x.topic = "visualization" => Key(x) = <<x.robot, x.header + (2 + b)>>
        /\ x.topic = "state" => Key(x) = <<x.robot, x.header + (2 + b + t)>>
        /\ x.topic = "connection" /\ x.header = 4 => Key(x) = <<0, 0>>
        /\ x.topic = "connection" /\ x.header # 4 => Key(x) = <<x.robot, x.header + 0>>
    BY DEF Key, Place
  <2>3. \A h : h \in {1, 2} => h # 4
    OBVIOUS
  <2> QED
    BY <1>1, <2>1, <2>2, <2>3
<1>3. m.topic = n.topic /\ m.robot = n.robot /\ m.header = n.header
  <2>1. CASE Key(m) = <<0, 0>>
    <3>1. ASSUME NEW x \in {m, n}
          PROVE  x.topic = "connection" /\ x.header = 4 /\ x.robot = FaultTarget
      <4>1. Key(x) = <<0, 0>> /\ x.robot # 0
        BY <1>0, <1>2, <2>1
      <4>2. \A h : Key(x) # <<x.robot, h>>
        BY <4>1
      <4> QED
        BY <1>2, <4>2
    <3> QED
      BY <3>1
  <2>2. CASE Key(m) # <<0, 0>>
    BY <1>0, <1>2, <2>2
  <2> QED
    BY <2>1, <2>2
<1>4. m.topic # "control"
  BY <1>1
<1> QED
  BY <1>3, <1>4 DEF SameStream

LEMMA CaptureFits ==
    ASSUME TypeOK, StageInv, CountInv, CapturedInv
    PROVE  Len(captured) < job.limit
<1>1. /\ job \in Jobs /\ Len(captured) \in Nat /\ DOMAIN captured = 1 .. Len(captured)
      /\ job.limit \in Nat
  BY Numbers, LenProperties DEF TypeOK
<1>2. IsFiniteSet(Keys) /\ Cardinality(Keys) \in Nat /\ Cardinality(Keys) < job.limit
  BY <1>1, KeysFit
<1>3. \A i \in DOMAIN captured : captured[i] \in Said /\ captured[i] # Control
  BY DEF CapturedInv
<1> PICK S : S = 1 .. Len(captured)
  OBVIOUS
<1> PICK f : f = [i \in S |-> Key(captured[i])]
  OBVIOUS
<1>4. f \in [S -> Keys]
  BY <1>1, <1>3, SaidIsKeyed
<1>5. IsFiniteSet(S) /\ Cardinality(S) = Len(captured)
  BY <1>1, IntervalSize
<1>6. ASSUME NEW i \in S, NEW j \in S, i < j, f[i] = f[j] PROVE FALSE
  <2>1. /\ captured[i] \in Said /\ captured[j] \in Said /\ captured[i] # Control
        /\ captured[j] # Control /\ Key(captured[i]) = Key(captured[j])
    BY <1>1, <1>3, <1>6
  <2>2. SameStream(captured[i], captured[j]) /\ captured[i].header = captured[j].header
    BY <2>1, KeyTells
  <2>3. captured[i].header < captured[j].header
    BY <1>1, <1>6, <2>2 DEF CapturedInv, Rising
  <2>4. captured[i].header \in Nat
    BY <2>1 DEF Said, Messages
  <2> QED
    BY <2>2, <2>3, <2>4
<1>7. ~ \E i, j \in S : i # j /\ f[i] = f[j]
  BY <1>1, <1>6
<1>8. ~ (Cardinality(Keys) < Cardinality(S))
  BY ONLY <1>2, <1>4, <1>5, <1>7, FS_PigeonHole
<1> QED
  BY <1>1, <1>2, <1>5, <1>8

-----------------------------------------------------------------------------
(* The steps of a calm run *)

(* Nothing is published and nothing is routed. *)
LEMMA QuietCalm ==
    ASSUME PoseInvariant, PoseInvariant', CalmInv, Calm,
           \/ Simulate \/ WriteComplete \/ ReceiveDeliveries \/ NoFaultWork \/ NextIteration
           \/ BridgeFails \/ RecorderFails \/ UNCHANGED vars
           \/ \E x \in Robots \cup {Fleet} :
                  \/ ConnectionLost(x) \/ Exit(x)
                  \/ Shutdown(x) /\ pc = "shutdown" /\ pc' \in Closing
    PROVE  CalmInv'
<1>0. /\ ~MayFault /\ ~job.slow /\ NothingBroke /\ TypeOK
      /\ client \in [Robots \cup {Fleet} -> {"up", "dead", "none"}]
      /\ PoseInv'
  <2>1. faults \in 0 .. job.faults /\ job.faults = 0 /\ ~job.slow
    BY DEF PoseInvariant, RecordInvariant, WireInvariant, TypeOK, Calm
  <2> QED
    BY <2>1 DEF PoseInvariant, RecordInvariant, WireInvariant, TypeOK, PoseInv, Calm, MayFault
<1>1. \/ Simulate \/ WriteComplete \/ ReceiveDeliveries \/ NoFaultWork \/ NextIteration
      \/ UNCHANGED vars
      \/ \E x \in Robots \cup {Fleet} : Shutdown(x) /\ pc = "shutdown" /\ pc' \in Closing
  <2>1. ~RecorderFails
    BY <1>0 DEF RecorderFails
  <2>2. \A x : ~ConnectionLost(x) /\ ~Exit(x)
    BY <1>0 DEF ConnectionLost, Exit, NothingBroke
  <2>3. ~BridgeFails
    <3> SUFFICES ASSUME BridgeFails PROVE FALSE
      OBVIOUS
    <3>1. job' = job /\ pc' = "failed"
      BY DEF BridgeFails
    <3>2. Calm'
      BY <3>1 DEF Calm
    <3> QED
      BY <1>0, <3>1, <3>2 DEF PoseInv, NothingBroke
  <2> QED
    BY <2>1, <2>2, <2>3
<1>2. /\ UNCHANGED <<job, link, captured, headerVars, session, faultInjected, rec>>
      /\ pc' \in Closing => pc \in Closing
  <2>1. ASSUME NEW x \in Robots \cup {Fleet}, Shutdown(x), pc = "shutdown"
        PROVE  /\ UNCHANGED <<job, link, captured, headerVars, session, faultInjected, rec>>
               /\ pc \in Closing
    BY <1>0, <2>1 DEF Shutdown, Closing, faultVars, recVars, headerVars
  <2>2. CASE Simulate \/ WriteComplete \/ UNCHANGED vars
    BY <2>2 DEF Simulate, WriteComplete, vars, faultVars, recVars, headerVars
  <2>3. CASE ReceiveDeliveries \/ NoFaultWork \/ NextIteration
    BY <2>3 DEF ReceiveDeliveries, NoFaultWork, NextIteration, Closing, faultVars, recVars,
                headerVars
  <2> QED
    BY <1>1, <2>1, <2>2, <2>3
<1>3. WaitingInv' /\ CapturedInv' /\ CapturedIsBehind'
  BY <1>2, HeaderFrame DEF CalmInv
<1>4. AnswerInv'
  <2>1. AnswerInv
    BY DEF CalmInv
  <2>2. Announced' <=> Announced
    BY <1>2 DEF Announced, FleetLink
  <2> QED
    BY <1>2, <2>1, <2>2 DEF AnswerInv
<1> QED
  BY <1>3, <1>4 DEF CalmInv

(* The completion goes last, and is served before the limit is met.            *)
LEMMA RouteAnswers ==
    ASSUME TypeOK, StageInv, CountInv, CapturedInv, AnswerInv, Calm,
           NEW c \in Connections, Route(c)
    PROVE  AnswerInv'
<1> PICK m : m = link[c][1]
  OBVIOUS
<1>1. /\ link[c] # << >> /\ 1 \in DOMAIN link[c] /\ m \in Messages /\ Head(link[c]) = m
      /\ DOMAIN link[c] = 1 .. Len(link[c]) /\ Len(link[c]) \in Nat \ {0}
      /\ \A d \in Connections \ {c} : link'[d] = link[d]
      /\ DOMAIN link'[c] = 1 .. Len(link[c]) - 1
      /\ \A i \in 1 .. Len(link[c]) - 1 : link'[c][i] = link[c][i + 1]
      /\ UNCHANGED <<job, pc>>
  BY RouteShape
<1>2. /\ Len(captured) \in Nat /\ Len(captured) < job.limit /\ job.limit \in Nat
      /\ <<Fleet, 1>> \in Connections
  BY CaptureFits, LenProperties, Numbers, ConnectionShape DEF TypeOK
<1>3. IF rec = "recording" THEN rec' = IF m = Control THEN "sealed" ELSE "recording"
      ELSE rec' = rec
  <2>1. MayMiss(m) = {"nobody"}
    <3>1. ~MayFault
      BY Numbers DEF TypeOK, Calm, MayFault
    <3> QED
      BY <3>1 DEF MayMiss
  <2>2. Deliver(m)
    BY <1>1 DEF Route
  <2>3. IF rec = "recording" THEN Record(m) ELSE UNCHANGED recVars
    BY <2>1, <2>2 DEF Deliver
  <2>4. ~(Len(captured) >= WireLimit) /\ ~(Len(captured) >= CaptureLimit)
    BY <1>2 DEF WireLimit, CaptureLimit
  <2>5. CASE rec = "recording" /\ m = Control
    BY <2>3, <2>4, <2>5 DEF Record
  <2>6. CASE rec = "recording" /\ m # Control
    BY <2>3, <2>4, <2>6 DEF Record
  <2>7. CASE rec # "recording"
    BY <2>3, <2>7 DEF recVars
  <2> QED
    BY <2>5, <2>6, <2>7
<1>4. rec' \in {"recording", "sealed"}
  BY <1>3 DEF AnswerInv
<1>5. ASSUME pc' \in Closing, rec' = "recording" PROVE Announced'
  <2>1. rec = "recording" /\ m # Control
    BY <1>3, <1>5
  <2>2. PICK i \in DOMAIN FleetLink : FleetLink[i] = Control
    BY <1>1, <1>5, <2>1 DEF AnswerInv, Announced
  <2>3. CASE c # <<Fleet, 1>>
    <3>1. FleetLink' = FleetLink
      BY <1>1, <1>2, <2>3 DEF FleetLink
    <3> QED
      BY <2>2, <3>1 DEF Announced
  <2>4. CASE c = <<Fleet, 1>>
    <3>1. /\ i \in 1 .. Len(link[c]) /\ i # 1 /\ link[c][i] = Control
      BY <1>1, <2>1, <2>2, <2>4 DEF FleetLink
    <3>2. i - 1 \in 1 .. Len(link[c]) - 1 /\ (i - 1) + 1 = i
      BY <1>1, <3>1
    <3>3. link'[c][i - 1] = Control
      BY <1>1, <3>1, <3>2
    <3> QED
      BY <1>1, <2>4, <3>2, <3>3 DEF Announced, FleetLink
  <2> QED
    BY <2>3, <2>4
<1> QED
  BY <1>4, <1>5 DEF AnswerInv

LEMMA BridgeAnswers ==
    ASSUME TypeOK, AnswerInv,
           InjectFault \/ Reconnect \/ PublishOrders \/ PublishTelemetry \/ Finish
    PROVE  AnswerInv'
<1>1. rec' = rec
  BY DEF InjectFault, Reconnect, PublishOrders, PublishTelemetry, Finish, recVars
<1>2. CASE Finish
  <2>1. link[<<Fleet, 1>>] \in Seq(Messages) /\ <<Fleet, 1>> \in DOMAIN link
    BY ConnectionShape DEF TypeOK
  <2>2. FleetLink' = Append(FleetLink, Control)
    BY <1>2, <2>1 DEF Finish, Announce, FleetLink
  <2>3. /\ Len(FleetLink) + 1 \in DOMAIN FleetLink'
        /\ FleetLink'[Len(FleetLink) + 1] = Control
    BY <2>1, <2>2, ControlType DEF FleetLink
  <2> QED
    BY <1>1, <2>3 DEF AnswerInv, Announced
<1>3. CASE InjectFault \/ Reconnect \/ PublishOrders \/ PublishTelemetry
  <2>1. pc' \notin Closing
    BY <1>3 DEF InjectFault, Reconnect, PublishOrders, PublishTelemetry, Closing
  <2> QED
    BY <1>1, <2>1 DEF AnswerInv
<1> QED
  BY <1>2, <1>3

LEMMA InitAnswer == Init => CountInv /\ CalmInv
<1> SUFFICES ASSUME Init PROVE CountInv /\ CalmInv
  OBVIOUS
<1>1. /\ job \in Jobs /\ captured = << >> /\ pc = "receive" /\ rec = "recording" /\ tick = 0
      /\ \A r \in Robots : lastTick[r] = 0 /\ vizHeader[r] = 0 /\ stateHeader[r] = 0
  BY DEF Init
<1>2. CountInv
  <2>1. 0 \div StatePeriod \in Nat
    BY Quotient, ConstantsAssumption
  <2>2. \A n \in Nat : 0 <= n
    OBVIOUS
  <2> QED
    BY <1>1, <2>1, <2>2 DEF CountInv
<1>3. WaitingInv
  <2> SUFFICES ASSUME NEW c \in Connections
               PROVE  Rising(link[c]) /\ \A k \in DOMAIN link[c] : link[c][k] \in Said
    BY DEF WaitingInv
  <2>1. CASE link[c] = << >>
    BY <2>1, RisingSmall
  <2>2. CASE c[1] \in Robots /\ link[c] = <<Connection(c[1], 1, "ONLINE", 1)>>
    <3> PICK m : m = Connection(c[1], 1, "ONLINE", 1)
      OBVIOUS
    <3>1. m \in Messages
      BY <2>2, MessageTypes
    <3>2. m.topic = "connection" /\ m.robot = c[1] /\ m.header = 1
      BY DEF Connection, Message
    <3>3. m \in Said
      BY <2>2, <3>1, <3>2 DEF Said
    <3>4. link[c] = <<m>>
      BY <2>2
    <3>5. \A k \in DOMAIN link[c] : link[c][k] = m
      BY <3>4
    <3> QED
      BY <3>3, <3>4, <3>5, RisingSmall
  <2>3. \/ link[c] = << >>
        \/ c[1] \in Robots /\ link[c] = <<Connection(c[1], 1, "ONLINE", 1)>>
    <3>1. c[1] \in Robots \cup {Fleet}
      BY <1>1, ConnectionShape
    <3> QED
      BY <3>1 DEF Init
  <2> QED
    BY <2>1, <2>2, <2>3
<1>4. CapturedInv /\ CapturedIsBehind
  BY <1>1, RisingSmall DEF CapturedInv, CapturedIsBehind
<1>5. AnswerInv
  BY <1>1 DEF AnswerInv, Closing
<1> QED
  BY <1>2, <1>3, <1>4, <1>5 DEF CalmInv

LEMMA NextAnswer == AnswerInvariant /\ [Next]_vars => AnswerInvariant'
<1> SUFFICES ASSUME AnswerInvariant, [Next]_vars PROVE AnswerInvariant'
  OBVIOUS
<1>0. /\ PoseInvariant /\ CountInv /\ CalmInv /\ WireInvariant /\ TypeOK /\ StageInv
  BY DEF AnswerInvariant, PoseInvariant, RecordInvariant, WireInvariant
<1>1. PoseInvariant' /\ CountInv'
  BY <1>0, NextPoses, NextCount
<1>2. CalmInv'
  <2>0. job' = job
    BY DEF Next, Simulation, Bridge, Broker, Faults, Simulate, WriteComplete, ReceiveDeliveries,
           NoFaultWork, InjectFault, Reconnect, PublishOrders, PublishTelemetry, NextIteration,
           Finish, ShutdownRobot, ShutdownFleet, Shutdown, BridgeFails, Route, RecorderFails,
           ConnectionLost, Exit, Terminated, vars
  <2> SUFFICES ASSUME Calm PROVE CalmInv'
    BY <2>0 DEF CalmInv, Calm
  <2>1. WaitingInv /\ CapturedInv /\ CapturedIsBehind /\ AnswerInv
    BY <1>0 DEF CalmInv
  <2>2. CASE \/ Simulate \/ WriteComplete \/ ReceiveDeliveries \/ NoFaultWork \/ NextIteration
             \/ BridgeFails \/ RecorderFails \/ Terminated \/ UNCHANGED vars
    BY <1>0, <1>1, <2>2, QuietCalm DEF Terminated
  <2>3. CASE \E x \in Robots \cup {Fleet} : ConnectionLost(x) \/ Exit(x)
    BY <1>0, <1>1, <2>3, QuietCalm
  <2>4. CASE (\E r \in Robots : ShutdownRobot(r)) \/ ShutdownFleet
    <3>1. \E x \in Robots \cup {Fleet} : Shutdown(x) /\ pc = "shutdown" /\ pc' \in Closing
      BY <2>4 DEF ShutdownRobot, ShutdownFleet, Closing
    <3> QED
      BY <1>0, <1>1, <3>1, QuietCalm
  <2>5. CASE InjectFault \/ Reconnect \/ PublishOrders \/ PublishTelemetry \/ Finish
    <3>1. WaitingInv' /\ CapturedInv' /\ CapturedIsBehind'
      BY <1>0, <2>1, <2>5, InjectFaultKeepsHeaders, ReconnectKeepsHeaders, FleetKeepsHeaders,
         PublishTelemetryKeepsHeaders
    <3>2. AnswerInv'
      BY <1>0, <2>1, <2>5, BridgeAnswers
    <3> QED
      BY <3>1, <3>2 DEF CalmInv
  <2>6. CASE Broker
    <3> PICK c \in Connections : Route(c)
      BY <2>6 DEF Broker
    <3>1. WaitingInv' /\ CapturedInv' /\ CapturedIsBehind'
      BY <1>0, <2>1, RouteKeepsHeaders
    <3>2. AnswerInv'
      BY <1>0, <2>1, RouteAnswers
    <3> QED
      BY <3>1, <3>2 DEF CalmInv
  <2> QED
    BY <2>2, <2>3, <2>4, <2>5, <2>6 DEF Next, Simulation, Bridge, Faults
<1> QED
  BY <1>1, <1>2 DEF AnswerInvariant

THEOREM AnswerInvariantHolds == Spec => []AnswerInvariant
<1>1. Init => AnswerInvariant
  BY InitInvariant, InitRecord, InitPoses, InitAnswer
     DEF AnswerInvariant, PoseInvariant, RecordInvariant
<1> QED
  BY <1>1, NextAnswer, PTL DEF Spec

(* The header ids of a topic rise over both sessions, also where they are       *)
(* constants (lsmart-bridge.rs 302-326, 539-567), in a run in which nothing is  *)
(* lost and the pauses suffice: what is published is ahead of all that waits    *)
(* or is captured.                                                             *)
THEOREM HeadersRise == Spec => []HeaderIdsIncrease
<1>1. AnswerInvariant => HeaderIdsIncrease
  <2> SUFFICES ASSUME AnswerInvariant, Calm, NEW i \in DOMAIN captured,
                      NEW j \in DOMAIN captured, i < j,
                      captured[i].topic = captured[j].topic,
                      captured[i].robot = captured[j].robot
               PROVE  captured[i].header < captured[j].header
    BY DEF HeaderIdsIncrease
  <2>1. CapturedInv
    BY DEF AnswerInvariant, CalmInv
  <2>2. captured[i] \in Said /\ captured[i] # Control
    BY <2>1 DEF CapturedInv
  <2>3. captured[i].topic # "control"
    BY <2>2 DEF Said
  <2> QED
    BY <2>1, <2>3 DEF CapturedInv, Rising, SameStream
<1> QED
  BY <1>1, AnswerInvariantHolds, PTL

(* A bridge that ends well leaves a sealed capture with every order: the        *)
(* completion waits on the fleet's link until it is served, and a run that      *)
(* loses nothing publishes less than the recorder's limits.                    *)
THEOREM SealedAnswered == Spec => []SealedIsAnswered
<1>1. AnswerInvariant /\ OrdersAreSealed => SealedIsAnswered
  <2> SUFFICES ASSUME AnswerInvariant, pc = "done", Calm, link[<<Fleet, 1>>] = << >>
               PROVE  Sealed
    BY DEF SealedIsAnswered
  <2>1. AnswerInv /\ ~Announced
    BY DEF AnswerInvariant, CalmInv, Announced, FleetLink
  <2> QED
    BY <2>1 DEF AnswerInv, Closing, Sealed
<1> QED
  BY <1>1, AnswerInvariantHolds, OrdersSealed, PTL
=============================================================================
