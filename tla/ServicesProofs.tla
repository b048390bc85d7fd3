---------------------------- MODULE ServicesProofs ----------------------------
(***************************************************************************)
(* The safety of what serves requests, for every number of requests,       *)
(* clients, streams and providers: the chat requests and their permits,    *)
(* the WebSocket connections and their streams, and the circuit breakers   *)
(* of a chain of providers.                                                *)
(***************************************************************************)
EXTENDS MCServices, FiniteSetTheorems, SequenceTheorems, TLAPS

-----------------------------------------------------------------------------
(* Chat requests.                                                          *)

Statuses == {0, 200, 400, 429, 500, 503, 504}

Places == Stages \cup {"absent", "arrived", "leaving", "returning", "answered"}

Phases == {"binding", "serving", "stopping", "closed", "failed"}

Servers == [phase : Phases, bound : 0..2, handler : BOOLEAN, valid : BOOLEAN]

ServeTypes ==
  /\ server \in Servers
  /\ drain \in {"idle", "waiting", "empty", "timed_out"}
  /\ permits \in Nat /\ active \in Int
  /\ req \in [Request -> [pc : Places, answer : Statuses]]
  /\ record \in [Request -> [start : BOOLEAN, end : BOOLEAN, memory : BOOLEAN, said : 0..2]]
  /\ discord \in [started : BOOLEAN, connected : BOOLEAN, armed : BOOLEAN,
                  shard : {"off", "connecting", "up", "ended"}]

(* The requests that hold a permit. *)
Taken == Holders \cup {r \in Request : req[r].pc = "returning"}

PermitsFit ==
  /\ IsFiniteSet(Taken)
  /\ permits + Cardinality(Taken) = MaxTasks
  /\ active = Cardinality(Holders)

(* What is on record at each stage, and which requests have no answer yet. *)
OnRecord(r) ==
  /\ req[r].pc \in Stages \cup {"absent", "arrived"} => req[r].answer = 0
  /\ req[r].pc \in Stages \ {"logging"} => record[r].start
  /\ req[r].pc = "working" => record[r].said = 1
  /\ req[r].pc \in {"saving", "closing"} => record[r].said = 2
  /\ req[r].pc = "closing" => record[r].memory
  /\ req[r].answer = 200 => record[r] = [start |-> TRUE, end |-> TRUE, memory |-> TRUE, said |-> 2]

RecordFits == \A r \in Request : OnRecord(r)

ClosedFits == server.phase = "closed" => InFlight = {}

ServeFits == ServeTypes /\ PermitsFit /\ RecordFits /\ ClosedFits

(* A request that moves is in the sets its new place says, the others stay. *)
LEMMA RequestMoves ==
  ASSUME ServeTypes, NEW r \in Request, NEW pc \in Places, NEW answer \in Statuses,
         req' = [req EXCEPT ![r] = [pc |-> pc, answer |-> answer]]
  PROVE  /\ req' \in [Request -> [pc : Places, answer : Statuses]]
         /\ req'[r].pc = pc /\ req'[r].answer = answer
         /\ \A q \in Request \ {r} : req'[q] = req[q]
         /\ Holders' = IF pc \in Stages \cup {"leaving"} THEN Holders \cup {r} ELSE Holders \ {r}
         /\ Taken' = IF pc \in Stages \cup {"leaving", "returning"} THEN Taken \cup {r} ELSE Taken \ {r}
         /\ InFlight' = IF pc \in {"absent", "answered"} THEN InFlight \ {r} ELSE InFlight \cup {r}
<1>1. /\ req' \in [Request -> [pc : Places, answer : Statuses]]
      /\ req'[r].pc = pc /\ req'[r].answer = answer
      /\ \A q \in Request \ {r} : req'[q] = req[q]
  BY DEF ServeTypes
<1>2. \A q \in Request : q \in Holders' <=> req'[q].pc \in Stages \cup {"leaving"}
  BY DEF Holders, Stages
<1>3. \A q \in Request : q \in Taken' <=> req'[q].pc \in Stages \cup {"leaving", "returning"}
  BY <1>2 DEF Taken
<1>4. \A q \in Request : q \in Holders <=> req[q].pc \in Stages \cup {"leaving"}
  BY DEF Holders
<1>5. \A q \in Request : q \in Taken <=> req[q].pc \in Stages \cup {"leaving", "returning"}
  BY <1>4 DEF Taken
<1>6. /\ Holders \subseteq Request /\ Holders' \subseteq Request
      /\ Taken \subseteq Request /\ Taken' \subseteq Request
  BY DEF Holders, Taken
<1>7. Holders' = IF pc \in Stages \cup {"leaving"} THEN Holders \cup {r} ELSE Holders \ {r}
  BY <1>1, <1>2, <1>4, <1>6
<1>8. Taken' = IF pc \in Stages \cup {"leaving", "returning"} THEN Taken \cup {r} ELSE Taken \ {r}
  BY <1>1, <1>3, <1>5, <1>6
<1>9. InFlight' = IF pc \in {"absent", "answered"} THEN InFlight \ {r} ELSE InFlight \cup {r}
  BY <1>1 DEF InFlight
<1>10. QED
  BY <1>1, <1>7, <1>8, <1>9

LEMMA StageSets ==
  ASSUME ServeTypes, NEW r \in Request, NEW stage \in Places, Stage(r, stage)
  PROVE  /\ req' = [req EXCEPT ![r] = [pc |-> stage, answer |-> req[r].answer]]
         /\ req[r].answer \in Statuses
<1>1. req[r] \in [pc : Places, answer : Statuses]
  BY DEF ServeTypes
<1>2. [req[r] EXCEPT !.pc = stage] = [pc |-> stage, answer |-> req[r].answer]
  BY <1>1
<1>3. req' = [req EXCEPT ![r] = [req[r] EXCEPT !.pc = stage]]
  BY DEF Stage
<1>4. QED
  BY <1>1, <1>2, <1>3

LEMMA LeaveMoves ==
  ASSUME ServeTypes, NEW r \in Request, NEW status \in Statuses, Leave(r, status)
  PROVE  /\ req' \in [Request -> [pc : Places, answer : Statuses]]
         /\ req'[r].pc = "leaving" /\ req'[r].answer = status
         /\ \A q \in Request \ {r} : req'[q] = req[q]
         /\ Holders' = Holders \cup {r} /\ Taken' = Taken \cup {r}
<1>1. req' = [req EXCEPT ![r] = [pc |-> "leaving", answer |-> status]] /\ "leaving" \in Places
  BY DEF Leave, Places
<1>2. QED
  BY <1>1, RequestMoves

(* A request that takes its permit, or gives it back, is counted once. *)
LEMMA OneMore ==
  ASSUME NEW S, IsFiniteSet(S), NEW r
  PROVE  /\ IsFiniteSet(S \cup {r}) /\ IsFiniteSet(S \ {r})
         /\ Cardinality(S) \in Nat
         /\ r \notin S => Cardinality(S \cup {r}) = Cardinality(S) + 1
         /\ r \in S => Cardinality(S \ {r}) = Cardinality(S) - 1 /\ S \cup {r} = S
         /\ r \notin S => S \ {r} = S
BY FS_AddElement, FS_RemoveElement, FS_CardinalityType

LEMMA ServeInitial == ServeInit => ServeFits
<1> SUFFICES ASSUME ServeInit PROVE ServeFits
  OBVIOUS
<1>1. ServeTypes
  BY ServeAssumption DEF ServeInit, ServeTypes, Servers, Phases, NoRecord, Places, Statuses, Stages, ValidListener
<1>2. Holders = {} /\ Taken = {}
  BY DEF ServeInit, Holders, Taken, Stages
<1>3. PermitsFit
  BY <1>2, FS_EmptySet, ServeAssumption DEF ServeInit, PermitsFit
<1>4. RecordFits
  BY DEF ServeInit, RecordFits, OnRecord, Stages
<1>5. ClosedFits
  BY DEF ServeInit, ClosedFits
<1>6. QED
  BY <1>1, <1>3, <1>4, <1>5 DEF ServeFits

LEMMA FullRecord ==
  ASSUME NEW left \in [start : BOOLEAN, end : BOOLEAN, memory : BOOLEAN, said : 0..2],
         left.start, left.end, left.memory, left.said = 2
  PROVE  left = [start |-> TRUE, end |-> TRUE, memory |-> TRUE, said |-> 2]
OBVIOUS

(***************************************************************************)
(* A step of a request from its place and with its permit as before, to    *)
(* another place with the same one.                                        *)
(***************************************************************************)
LEMMA PermitsKept ==
  ASSUME ServeTypes, PermitsFit, NEW r \in Request, NEW pc \in Places, NEW answer \in Statuses,
         req' = [req EXCEPT ![r] = [pc |-> pc, answer |-> answer]],
         pc \in Stages \cup {"leaving"} <=> req[r].pc \in Stages \cup {"leaving"},
         pc = "returning" <=> req[r].pc = "returning",
         UNCHANGED <<permits, active>>
  PROVE  PermitsFit'
<1>1. r \in Holders <=> req[r].pc \in Stages \cup {"leaving"}
  BY DEF Holders
<1>2. r \in Taken <=> req[r].pc \in Stages \cup {"leaving", "returning"}
  BY <1>1 DEF Taken
<1>0. /\ Holders' = IF pc \in Stages \cup {"leaving"} THEN Holders \cup {r} ELSE Holders \ {r}
      /\ Taken' = IF pc \in Stages \cup {"leaving", "returning"} THEN Taken \cup {r} ELSE Taken \ {r}
  BY RequestMoves
<1>3. Holders' = Holders
  BY <1>0, <1>1
<1>4. Taken' = Taken
  BY <1>0, <1>2
<1>5. QED
  BY <1>3, <1>4 DEF PermitsFit

(* What a step of r leaves to be shown of the record. *)
LEMMA RecordKept ==
  ASSUME ServeTypes, RecordFits, NEW r \in Request,
         \A q \in Request \ {r} : req'[q] = req[q] /\ record'[q] = record[q],
         OnRecord(r)'
  PROVE  RecordFits'
BY DEF RecordFits, OnRecord

LEMMA StepsFit ==
  ASSUME ServeFits, NEW r \in Request, NEW pc \in Places, NEW answer \in Statuses,
         req' = [req EXCEPT ![r] = [pc |-> pc, answer |-> answer]],
         pc \in Stages \cup {"leaving"} <=> req[r].pc \in Stages \cup {"leaving"},
         pc = "returning" <=> req[r].pc = "returning",
         server.phase # "closed",
         UNCHANGED <<server, drain, permits, active, discord>>,
         record' \in [Request -> [start : BOOLEAN, end : BOOLEAN, memory : BOOLEAN, said : 0..2]],
         \A q \in Request \ {r} : record'[q] = record[q],
         OnRecord(r)'
  PROVE  ServeFits'
<1>1. req' \in [Request -> [pc : Places, answer : Statuses]]
  BY DEF ServeFits, ServeTypes
<1>2. ServeTypes'
  BY <1>1 DEF ServeFits, ServeTypes
<1>3. PermitsFit'
  BY PermitsKept DEF ServeFits
<1>4. \A q \in Request \ {r} : req'[q] = req[q]
  BY DEF ServeFits, ServeTypes
<1>5. RecordFits'
  BY <1>4, RecordKept DEF ServeFits
<1>6. ClosedFits'
  BY DEF ClosedFits
<1>7. QED
  BY <1>2, <1>3, <1>5, <1>6 DEF ServeFits

(* A request on its way keeps the servers from ending. *)
LEMMA NotClosed ==
  ASSUME ServeFits, NEW r \in Request, req[r].pc \notin {"absent", "answered"}
  PROVE  server.phase # "closed"
BY DEF ServeFits, ClosedFits, InFlight

(* The handler leaves at any stage with an answer that claims nothing.     *)
LEMMA LeavingFits ==
  ASSUME ServeFits, NEW r \in Request, NEW status \in Statuses \ {200},
         req[r].pc \in Stages, Leave(r, status),
         UNCHANGED <<server, drain, permits, active, discord, record>>
  PROVE  ServeFits'
<1>1. req' = [req EXCEPT ![r] = [pc |-> "leaving", answer |-> status]]
  BY DEF Leave
<1>2. "leaving" \in Places /\ "leaving" \notin Stages /\ req[r].pc \notin {"absent", "answered", "returning"}
  BY DEF Places, Stages
<1>3. server.phase # "closed"
  BY <1>2, NotClosed
<1>4. req'[r].pc = "leaving" /\ req'[r].answer = status
  BY <1>1 DEF ServeFits, ServeTypes
<1>5. OnRecord(r)'
  BY <1>4, <1>2 DEF OnRecord, Stages
<1>6. record' \in [Request -> [start : BOOLEAN, end : BOOLEAN, memory : BOOLEAN, said : 0..2]]
  BY DEF ServeFits, ServeTypes
<1>7. QED
  BY <1>1, <1>2, <1>3, <1>5, <1>6, StepsFit

(* And before it has a permit.                                             *)
LEMMA RefusalFits ==
  ASSUME ServeFits, NEW r \in Request, NEW status \in Statuses \ {200},
         req[r].pc = "arrived", Answer(r, status),
         UNCHANGED <<server, drain, permits, active, discord, record>>
  PROVE  ServeFits'
<1>1. req' = [req EXCEPT ![r] = [pc |-> "answered", answer |-> status]]
  BY DEF Answer
<1>2. "answered" \in Places /\ "answered" \notin Stages /\ "arrived" \notin Stages
  BY DEF Places, Stages
<1>3. server.phase # "closed"
  BY <1>2, NotClosed
<1>4. req'[r].pc = "answered" /\ req'[r].answer = status
  BY <1>1 DEF ServeFits, ServeTypes
<1>5. OnRecord(r)'
  BY <1>4, <1>2 DEF OnRecord, Stages
<1>6. record' \in [Request -> [start : BOOLEAN, end : BOOLEAN, memory : BOOLEAN, said : 0..2]]
  BY DEF ServeFits, ServeTypes
<1>7. QED
  BY <1>1, <1>2, <1>3, <1>5, <1>6, StepsFit

(* From one stage to the next, with what the stage puts on record.         *)
LEMMA StageFits ==
  ASSUME ServeFits, NEW r \in Request, NEW stage \in Stages,
         req[r].pc \in Stages, Stage(r, stage),
         UNCHANGED <<server, drain, permits, active, discord>>,
         NEW left \in [start : BOOLEAN, end : BOOLEAN, memory : BOOLEAN, said : 0..2],
         record' = [record EXCEPT ![r] = left],
         stage # "logging" => left.start,
         stage = "working" => left.said = 1,
         stage \in {"saving", "closing"} => left.said = 2,
         stage = "closing" => left.memory
  PROVE  ServeFits'
<1>1. /\ req' = [req EXCEPT ![r] = [pc |-> stage, answer |-> req[r].answer]]
      /\ req[r].answer \in Statuses /\ stage \in Places
  BY StageSets DEF ServeFits, Places
<1>2. req[r].pc \notin {"absent", "answered", "returning"} /\ stage # "returning"
  BY DEF Stages
<1>3. server.phase # "closed"
  BY <1>2, NotClosed
<1>4. req[r].answer = 0
  BY DEF ServeFits, RecordFits, OnRecord
<1>5. req'[r].pc = stage /\ req'[r].answer = 0
  BY <1>1, <1>4 DEF ServeFits, ServeTypes
<1>6. /\ record' \in [Request -> [start : BOOLEAN, end : BOOLEAN, memory : BOOLEAN, said : 0..2]]
      /\ record'[r] = left
      /\ \A q \in Request \ {r} : record'[q] = record[q]
  BY DEF ServeFits, ServeTypes
<1>7. OnRecord(r)'
  BY <1>5, <1>6 DEF OnRecord
<1>8. QED
  BY <1>1, <1>2, <1>3, <1>6, <1>7, StepsFit


LEMMA RequestStep ==
  ASSUME ServeFits, NEW r \in Request, Arrive(r) \/ Handler(r) \/ HangUp(r)
  PROVE  ServeFits'
<1>0. record[r] \in [start : BOOLEAN, end : BOOLEAN, memory : BOOLEAN, said : 0..2]
  BY DEF ServeFits, ServeTypes
<1>1. OnRecord(r)
  BY DEF ServeFits, RecordFits
<1>2. CASE Arrive(r)
  <2>1. req[r].pc = "absent" /\ server.phase = "serving" /\ Stage(r, "arrived")
    BY <1>2 DEF Arrive
  <2>2. "arrived" \in Places /\ "arrived" \notin Stages \cup {"leaving", "returning"}
        /\ "absent" \notin Stages \cup {"leaving", "returning"}
    BY DEF Places, Stages
  <2>3. /\ req' = [req EXCEPT ![r] = [pc |-> "arrived", answer |-> req[r].answer]]
        /\ req[r].answer \in Statuses
    BY <2>1, <2>2, StageSets DEF ServeFits
  <2>4. req[r].answer = 0
    BY <1>1, <2>1 DEF OnRecord
  <2>5. req'[r].pc = "arrived" /\ req'[r].answer = 0
    BY <2>3, <2>4 DEF ServeFits, ServeTypes
  <2>6. OnRecord(r)'
    BY <2>5, <2>2 DEF OnRecord
  <2>7. UNCHANGED <<server, drain, permits, active, record, discord>>
    BY <1>2 DEF Arrive, bot
  <2>8. record' \in [Request -> [start : BOOLEAN, end : BOOLEAN, memory : BOOLEAN, said : 0..2]]
    BY <2>7 DEF ServeFits, ServeTypes
  <2>9. QED
    BY <2>1, <2>2, <2>3, <2>6, <2>7, <2>8, StepsFit
<1>3. CASE Reject(r) \/ TurnAway(r)
  <2>1. 400 \in Statuses \ {200} /\ 429 \in Statuses \ {200}
    BY DEF Statuses
  <2>2. QED
    BY <1>3, <2>1, RefusalFits DEF Reject, TurnAway, bot
<1>4. CASE Admit(r)
  <2>1. /\ req[r].pc = "arrived" /\ permits > 0
        /\ permits' = permits - 1 /\ active' = active + 1
        /\ UNCHANGED <<server, drain, record, discord>>
    BY <1>4 DEF Admit, bot
  <2>2. /\ "logging" \in Places /\ "leaving" \in Places /\ 503 \in Statuses /\ ServeTypes
        /\ req[r].answer = 0 /\ req[r].answer \in Statuses
    BY <1>1, <2>1 DEF Places, Stages, Statuses, ServeFits, OnRecord
  <2>3. req'[r].pc \in {"logging", "leaving"} /\ req'[r].answer \in {0, 503}
        /\ (req'[r].pc = "logging" => req'[r].answer = 0)
        /\ req' \in [Request -> [pc : Places, answer : Statuses]]
        /\ (\A q \in Request \ {r} : req'[q] = req[q])
        /\ Holders' = Holders \cup {r}
        /\ Taken' = Taken \cup {r}
    <3>1. CASE server.handler
      <4>1. req' = [req EXCEPT ![r] = [pc |-> "logging", answer |-> req[r].answer]]
        BY <1>4, <2>2, <3>1, StageSets DEF Admit
      <4>2. "logging" \in Stages
        BY DEF Stages
      <4>3. QED
        BY <2>2, <4>1, <4>2, RequestMoves
    <3>2. CASE ~server.handler
      <4>1. Leave(r, 503)
        BY <1>4, <3>2 DEF Admit
      <4>2. QED
        BY <2>2, <4>1, LeaveMoves
    <3>3. QED
      BY <3>1, <3>2
  <2>4. /\ req'[r].pc \in {"logging", "leaving"} /\ req'[r].answer \in {0, 503}
        /\ req'[r].pc = "logging" => req'[r].answer = 0
    BY <2>3
  <2>5. /\ Holders' = Holders \cup {r} /\ r \notin Holders
        /\ Taken' = Taken \cup {r} /\ r \notin Taken
    BY <2>1, <2>3 DEF Holders, Taken, Stages
  <2>6. IsFiniteSet(Taken) /\ IsFiniteSet(Holders)
    <3>1. Holders \subseteq Taken
      BY DEF Taken
    <3>2. QED
      BY <3>1, FS_Subset DEF ServeFits, PermitsFit
  <2>7. PermitsFit'
    <3>1. /\ IsFiniteSet(Taken') /\ Cardinality(Taken) \in Nat
          /\ Cardinality(Taken') = Cardinality(Taken) + 1
      BY <2>5, <2>6, OneMore
    <3>2. Cardinality(Holders) \in Nat /\ Cardinality(Holders') = Cardinality(Holders) + 1
      BY <2>5, <2>6, OneMore
    <3>3. QED
      BY <2>1, <3>1, <3>2, ServeAssumption DEF ServeFits, PermitsFit, ServeTypes
  <2>8. ServeTypes'
    BY <2>1, <2>3 DEF ServeFits, ServeTypes
  <2>9. OnRecord(r)'
    BY <2>4 DEF OnRecord, Stages
  <2>10. RecordFits'
    BY <2>1, <2>3, <2>9, RecordKept DEF ServeFits
  <2>11. ClosedFits'
    BY <2>1, NotClosed DEF ClosedFits
  <2>12. QED
    BY <2>7, <2>8, <2>10, <2>11 DEF ServeFits
<1>5. CASE StageFails(r) \/ Deadline(r)
  <2>1. 500 \in Statuses \ {200} /\ 504 \in Statuses \ {200}
    BY DEF Statuses
  <2>2. QED
    BY <1>5, <2>1, LeavingFits DEF StageFails, Deadline, bot
<1>6. CASE HangUp(r)
  <2>1. 0 \in Statuses \ {200} /\ "arrived" \notin Stages
    BY DEF Statuses, Stages
  <2>2. CASE req[r].pc = "arrived"
    BY <1>6, <2>1, <2>2, RefusalFits DEF HangUp, bot
  <2>3. CASE req[r].pc \in Stages
    BY <1>6, <2>1, <2>3, LeavingFits DEF HangUp, bot
  <2>4. QED
    BY <1>6, <2>2, <2>3 DEF HangUp
<1>7. CASE LogStart(r)
  <2> DEFINE left == [record[r] EXCEPT !.start = TRUE]
  <2>1. /\ left \in [start : BOOLEAN, end : BOOLEAN, memory : BOOLEAN, said : 0..2]
        /\ left.start
    BY <1>0
  <2>2. req[r].pc \in Stages /\ "recalling" \in Stages
    BY <1>7 DEF LogStart, Stages
  <2>3. /\ Stage(r, "recalling") /\ record' = [record EXCEPT ![r] = left]
        /\ UNCHANGED <<server, drain, permits, active, discord>>
    BY <1>7 DEF LogStart, bot
  <2> HIDE DEF left
  <2>4. QED
    BY <2>1, <2>2, <2>3, StageFits
<1>8. CASE Recall(r)
  <2> DEFINE left == [record[r] EXCEPT !.said = 1]
  <2>1. req[r].pc \in Stages /\ "working" \in Stages /\ record[r].start
    BY <1>1, <1>8 DEF Recall, Stages, OnRecord
  <2>2. /\ left \in [start : BOOLEAN, end : BOOLEAN, memory : BOOLEAN, said : 0..2]
        /\ left.start /\ left.said = 1
    BY <1>0, <2>1
  <2>3. /\ Stage(r, "working") /\ record' = [record EXCEPT ![r] = left]
        /\ UNCHANGED <<server, drain, permits, active, discord>>
    BY <1>8 DEF Recall, bot
  <2> HIDE DEF left
  <2>4. QED
    BY <2>1, <2>2, <2>3, StageFits
<1>9. CASE Work(r)
  <2> DEFINE left == [record[r] EXCEPT !.said = 2]
  <2>1. req[r].pc \in Stages /\ "saving" \in Stages /\ record[r].start
    BY <1>1, <1>9 DEF Work, Stages, OnRecord
  <2>2. /\ left \in [start : BOOLEAN, end : BOOLEAN, memory : BOOLEAN, said : 0..2]
        /\ left.start /\ left.said = 2
    BY <1>0, <2>1
  <2>3. /\ Stage(r, "saving") /\ record' = [record EXCEPT ![r] = left]
        /\ UNCHANGED <<server, drain, permits, active, discord>>
    BY <1>9 DEF Work, bot
  <2> HIDE DEF left
  <2>4. QED
    BY <2>1, <2>2, <2>3, StageFits
<1>10. CASE Save(r)
  <2> DEFINE left == [record[r] EXCEPT !.memory = TRUE]
  <2>1. /\ req[r].pc \in Stages /\ "closing" \in Stages
        /\ record[r].start /\ record[r].said = 2
    BY <1>1, <1>10 DEF Save, Stages, OnRecord
  <2>2. /\ left \in [start : BOOLEAN, end : BOOLEAN, memory : BOOLEAN, said : 0..2]
        /\ left.start /\ left.said = 2 /\ left.memory
    BY <1>0, <2>1
  <2>3. /\ Stage(r, "closing") /\ record' = [record EXCEPT ![r] = left]
        /\ UNCHANGED <<server, drain, permits, active, discord>>
    BY <1>10 DEF Save, bot
  <2> HIDE DEF left
  <2>4. QED
    BY <2>1, <2>2, <2>3, StageFits
<1>11. CASE LogEnd(r)
  <2> DEFINE left == [record[r] EXCEPT !.end = TRUE]
  <2>1. /\ req[r].pc = "closing"
        /\ record[r].start /\ record[r].said = 2 /\ record[r].memory
    BY <1>1, <1>11 DEF LogEnd, Stages, OnRecord
  <2>2. /\ left = [start |-> TRUE, end |-> TRUE, memory |-> TRUE, said |-> 2]
        /\ left \in [start : BOOLEAN, end : BOOLEAN, memory : BOOLEAN, said : 0..2]
    <3>1. left \in [start : BOOLEAN, end : BOOLEAN, memory : BOOLEAN, said : 0..2]
      BY <1>0
    <3>2. left.start /\ left.end /\ left.memory /\ left.said = 2
      BY <1>0, <2>1
    <3> HIDE DEF left
    <3>3. QED
      BY <3>1, <3>2, FullRecord
  <2>3. /\ req' = [req EXCEPT ![r] = [pc |-> "leaving", answer |-> 200]]
        /\ record' = [record EXCEPT ![r] = left]
        /\ UNCHANGED <<server, drain, permits, active, discord>>
    BY <1>11 DEF LogEnd, Leave, bot
  <2> HIDE DEF left
  <2>4. /\ "leaving" \in Places /\ "leaving" \notin Stages /\ 200 \in Statuses
        /\ req[r].pc \in Stages /\ req[r].pc \notin {"absent", "answered", "returning"}
    BY <2>1 DEF Places, Stages, Statuses
  <2>5. server.phase # "closed"
    BY <2>4, NotClosed
  <2>6. /\ req'[r].pc = "leaving"
        /\ record' \in [Request -> [start : BOOLEAN, end : BOOLEAN, memory : BOOLEAN, said : 0..2]]
        /\ record'[r] = left
        /\ \A q \in Request \ {r} : record'[q] = record[q]
    BY <2>2, <2>3 DEF ServeFits, ServeTypes
  <2>7. OnRecord(r)'
    BY <2>2, <2>4, <2>6 DEF OnRecord, Stages
  <2>8. /\ "leaving" \in Stages \cup {"leaving"} <=> req[r].pc \in Stages \cup {"leaving"}
        /\ "leaving" = "returning" <=> req[r].pc = "returning"
    BY <2>4
  <2>9. UNCHANGED <<server, drain, permits, active, discord>>
    BY <2>3
  <2>10. QED
    BY <2>3, <2>4, <2>5, <2>6, <2>7, <2>8, <2>9, StepsFit
<1>12. CASE DropGuard(r)
  <2>1. /\ req[r].pc = "leaving" /\ active' = active - 1 /\ Stage(r, "returning")
        /\ UNCHANGED <<server, drain, permits, record, discord>>
    BY <1>12 DEF DropGuard, bot
  <2>2. "returning" \in Places /\ "returning" \notin Stages
    BY DEF Places, Stages
  <2>3. /\ req' = [req EXCEPT ![r] = [pc |-> "returning", answer |-> req[r].answer]]
        /\ req[r].answer \in Statuses
    BY <2>1, <2>2, StageSets DEF ServeFits
  <2>4. /\ req' \in [Request -> [pc : Places, answer : Statuses]]
        /\ req'[r].pc = "returning" /\ req'[r].answer = req[r].answer
        /\ \A q \in Request \ {r} : req'[q] = req[q]
        /\ Holders' = Holders \ {r} /\ Taken' = Taken \cup {r}
    BY <2>2, <2>3, RequestMoves DEF ServeFits
  <2>5. r \in Holders /\ r \in Taken
    BY <2>1 DEF Holders, Taken
  <2>6. Taken' = Taken /\ IsFiniteSet(Holders)
    <3>1. Holders \subseteq Taken
      BY DEF Taken
    <3>2. QED
      BY <2>4, <2>5, <3>1, FS_Subset DEF ServeFits, PermitsFit
  <2>7. PermitsFit'
    BY <2>1, <2>4, <2>5, <2>6, OneMore DEF ServeFits, PermitsFit
  <2>8. ServeTypes'
    BY <2>1, <2>4 DEF ServeFits, ServeTypes
  <2>9. OnRecord(r)'
    BY <1>1, <2>1, <2>2, <2>4 DEF OnRecord
  <2>10. RecordFits'
    BY <2>1, <2>4, <2>9, RecordKept DEF ServeFits
  <2>11. ClosedFits'
    BY <2>1, NotClosed DEF ClosedFits
  <2>12. QED
    BY <2>7, <2>8, <2>10, <2>11 DEF ServeFits
<1>13. CASE DropPermit(r)
  <2>1. /\ req[r].pc = "returning" /\ permits' = permits + 1 /\ Stage(r, "answered")
        /\ UNCHANGED <<server, drain, active, record, discord>>
    BY <1>13 DEF DropPermit, bot
  <2>2. "answered" \in Places /\ "answered" \notin Stages /\ "returning" \notin Stages
    BY DEF Places, Stages
  <2>3. /\ req' = [req EXCEPT ![r] = [pc |-> "answered", answer |-> req[r].answer]]
        /\ req[r].answer \in Statuses
    BY <2>1, <2>2, StageSets DEF ServeFits
  <2>4. /\ req' \in [Request -> [pc : Places, answer : Statuses]]
        /\ req'[r].pc = "answered" /\ req'[r].answer = req[r].answer
        /\ \A q \in Request \ {r} : req'[q] = req[q]
        /\ Holders' = Holders \ {r} /\ Taken' = Taken \ {r}
    BY <2>2, <2>3, RequestMoves DEF ServeFits
  <2>5. r \notin Holders /\ r \in Taken
    BY <2>1, <2>2 DEF Holders, Taken
  <2>6. Holders' = Holders
    BY <2>4, <2>5
  <2>7. PermitsFit'
    <3>1. IsFiniteSet(Taken)
      BY DEF ServeFits, PermitsFit
    <3>2. /\ IsFiniteSet(Taken') /\ Cardinality(Taken) \in Nat
          /\ Cardinality(Taken') = Cardinality(Taken) - 1
      BY <2>4, <2>5, <3>1, OneMore
    <3>3. QED
      BY <2>1, <2>6, <3>2, ServeAssumption DEF ServeFits, PermitsFit, ServeTypes
  <2>8. ServeTypes'
    BY <2>1, <2>4 DEF ServeFits, ServeTypes
  <2>9. OnRecord(r)'
    BY <1>1, <2>1, <2>2, <2>4 DEF OnRecord
  <2>10. RecordFits'
    BY <2>1, <2>4, <2>9, RecordKept DEF ServeFits
  <2>11. ClosedFits'
    BY <2>1, NotClosed DEF ClosedFits
  <2>12. QED
    BY <2>7, <2>8, <2>10, <2>11 DEF ServeFits
<1>14. QED
  BY <1>2, <1>3, <1>4, <1>5, <1>6, <1>7, <1>8, <1>9, <1>10, <1>11, <1>12, <1>13 DEF Handler


LEMMA ServersMove ==
  ASSUME NEW s \in Servers, NEW phase \in Phases, NEW bound \in 0..2
  PROVE  /\ [s EXCEPT !.phase = phase, !.bound = bound] \in Servers
         /\ [s EXCEPT !.phase = phase, !.bound = bound].phase = phase
<1>1. [s EXCEPT !.phase = phase, !.bound = bound] \in Servers
  BY DEF Servers
<1>2. [s EXCEPT !.phase = phase, !.bound = bound].phase = phase
  BY DEF Servers
<1>3. QED
  BY <1>1, <1>2

(* The servers and the Discord gateway leave the requests alone.           *)
LEMMA ServersStep ==
  ASSUME ServeFits, Server \/ Signal \/ StartDiscord \/ BotReady \/ Shards
                    \/ (\E k \in Commands : Command(k)) \/ UNCHANGED servevars
  PROVE  ServeFits'
<1>0. /\ server \in Servers /\ 0 \in 0..2 /\ 2 \in 0..2
      /\ "failed" \in Phases /\ "serving" \in Phases /\ "closed" \in Phases
  BY DEF ServeFits, ServeTypes, Phases
<1>1. UNCHANGED <<permits, active, req, record>>
  BY DEF Server, Bind, Drained, ServersEnd, StopDiscord, Signal, StartDiscord, BotReady,
         Shards, ShutDownShards, ShardsEnded, Command, Interaction, CannotStart,
         Acknowledge, NoThread, Thread, TaskEnds, servevars, http
<1>2. PermitsFit' /\ RecordFits'
  BY <1>1 DEF ServeFits, PermitsFit, Taken, Holders, RecordFits, OnRecord
<1>3. InFlight' = InFlight
  BY <1>1 DEF InFlight
<1>4. CASE Bind
  <2>1. /\ server'.phase \in {"failed", "serving", "binding"}
        /\ server' \in Servers
    <3>2. CASE server' = [server EXCEPT !.phase = "failed", !.bound = 0]
      BY <1>0, <3>2, ServersMove, Zenon
    <3>3. CASE server' = [server EXCEPT !.phase = "serving", !.bound = 2]
      <4>1. server' \in Servers /\ server'.phase = "serving"
        BY <1>0, <3>3, ServersMove, Zenon
      <4>2. QED
        BY <4>1
    <3>4. CASE server.phase = "binding" /\ server' = [server EXCEPT !.bound = 1]
      BY <1>0, <3>4 DEF Servers, Phases
    <3>5. QED
      BY <1>4, <3>2, <3>3, <3>4 DEF Bind
  <2>2. QED
    BY <1>1, <1>2, <1>4, <2>1 DEF Bind, bot, ServeFits, ServeTypes, ClosedFits
<1>5. CASE Drained
  BY <1>1, <1>2, <1>3, <1>5 DEF Drained, bot, ServeFits, ServeTypes, ClosedFits
<1>6. CASE ServersEnd
  <2>1. server' \in Servers
    <3>1. server' = [server EXCEPT !.phase = "closed", !.bound = 0]
      BY <1>6 DEF ServersEnd
    <3>2. QED
      BY <3>1, <1>0, ServersMove, Zenon
  <2>2. QED
    BY <1>1, <1>2, <1>3, <1>6, <2>1 DEF ServersEnd, bot, ServeFits, ServeTypes, ClosedFits
<1>7. CASE Signal
  <2>1. /\ server' \in Servers
        /\ server'.phase = "stopping"
    BY <1>7 DEF Signal, ServeFits, ServeTypes, Servers, Phases
  <2>2. QED
    BY <1>1, <1>2, <1>7, <2>1 DEF Signal, bot, ServeFits, ServeTypes, ClosedFits
<1>8. CASE StopDiscord \/ StartDiscord \/ BotReady \/ Shards
  <2>1. discord' \in [started : BOOLEAN, connected : BOOLEAN, armed : BOOLEAN,
                      shard : {"off", "connecting", "up", "ended"}]
    BY <1>8 DEF StopDiscord, StartDiscord, BotReady, Shards, ShutDownShards, ShardsEnded,
                ServeFits, ServeTypes
  <2>2. UNCHANGED <<server, drain>>
    BY <1>8 DEF StopDiscord, StartDiscord, BotReady, Shards, ShutDownShards, ShardsEnded, http
  <2>3. QED
    BY <1>1, <1>2, <1>3, <2>1, <2>2 DEF ServeFits, ServeTypes, ClosedFits
<1>9. CASE (\E k \in Commands : Command(k)) \/ UNCHANGED servevars
  <2>1. UNCHANGED <<server, drain, discord>>
    BY <1>9 DEF Command, Interaction, CannotStart, Acknowledge, NoThread, Thread, TaskEnds,
                servevars, http
  <2>2. QED
    BY <1>1, <1>2, <1>3, <2>1 DEF ServeFits, ServeTypes, ClosedFits
<1>10. QED
  BY <1>4, <1>5, <1>6, <1>7, <1>8, <1>9 DEF Server

LEMMA ServeInductive == ServeFits /\ [ServeNext]_servevars => ServeFits'
<1> SUFFICES ASSUME ServeFits, [ServeNext]_servevars PROVE ServeFits'
  OBVIOUS
<1>1. CASE \E r \in Request : Arrive(r) \/ Handler(r) \/ HangUp(r)
  BY <1>1, RequestStep
<1>2. CASE Server \/ Signal \/ StartDiscord \/ BotReady \/ Shards
           \/ (\E k \in Commands : Command(k)) \/ UNCHANGED servevars
  BY <1>2, ServersStep
<1>3. QED
  BY <1>1, <1>2 DEF ServeNext

(* The check of a command, condition by condition, is the authorization of *)
(* the configuration: this is about no state.                              *)
LEMMA Authorized == OnlyPrincipals
BY DEF OnlyPrincipals, Config, Principal, ValidAuthorization, CheckAdminPermission, PrincipalIsAuthorized

(* What the invariant says to those who ask.                               *)
LEMMA ServeSound ==
  ServeFits => ServeTypeOK /\ SuccessIsOnRecord /\ PermitsAccounted /\ ShutdownIsGraceful
<1> SUFFICES ASSUME ServeFits
             PROVE  ServeTypeOK /\ SuccessIsOnRecord /\ PermitsAccounted /\ ShutdownIsGraceful
  OBVIOUS
<1>1. /\ IsFiniteSet(Taken) /\ Holders \subseteq Taken
      /\ permits + Cardinality(Taken) = MaxTasks /\ active = Cardinality(Holders)
  BY DEF ServeFits, PermitsFit, Taken
<1>2. /\ Cardinality(Taken) \in Nat /\ Cardinality(Holders) \in Nat
      /\ Cardinality(Holders) <= Cardinality(Taken)
  BY <1>1, FS_CardinalityType, FS_Subset
<1>3. ServeTypeOK
  <2>1. permits \in 0..MaxTasks /\ active \in 0..MaxTasks
    BY <1>1, <1>2, ServeAssumption DEF ServeFits, ServeTypes
  <2>2. QED
    BY <2>1 DEF ServeFits, ServeTypes, ServeTypeOK, Servers, Phases, Statuses
<1>4. SuccessIsOnRecord
  BY DEF ServeFits, RecordFits, OnRecord, SuccessIsOnRecord
<1>5. PermitsAccounted
  BY <1>1 DEF PermitsAccounted, Taken
<1>6. ShutdownIsGraceful
  <2>1. SUFFICES ASSUME server.phase = "closed"
                 PROVE  InFlight = {} /\ permits = MaxTasks /\ active = 0
    BY DEF ShutdownIsGraceful
  <2>2. InFlight = {}
    BY <2>1 DEF ServeFits, ClosedFits
  <2>3. Taken = {} /\ Holders = {}
    BY <2>2 DEF InFlight, Taken, Holders, Stages
  <2>4. Cardinality(Taken) = 0 /\ Cardinality(Holders) = 0
    BY <2>3, FS_EmptySet
  <2>5. QED
    BY <1>1, <2>2, <2>4, ServeAssumption DEF ServeFits, ServeTypes
<1>7. QED
  BY <1>3, <1>4, <1>5, <1>6


-----------------------------------------------------------------------------
(* A chain of providers.                                                   *)

Breakers == [failures : Nat, last : 0..MaxNow, open : BOOLEAN]

Turns == {"idle", "next", "asking", "noting"}

Attempts == [pc : Turns, at : 1..(Len(chain) + 1), stream : BOOLEAN]

ChainTypes ==
  /\ chain \in Seq(STRING) /\ Len(chain) \in Nat \ {0}
  /\ elapsed \in 0..MaxNow
  /\ breaker \in [Names -> Breakers]
  /\ health \in [Names -> {"Unknown", "Healthy", "Unhealthy"}]
  /\ attempt \in [Clients -> Attempts]
  /\ checker \in [pc : {"off", "spawned", "waiting", "checking", "ended"}, at : 1..Len(chain)]
  /\ shutdown \in [flag : BOOLEAN, woken : BOOLEAN]
  /\ answers \in [Names -> [streak : Nat, last : 0..MaxNow]]

(* A caller that asks or was answered is at a name of the chain. *)
AttemptsFit ==
  \A c \in Clients : attempt[c].pc \in {"asking", "noting"} => attempt[c].at <= Len(chain)

(* A breaker knows what its provider answered, and no more. *)
Evidence(b, a) ==
  /\ b.failures = a.streak /\ b.last = a.last
  /\ b.open <=> Threshold > 0 /\ a.streak >= Threshold

BreakersFit == \A n \in Names : Evidence(breaker[n], answers[n])

ChainFits == ChainTypes /\ AttemptsFit /\ BreakersFit

LEMMA SuccessIsRecorded ==
  ASSUME NEW b \in Breakers, NEW a \in [streak : Nat, last : 0..MaxNow], Evidence(b, a)
  PROVE  /\ RecordSuccess(b) \in Breakers
         /\ [a EXCEPT !.streak = 0] \in [streak : Nat, last : 0..MaxNow]
         /\ Evidence(RecordSuccess(b), [a EXCEPT !.streak = 0])
<1>1. RecordSuccess(b) \in Breakers
  BY DEF RecordSuccess, Breakers
<1>2. /\ RecordSuccess(b).failures = 0 /\ RecordSuccess(b).last = b.last
      /\ RecordSuccess(b).open = FALSE
  BY DEF RecordSuccess, Breakers
<1>3. [a EXCEPT !.streak = 0] \in [streak : Nat, last : 0..MaxNow]
  OBVIOUS
<1>4. [a EXCEPT !.streak = 0].streak = 0 /\ [a EXCEPT !.streak = 0].last = a.last
  OBVIOUS
<1>5. QED
  BY <1>1, <1>2, <1>3, <1>4, FallbackAssumption DEF Evidence

LEMMA FailureIsRecorded ==
  ASSUME NEW b \in Breakers, NEW a \in [streak : Nat, last : 0..MaxNow], Evidence(b, a),
         elapsed \in 0..MaxNow
  PROVE  /\ RecordFailure(b) \in Breakers
         /\ [streak |-> a.streak + 1, last |-> elapsed] \in [streak : Nat, last : 0..MaxNow]
         /\ Evidence(RecordFailure(b), [streak |-> a.streak + 1, last |-> elapsed])
<1>1. RecordFailure(b) \in Breakers
  BY DEF RecordFailure, Breakers
<1>2. /\ RecordFailure(b).failures = b.failures + 1 /\ RecordFailure(b).last = elapsed
      /\ RecordFailure(b).open <=> b.open \/ (Threshold > 0 /\ b.failures + 1 >= Threshold)
  BY DEF RecordFailure, Breakers
<1>3. [streak |-> a.streak + 1, last |-> elapsed] \in [streak : Nat, last : 0..MaxNow]
  OBVIOUS
<1>4. b.failures \in Nat
  BY DEF Breakers
<1>5. QED
  BY <1>1, <1>2, <1>3, <1>4, FallbackAssumption DEF Evidence

(* The breaker and the history are about the same answers, so that a       *)
(* provider is skipped if and only if its answers trip it.                 *)
LEMMA SkippedIsTripped ==
  ASSUME NEW n \in Names, ChainFits
  PROVE  IsSkippable(breaker[n]) <=> Tripped(n)
BY FallbackAssumption DEF ChainFits, ChainTypes, BreakersFit, Evidence, IsSkippable, Tripped, Breakers

LEMMA ChainInitial == ChainInit => ChainFits
<1> SUFFICES ASSUME ChainInit PROVE ChainFits
  OBVIOUS
<1>1. chain \in Seq(STRING) /\ Len(chain) \in Nat \ {0}
  <2>1. PICK p \in Primaries : chain = BuildChain(Configs[p]) /\ chain # <<>>
    BY DEF ChainInit
  <2>2. Configs[p].model \in STRING /\ Configs[p].chain \in Seq(STRING)
    BY FallbackAssumption
  <2>3. chain = <<Configs[p].model>> \o Configs[p].chain
    BY <2>1 DEF BuildChain
  <2>4. QED
    BY <2>2, <2>3
<1>2. NewBreaker \in Breakers /\ NewBreaker.failures = 0 /\ NewBreaker.last = 0 /\ NewBreaker.open = FALSE
  BY FallbackAssumption DEF NewBreaker, Breakers
<1>3. ChainTypes
  BY <1>1, <1>2, FallbackAssumption DEF ChainInit, ChainTypes, Attempts, Turns
<1>4. BreakersFit
  BY <1>2, FallbackAssumption DEF ChainInit, BreakersFit, Evidence
<1>5. QED
  BY <1>3, <1>4 DEF ChainInit, ChainFits, AttemptsFit


LEMMA AttemptMoves ==
  ASSUME ChainFits, NEW c \in Clients, NEW x \in Attempts,
         x.pc \in {"asking", "noting"} => x.at <= Len(chain),
         attempt' = [attempt EXCEPT ![c] = x], chain' = chain
  PROVE  attempt' \in [Clients -> Attempts'] /\ AttemptsFit'
<1>1. Attempts' = Attempts
  BY DEF Attempts
<1>2. attempt' \in [Clients -> Attempts']
  BY <1>1 DEF ChainFits, ChainTypes
<1>3. \A d \in Clients : attempt'[d] = IF d = c THEN x ELSE attempt[d]
  BY DEF ChainFits, ChainTypes
<1>4. AttemptsFit'
  BY <1>3 DEF ChainFits, AttemptsFit
<1>5. QED
  BY <1>2, <1>4

(* What a caller's step makes of its attempt. *)
LEMMA AttemptSets ==
  ASSUME NEW x \in Attempts, NEW pc \in Turns, NEW at \in 1..(Len(chain) + 1)
  PROVE  /\ [x EXCEPT !.pc = pc] \in Attempts
         /\ [x EXCEPT !.pc = pc].at = x.at
         /\ [x EXCEPT !.at = at] \in Attempts
         /\ [x EXCEPT !.pc = pc, !.at = at] \in Attempts
<1>1. [x EXCEPT !.pc = pc] \in Attempts
  BY DEF Attempts
<1>2. [x EXCEPT !.pc = pc].at = x.at
  BY DEF Attempts
<1>3. [x EXCEPT !.at = at] \in Attempts
  BY DEF Attempts
<1>4. [x EXCEPT !.pc = pc, !.at = at] \in Attempts
  BY DEF Attempts
<1>5. QED
  BY <1>1, <1>2, <1>3, <1>4

(* What is left when a caller only moves.                                  *)
LEMMA ChainRestKept ==
  ASSUME ChainFits, UNCHANGED <<chain, breaker, shutdown, elapsed, answers>>,
         attempt' \in [Clients -> Attempts'], AttemptsFit',
         health' \in [Names -> {"Unknown", "Healthy", "Unhealthy"}],
         checker' \in [pc : {"off", "spawned", "waiting", "checking", "ended"}, at : 1..Len(chain)]
  PROVE  ChainFits'
<1>1. Names' = Names
  BY DEF Names
<1>2. ChainTypes'
  BY <1>1 DEF ChainFits, ChainTypes
<1>3. BreakersFit'
  BY <1>1 DEF ChainFits, BreakersFit, Evidence
<1>4. QED
  BY <1>2, <1>3 DEF ChainFits

LEMMA CallerStep ==
  ASSUME ChainFits, NEW c \in Clients, Caller(c)
  PROVE  ChainFits'
<1>0. /\ "idle" \in Turns /\ "next" \in Turns /\ "asking" \in Turns /\ "noting" \in Turns
      /\ 1 \in 1..(Len(chain) + 1)
  BY DEF Turns, ChainFits, ChainTypes
<1>1. /\ attempt[c] \in Attempts /\ attempt[c].at \in 1..(Len(chain) + 1)
      /\ attempt \in [Clients -> Attempts] /\ Len(chain) \in Nat \ {0}
      /\ health \in [Names -> {"Unknown", "Healthy", "Unhealthy"}]
      /\ checker \in [pc : {"off", "spawned", "waiting", "checking", "ended"}, at : 1..Len(chain)]
  BY DEF ChainFits, ChainTypes, Attempts
<1>2. CASE Start(c)
  <2>1. PICK s \in BOOLEAN : attempt' = [attempt EXCEPT ![c] = [pc |-> "next", at |-> 1, stream |-> s]]
    BY <1>2 DEF Start
  <2>2. /\ UNCHANGED <<chain, breaker, health, shutdown, elapsed, answers>>
        /\ checker' \in [pc : {"off", "spawned", "waiting", "checking", "ended"}, at : 1..Len(chain)]
    BY <1>1, <1>2 DEF Start, EnsureHealthChecks
  <2> DEFINE x == [pc |-> "next", at |-> 1, stream |-> s]
  <2>3. x \in Attempts /\ x.pc = "next" /\ attempt' = [attempt EXCEPT ![c] = x]
    BY <1>0, <2>1 DEF Attempts
  <2> HIDE DEF x
  <2>4. attempt' \in [Clients -> Attempts'] /\ AttemptsFit'
    BY <2>2, <2>3, AttemptMoves
  <2>5. QED
    BY <1>1, <2>2, <2>4, ChainRestKept
<1>3. CASE PassOver(c)
  <2> DEFINE x == [attempt[c] EXCEPT !.at = attempt[c].at + 1]
  <2>1. /\ attempt[c].at + 1 \in 1..(Len(chain) + 1) /\ attempt[c].pc = "next"
        /\ UNCHANGED <<chain, breaker, health, checker, shutdown, elapsed, answers>>
        /\ attempt' = [attempt EXCEPT ![c] = x]
    BY <1>1, <1>3 DEF PassOver
  <2>2. x \in Attempts /\ x.pc = "next"
    <3>1. x \in Attempts
      BY <1>0, <1>1, <2>1, AttemptSets, Zenon
    <3>2. x.pc = "next"
      BY <1>1, <2>1 DEF Attempts
    <3>3. QED
      BY <3>1, <3>2
  <2> HIDE DEF x
  <2>3. attempt' \in [Clients -> Attempts'] /\ AttemptsFit'
    BY <2>1, <2>2, AttemptMoves
  <2>4. QED
    BY <1>1, <2>1, <2>3, ChainRestKept
<1>4. CASE Try(c)
  <2> DEFINE x == [attempt[c] EXCEPT !.pc = "asking"]
  <2>1. /\ UNCHANGED <<chain, breaker, health, checker, shutdown, elapsed, answers>>
        /\ attempt' = [attempt EXCEPT ![c] = x]
        /\ attempt[c].at <= Len(chain)
    BY <1>1, <1>4 DEF Try
  <2>2. x \in Attempts /\ x.at = attempt[c].at
    BY <1>0, <1>1, AttemptSets, Zenon
  <2> HIDE DEF x
  <2>3. attempt' \in [Clients -> Attempts'] /\ AttemptsFit'
    BY <2>1, <2>2, AttemptMoves
  <2>4. QED
    BY <1>1, <2>1, <2>3, ChainRestKept
<1>5. CASE Exhausted(c) \/ FailsForGood(c) \/ Abandon(c)
  <2> DEFINE x == [attempt[c] EXCEPT !.pc = "idle"]
  <2>1. /\ UNCHANGED <<chain, breaker, health, checker, shutdown, elapsed, answers>>
        /\ attempt' = [attempt EXCEPT ![c] = x]
    BY <1>1, <1>5 DEF Exhausted, FailsForGood, Abandon
  <2>2. x \in Attempts /\ x.pc = "idle"
    <3>1. x \in Attempts
      BY <1>0, <1>1, AttemptSets, Zenon
    <3>2. x.pc = "idle"
      BY <1>1 DEF Attempts
    <3>3. QED
      BY <3>1, <3>2
  <2> HIDE DEF x
  <2>3. attempt' \in [Clients -> Attempts'] /\ AttemptsFit'
    BY <2>1, <2>2, AttemptMoves
  <2>4. QED
    BY <1>1, <2>1, <2>3, ChainRestKept
<1>6. CASE NoteHealthy(c)
  <2> DEFINE x == [attempt[c] EXCEPT !.pc = "idle"]
  <2>1. /\ UNCHANGED <<chain, breaker, checker, shutdown, elapsed, answers>>
        /\ attempt' = [attempt EXCEPT ![c] = x]
        /\ health' \in [Names -> {"Unknown", "Healthy", "Unhealthy"}]
    BY <1>1, <1>6 DEF NoteHealthy
  <2>2. x \in Attempts /\ x.pc = "idle"
    <3>1. x \in Attempts
      BY <1>0, <1>1, AttemptSets, Zenon
    <3>2. x.pc = "idle"
      BY <1>1 DEF Attempts
    <3>3. QED
      BY <3>1, <3>2
  <2> HIDE DEF x
  <2>3. attempt' \in [Clients -> Attempts'] /\ AttemptsFit'
    BY <2>1, <2>2, AttemptMoves
  <2>4. QED
    BY <1>1, <2>1, <2>3, ChainRestKept
<1>7. CASE Succeeds(c) \/ FailsForNow(c)
  <2> DEFINE n == Current(c)
  <2>1. /\ attempt[c].at <= Len(chain) /\ n \in Names
        /\ attempt[c].pc = "asking"
        /\ UNCHANGED <<chain, checker, shutdown, elapsed>>
    BY <1>1, <1>7 DEF Succeeds, FailsForNow, ChainFits, ChainTypes, AttemptsFit, Current, Names
  <2>2. /\ breaker \in [Names -> Breakers] /\ breaker[n] \in Breakers
        /\ answers \in [Names -> [streak : Nat, last : 0..MaxNow]]
        /\ answers[n] \in [streak : Nat, last : 0..MaxNow]
        /\ Evidence(breaker[n], answers[n]) /\ elapsed \in 0..MaxNow
    BY <2>1 DEF ChainFits, ChainTypes, BreakersFit
  <2>3. PICK b \in Breakers, a \in [streak : Nat, last : 0..MaxNow] :
          /\ Evidence(b, a)
          /\ breaker' = [breaker EXCEPT ![n] = b]
          /\ answers' = [answers EXCEPT ![n] = a]
    <3>1. CASE Succeeds(c)
      <4>1. /\ breaker' = [breaker EXCEPT ![n] = RecordSuccess(breaker[n])]
            /\ answers' = [answers EXCEPT ![n] = [answers[n] EXCEPT !.streak = 0]]
        BY <2>1, <2>2, <3>1 DEF Succeeds
      <4>2. QED
        BY <2>2, <4>1, SuccessIsRecorded
    <3>2. CASE FailsForNow(c)
      <4>1. /\ breaker' = [breaker EXCEPT ![n] = RecordFailure(breaker[n])]
            /\ answers' = [answers EXCEPT ![n] = [streak |-> answers[n].streak + 1, last |-> elapsed]]
        BY <2>1, <2>2, <3>2 DEF FailsForNow
      <4>2. QED
        BY <2>2, <4>1, FailureIsRecorded
    <3>3. QED
      BY <1>7, <3>1, <3>2
  <2>4. attempt' \in [Clients -> Attempts'] /\ AttemptsFit'
    <3>1. CASE Succeeds(c)
      <4> DEFINE x == [attempt[c] EXCEPT !.pc = "noting"]
      <4>1. attempt' = [attempt EXCEPT ![c] = x]
        BY <1>1, <3>1 DEF Succeeds
      <4>2. x \in Attempts /\ x.at = attempt[c].at
        BY <1>0, <1>1, AttemptSets, Zenon
      <4> HIDE DEF x
      <4>3. QED
        BY <2>1, <4>1, <4>2, AttemptMoves
    <3>2. CASE FailsForNow(c)
      <4> DEFINE x == [attempt[c] EXCEPT !.pc = "next", !.at = attempt[c].at + 1]
      <4>1. attempt' = [attempt EXCEPT ![c] = x]
        BY <1>1, <3>2 DEF FailsForNow
      <4>2. attempt[c].at + 1 \in 1..(Len(chain) + 1)
        BY <1>1, <2>1
      <4>3. x \in Attempts /\ x.pc = "next"
        <5>1. x \in Attempts
          BY <1>0, <1>1, <4>2, AttemptSets, Zenon
        <5>2. x.pc = "next"
          BY <1>1 DEF Attempts
        <5>3. QED
          BY <5>1, <5>2
      <4> HIDE DEF x
      <4>4. QED
        BY <2>1, <4>1, <4>3, AttemptMoves
    <3>3. QED
      BY <1>7, <3>1, <3>2
  <2>5. health' \in [Names -> {"Unknown", "Healthy", "Unhealthy"}]
    BY <1>1, <1>7 DEF Succeeds, FailsForNow
  <2>6. Names' = Names
    BY <2>1 DEF Names
  <2>7. ChainTypes'
    BY <1>1, <2>1, <2>2, <2>3, <2>4, <2>5, <2>6 DEF ChainFits, ChainTypes
  <2>8. \A m \in Names : /\ breaker'[m] = IF m = n THEN b ELSE breaker[m]
                         /\ answers'[m] = IF m = n THEN a ELSE answers[m]
    BY <2>2, <2>3
  <2>9. BreakersFit'
    <3>1. SUFFICES ASSUME NEW m \in Names
                   PROVE  Evidence(breaker'[m], answers'[m])
      BY <2>6 DEF BreakersFit, Evidence
    <3>2. QED
      BY <2>3, <2>8 DEF ChainFits, BreakersFit
  <2>10. QED
    BY <2>4, <2>7, <2>9 DEF ChainFits
<1>8. QED
  BY <1>2, <1>3, <1>4, <1>5, <1>6, <1>7 DEF Caller


(* The health check task, the owners of the chain, and the clock.          *)
LEMMA BackgroundStep ==
  ASSUME ChainFits, Checker \/ DropChain \/ Clock \/ UNCHANGED chainvars
  PROVE  ChainFits'
<1>0. UNCHANGED <<chain, breaker, attempt, answers>>
  BY DEF Checker, Poll, Tick, ShutDown, HealthCheck, DropChain, Clock, chainvars
<1>1. /\ Names' = Names /\ Attempts' = Attempts /\ AttemptsFit' /\ BreakersFit'
  BY <1>0 DEF Names, Attempts, ChainFits, AttemptsFit, BreakersFit, Evidence
<1>2. checker' \in [pc : {"off", "spawned", "waiting", "checking", "ended"}, at : 1..Len(chain)]
  <2>1. /\ checker \in [pc : {"off", "spawned", "waiting", "checking", "ended"}, at : 1..Len(chain)]
        /\ Len(chain) \in Nat \ {0}
    BY DEF ChainFits, ChainTypes
  <2>2. CASE Poll \/ ShutDown
    BY <2>1, <2>2 DEF Poll, ShutDown
  <2>3. CASE Tick
    BY <2>1, <2>3 DEF Tick
  <2>4. CASE HealthCheck
    BY <2>1, <2>4 DEF HealthCheck
  <2>5. CASE DropChain \/ Clock \/ UNCHANGED chainvars
    BY <2>1, <2>5 DEF DropChain, Clock, chainvars
  <2>6. QED
    BY <2>2, <2>3, <2>4, <2>5 DEF Checker
<1>3. health' \in [Names -> {"Unknown", "Healthy", "Unhealthy"}]
  <2>1. health \in [Names -> {"Unknown", "Healthy", "Unhealthy"}]
    BY DEF ChainFits, ChainTypes
  <2>2. QED
    BY <2>1 DEF Checker, Poll, Tick, ShutDown, HealthCheck, DropChain, Clock, chainvars
<1>4. shutdown' \in [flag : BOOLEAN, woken : BOOLEAN]
  <2>1. CASE DropChain
    BY <2>1 DEF DropChain
  <2>2. CASE ~DropChain
    BY <2>2 DEF Checker, Poll, Tick, ShutDown, HealthCheck, Clock, chainvars, ChainFits, ChainTypes
  <2>3. QED
    BY <2>1, <2>2
<1>5. elapsed' \in 0..MaxNow
  <2>1. elapsed \in 0..MaxNow
    BY DEF ChainFits, ChainTypes
  <2>2. CASE Clock
    BY <2>1, <2>2, FallbackAssumption DEF Clock
  <2>3. CASE ~Clock
    BY <2>1, <2>3 DEF Checker, Poll, Tick, ShutDown, HealthCheck, DropChain, chainvars
  <2>4. QED
    BY <2>2, <2>3
<1>6. ChainTypes'
  BY <1>0, <1>1, <1>2, <1>3, <1>4, <1>5 DEF ChainFits, ChainTypes
<1>7. QED
  BY <1>1, <1>6 DEF ChainFits

LEMMA ChainInductive == ChainFits /\ [ChainNext]_chainvars => ChainFits'
BY CallerStep, BackgroundStep DEF ChainNext

LEMMA ChainSound == ChainFits => ChainTypeOK
<1> SUFFICES ASSUME ChainFits PROVE ChainTypeOK
  OBVIOUS
<1>1. chain # <<>>
  BY DEF ChainFits, ChainTypes
<1>2. QED
  BY <1>1 DEF ChainFits, ChainTypes, ChainTypeOK, Breakers, Attempts, Turns

(* No step passes over a provider that its answers do not condemn, or      *)
(* tries one that they do.                                                 *)
LEMMA EvidenceRules ==
  ASSUME ChainFits, NEW c \in Clients
  PROVE  /\ PassOver(c) => Tripped(Current(c))
         /\ Try(c) => ~Tripped(Current(c))
<1>1. attempt[c].at \in 1..(Len(chain) + 1) /\ Len(chain) \in Nat /\ chain \in Seq(STRING)
  BY DEF ChainFits, ChainTypes, Attempts
<1>2. ASSUME attempt[c].at <= Len(chain)
      PROVE  IsSkippable(breaker[Current(c)]) <=> Tripped(Current(c))
  <2>1. Current(c) \in Names
    BY <1>1, <1>2 DEF Current, Names
  <2>2. QED
    BY <2>1, SkippedIsTripped
<1>3. QED
  BY <1>2 DEF PassOver, Try


-----------------------------------------------------------------------------
(* Connections and their streams.                                          *)

Upwards(q) ==
  \A i, j \in DOMAIN q : i < j /\ q[i] # Reply /\ q[j] # Reply => q[i] < q[j]

Precede(A, B) == \A a \in A, b \in B : a < b

(* A queue and its head, and a queue with one more message. *)
LEMMA OneMessage ==
  ASSUME NEW m \in Nat
  PROVE  EventsIn(<<m>>) = {m} \ {Reply}
BY DEF EventsIn

LEMMA NoMessage == EventsIn(<<>>) = {}
BY DEF EventsIn

LEMMA HeadFirst ==
  ASSUME NEW q \in Seq(Nat), q # <<>>, Upwards(q)
  PROVE  /\ Head(q) \in Nat /\ Tail(q) \in Seq(Nat)
         /\ EventsIn(q) = EventsIn(<<Head(q)>>) \cup EventsIn(Tail(q))
         /\ Precede(EventsIn(<<Head(q)>>), EventsIn(Tail(q)))
         /\ Upwards(Tail(q))
<1>1. /\ Head(q) \in Nat /\ Head(q) = q[1] /\ Len(q) \in Nat \ {0}
      /\ Tail(q) \in Seq(Nat) /\ Len(Tail(q)) = Len(q) - 1
      /\ \A i \in 1..(Len(q) - 1) : Tail(q)[i] = q[i + 1]
  OBVIOUS
<1>2. DOMAIN q = 1..Len(q) /\ DOMAIN Tail(q) = 1..(Len(q) - 1)
  BY <1>1
<1>3. {q[i] : i \in DOMAIN q} = {Head(q)} \cup {Tail(q)[i] : i \in DOMAIN Tail(q)}
  <2>1. ASSUME NEW i \in DOMAIN q
        PROVE  q[i] \in {Head(q)} \cup {Tail(q)[k] : k \in DOMAIN Tail(q)}
    <3>1. CASE i = 1
      BY <1>1, <3>1
    <3>2. CASE i # 1
      <4>1. i - 1 \in DOMAIN Tail(q) /\ Tail(q)[i - 1] = q[i]
        BY <1>1, <1>2, <3>2
      <4>2. QED
        BY <4>1
    <3>3. QED
      BY <3>1, <3>2
  <2>2. Head(q) \in {q[i] : i \in DOMAIN q}
    BY <1>1, <1>2
  <2>3. ASSUME NEW k \in DOMAIN Tail(q)
        PROVE  Tail(q)[k] \in {q[i] : i \in DOMAIN q}
    <3>1. k + 1 \in DOMAIN q /\ Tail(q)[k] = q[k + 1]
      BY <1>1, <1>2
    <3>2. QED
      BY <3>1
  <2>4. QED
    BY <2>1, <2>2, <2>3
<1>4. EventsIn(q) = EventsIn(<<Head(q)>>) \cup EventsIn(Tail(q))
  BY <1>1, <1>3, OneMessage DEF EventsIn
<1>5. Upwards(Tail(q))
  BY <1>1, <1>2 DEF Upwards
<1>6. ASSUME NEW k \in DOMAIN Tail(q), Head(q) # Reply, Tail(q)[k] # Reply
      PROVE  Head(q) < Tail(q)[k]
  <2>1. 1 \in DOMAIN q /\ k + 1 \in DOMAIN q /\ 1 < k + 1 /\ Tail(q)[k] = q[k + 1]
    BY <1>1, <1>2
  <2>2. QED
    BY <1>1, <1>6, <2>1 DEF Upwards
<1>7. Precede(EventsIn(<<Head(q)>>), EventsIn(Tail(q)))
  BY <1>1, <1>6, OneMessage DEF Precede, EventsIn
<1>8. QED
  BY <1>1, <1>4, <1>5, <1>7

LEMMA LastLast ==
  ASSUME NEW q \in Seq(Nat), NEW m \in Nat, Upwards(q), Precede(EventsIn(q), {m} \ {Reply})
  PROVE  /\ Append(q, m) \in Seq(Nat)
         /\ EventsIn(Append(q, m)) = EventsIn(q) \cup ({m} \ {Reply})
         /\ Upwards(Append(q, m))
<1>1. /\ Append(q, m) \in Seq(Nat) /\ Len(q) \in Nat /\ Len(Append(q, m)) = Len(q) + 1
      /\ \A i \in 1..Len(q) : Append(q, m)[i] = q[i]
      /\ Append(q, m)[Len(q) + 1] = m
  OBVIOUS
<1>2. DOMAIN q = 1..Len(q) /\ DOMAIN Append(q, m) = 1..(Len(q) + 1)
  BY <1>1
<1>3. {Append(q, m)[i] : i \in DOMAIN Append(q, m)} = {q[i] : i \in DOMAIN q} \cup {m}
  <2>1. ASSUME NEW i \in DOMAIN Append(q, m)
        PROVE  Append(q, m)[i] \in {q[k] : k \in DOMAIN q} \cup {m}
    BY <1>1, <1>2
  <2>2. ASSUME NEW i \in DOMAIN q
        PROVE  q[i] \in {Append(q, m)[k] : k \in DOMAIN Append(q, m)}
    BY <1>1, <1>2
  <2>3. m \in {Append(q, m)[k] : k \in DOMAIN Append(q, m)}
    <3>1. Len(q) + 1 \in DOMAIN Append(q, m)
      BY <1>1, <1>2
    <3>2. QED
      BY <1>1, <3>1
  <2>4. QED
    BY <2>1, <2>2, <2>3
<1>4. EventsIn(Append(q, m)) = EventsIn(q) \cup ({m} \ {Reply})
  BY <1>3 DEF EventsIn
<1>5. Upwards(Append(q, m))
  <2>1. SUFFICES ASSUME NEW i \in 1..(Len(q) + 1), NEW j \in 1..(Len(q) + 1), i < j,
                        Append(q, m)[i] # Reply, Append(q, m)[j] # Reply
                 PROVE  Append(q, m)[i] < Append(q, m)[j]
    BY <1>2 DEF Upwards
  <2>2. i \in 1..Len(q) /\ Append(q, m)[i] = q[i]
    BY <1>1, <2>1
  <2>3. CASE j \in 1..Len(q)
    BY <1>1, <1>2, <2>1, <2>2, <2>3 DEF Upwards
  <2>4. CASE j = Len(q) + 1
    <3>1. q[i] \in EventsIn(q) /\ m \in {m} \ {Reply}
      BY <1>1, <1>2, <2>1, <2>2, <2>4 DEF EventsIn
    <3>2. q[i] < m
      BY <3>1 DEF Precede
    <3>3. QED
      BY <1>1, <2>2, <2>4, <3>2
  <2>5. QED
    BY <1>1, <2>3, <2>4
<1>6. QED
  BY <1>1, <1>4, <1>5

(***************************************************************************)
(* A channel that is sent a message has it, and what was in the channel is *)
(* there or is forgotten.                                                  *)
(***************************************************************************)
LEMMA SentOrForgotten ==
  ASSUME NEW q \in Seq(Nat), NEW m \in Nat, Upwards(q), Precede(EventsIn(q), {m} \ {Reply})
  PROVE  /\ Sent(q, m) \in Seq(Nat) /\ Upwards(Sent(q, m))
         /\ Forgotten(q) \subseteq EventsIn(q)
         /\ EventsIn(Sent(q, m)) \subseteq EventsIn(q) \cup ({m} \ {Reply})
         /\ EventsIn(Sent(q, m)) \cup Forgotten(q) = EventsIn(q) \cup ({m} \ {Reply})
<1>1. CASE Len(q) < Capacity
  BY <1>1, LastLast DEF Sent, Forgotten
<1>2. CASE ~(Len(q) < Capacity)
  <2>1. q # <<>>
    BY <1>2, HubAssumption
  <2>2. /\ Head(q) \in Nat /\ Tail(q) \in Seq(Nat) /\ Upwards(Tail(q))
        /\ EventsIn(q) = EventsIn(<<Head(q)>>) \cup EventsIn(Tail(q))
    BY <2>1, HeadFirst
  <2>3. Precede(EventsIn(Tail(q)), {m} \ {Reply})
    BY <2>2 DEF Precede
  <2>4. /\ Append(Tail(q), m) \in Seq(Nat) /\ Upwards(Append(Tail(q), m))
        /\ EventsIn(Append(Tail(q), m)) = EventsIn(Tail(q)) \cup ({m} \ {Reply})
    BY <2>2, <2>3, LastLast
  <2>5. Forgotten(q) = EventsIn(<<Head(q)>>)
    BY <1>2, <2>2, OneMessage DEF Forgotten
  <2>6. Sent(q, m) = Append(Tail(q), m)
    BY <1>2 DEF Sent
  <2>7. QED
    BY <2>2, <2>4, <2>5, <2>6
<1>3. QED
  BY <1>1, <1>2


Early == {"absent", "refused", "upgrading"}

HubTypes ==
  /\ conn \in [Client -> Early \cup {"registered", "reading", "closing", "gone"}]
  /\ forwarder \in [Client -> [pc : {"none", "waiting", "writing", "ended"}, hand : Seq(Nat)]]
  /\ registry \subseteq Client /\ IsFiniteSet(registry)
  /\ scopes \in [Client -> SUBSET Scope]
  /\ queue \in [Client -> Seq(Nat)]
  /\ count \in Nat /\ pending \subseteq Client
  /\ events \in Seq(Scope) /\ Len(events) <= MaxEvents
  /\ since \in [Client -> [Scope -> Nat]]
  /\ got \in [Client -> Seq(Nat)]
  /\ lost \in [Client -> SUBSET Nat]

(* Before its read loop runs, a connection has been sent nothing. *)
BeginsFit(c) ==
  /\ conn[c] \in Early => /\ c \notin registry /\ scopes[c] = {}
                          /\ queue[c] = <<>> /\ got[c] = <<>> /\ lost[c] = {}
  /\ conn[c] \in Early \cup {"registered"} => forwarder[c].pc = "none"
  /\ conn[c] = "registered" => c \in registry
  /\ c \in pending => forwarder[c].pc = "ended"

(* The forwarder holds a message while it writes. *)
HandFits(c) ==
  IF forwarder[c].pc = "writing" THEN \E m \in Nat : forwarder[c].hand = <<m>>
  ELSE forwarder[c].hand = <<>>

SinceFits(c) ==
  \A s \in Scope :
    IF s \in scopes[c] THEN since[c][s] <= Len(events) ELSE since[c][s] = MaxEvents

(* From the oldest written to the last sent, the events go up. *)
OrderFits(c) ==
  /\ Upwards(got[c]) /\ Upwards(queue[c])
  /\ \A i \in DOMAIN got[c] : got[c][i] # Reply
  /\ Precede(EventsIn(got[c]), EventsIn(forwarder[c].hand))
  /\ Precede(EventsIn(got[c]), EventsIn(queue[c]))
  /\ Precede(EventsIn(forwarder[c].hand), EventsIn(queue[c]))
  /\ EventsIn(got[c]) \cup EventsIn(forwarder[c].hand) \cup EventsIn(queue[c]) \subseteq 0..Len(events)

Seen(c) == EventsIn(got[c]) \cup EventsIn(forwarder[c].hand) \cup EventsIn(queue[c]) \cup lost[c]

ExactFits(c) == Open(c) => Seen(c) = Owed(c)

ClientFitsHub(c) ==
  BeginsFit(c) /\ HandFits(c) /\ SinceFits(c) /\ OrderFits(c) /\ ExactFits(c)

(* Who is counted: an entry that is not new, and one that was removed a    *)
(* moment ago.                                                             *)
Counted == {c \in registry \cup leaving : conn[c] # "registered"}

CountFits ==
  /\ leaving \subseteq Client /\ IsFiniteSet(leaving) /\ registry \cap leaving = {}
  /\ \A c \in leaving : conn[c] \notin Early \cup {"registered"}
  /\ count = Cardinality(Counted)

HubFits == HubTypes /\ CountFits /\ (\A c \in Client : ClientFitsHub(c))

LEMMA HubInitial == HubInit => HubFits
<1> SUFFICES ASSUME HubInit PROVE HubFits
  OBVIOUS
<1>1. HubTypes
  BY FS_EmptySet, HubAssumption DEF HubInit, HubTypes, Early, Never
<1>2. CountFits
  <2>1. Counted = {}
    BY DEF HubInit, Counted
  <2>2. QED
    BY <2>1, FS_EmptySet DEF HubInit, CountFits
<1>3. ASSUME NEW c \in Client PROVE ClientFitsHub(c)
  <2>1. BeginsFit(c) /\ HandFits(c)
    BY DEF HubInit, BeginsFit, HandFits, Early
  <2>2. SinceFits(c)
    BY DEF HubInit, SinceFits, Never
  <2>3. /\ EventsIn(got[c]) = {} /\ EventsIn(forwarder[c].hand) = {} /\ EventsIn(queue[c]) = {}
        /\ DOMAIN got[c] = {} /\ DOMAIN queue[c] = {}
    BY NoMessage DEF HubInit
  <2>4. OrderFits(c)
    BY <2>3 DEF OrderFits, Upwards, Precede
  <2>5. ExactFits(c)
    BY DEF HubInit, ExactFits, Open
  <2>6. QED
    BY <2>1, <2>2, <2>4, <2>5 DEF ClientFitsHub
<1>4. QED
  BY <1>1, <1>2, <1>3 DEF HubFits

(* What is not about a client leaves it as it was.                         *)
LEMMA OthersKept ==
  ASSUME NEW d \in Client, ClientFitsHub(d),
         conn'[d] = conn[d], forwarder'[d] = forwarder[d], scopes'[d] = scopes[d],
         queue'[d] = queue[d], since'[d] = since[d], got'[d] = got[d], lost'[d] = lost[d],
         events' = events, d \in registry' <=> d \in registry, d \in pending' => d \in pending
  PROVE  ClientFitsHub(d)'
<1>1. BeginsFit(d)' /\ HandFits(d)' /\ SinceFits(d)' /\ OrderFits(d)'
  BY DEF ClientFitsHub, BeginsFit, HandFits, SinceFits, OrderFits
<1>2. Owed(d)' = Owed(d)
  BY DEF Owed
<1>3. ExactFits(d)'
  BY <1>2 DEF ClientFitsHub, ExactFits, Open, Seen
<1>4. QED
  BY <1>1, <1>3 DEF ClientFitsHub


LEMMA CountKept ==
  ASSUME HubTypes, CountFits, registry' = registry, count' = count, leaving' = leaving,
         \A c \in registry : conn'[c] = "registered" <=> conn[c] = "registered",
         \A c \in leaving : conn'[c] \in Early \cup {"registered"}
                              => conn[c] \in Early \cup {"registered"}
  PROVE  CountFits'
<1>1. Counted' = Counted
  BY DEF Counted, CountFits
<1>2. QED
  BY <1>1 DEF CountFits

(* The entry goes, whoever finds it; it is counted until CountDown. *)
LEMMA EntryGoes ==
  ASSUME HubTypes, CountFits, NEW c \in Client, RemoveEntry(c),
         conn[c] \notin Early \cup {"registered"}, conn'[c] \notin Early \cup {"registered"},
         \A d \in Client \ {c} : conn'[d] = conn[d]
  PROVE  /\ registry' \subseteq Client /\ IsFiniteSet(registry') /\ count' \in Nat
         /\ CountFits'
         /\ \A d \in Client \ {c} : d \in registry' <=> d \in registry
         /\ c \notin registry'
<1>1. registry' = registry \ {c} /\ leaving' = leaving \cup ({c} \cap registry) /\ count' = count
  BY DEF RemoveEntry
<1>2. IsFiniteSet(registry) /\ IsFiniteSet(registry') /\ registry' \subseteq Client
  BY <1>1, FS_Subset DEF HubTypes
<1>3. leaving' \subseteq Client /\ IsFiniteSet(leaving') /\ registry' \cap leaving' = {}
  <2>1. IsFiniteSet(leaving \cup {c})
    BY FS_AddElement DEF CountFits
  <2>2. leaving' \subseteq leaving \cup {c}
    BY <1>1
  <2>3. QED
    BY <1>1, <2>1, <2>2, FS_Subset DEF CountFits
<1>4. \A d \in leaving' : conn'[d] \notin Early \cup {"registered"}
  BY <1>1 DEF CountFits
<1>5. Counted' = Counted
  <2>1. registry' \cup leaving' = registry \cup leaving
    BY <1>1
  <2>2. registry \cup leaving \subseteq Client
    BY DEF HubTypes, CountFits
  <2>3. \A d \in Client : conn'[d] = "registered" <=> conn[d] = "registered"
    OBVIOUS
  <2>4. QED
    BY <2>1, <2>2, <2>3 DEF Counted
<1>6. QED
  BY <1>1, <1>2, <1>3, <1>4, <1>5 DEF CountFits, HubTypes

(* The count follows. *)
LEMMA CountDownStep ==
  ASSUME HubFits, NEW c \in Client, CountDown(c)
  PROVE  HubFits'
<1>1. /\ c \in leaving /\ leaving' = leaving \ {c}
      /\ count' = (IF count > 0 THEN count - 1 ELSE count)
      /\ UNCHANGED <<conn, forwarder, registry, scopes, queue, pending, events, since, got, lost>>
  BY DEF CountDown, hubhistory
<1>2. IsFiniteSet(Counted) /\ Cardinality(Counted) \in Nat /\ count = Cardinality(Counted)
  <2>1. IsFiniteSet(registry \cup leaving)
    BY FS_Union DEF HubFits, HubTypes, CountFits
  <2>2. QED
    BY <2>1, FS_Subset, FS_CardinalityType DEF Counted, HubFits, CountFits
<1>3. c \in Counted /\ Counted' = Counted \ {c}
  BY <1>1 DEF Counted, HubFits, CountFits
<1>4. Cardinality(Counted \ {c}) = Cardinality(Counted) - 1 /\ Cardinality(Counted \ {c}) \in Nat
  BY <1>2, <1>3, OneMore, FS_CardinalityType
<1>5. count' = Cardinality(Counted') /\ count' \in Nat
  BY <1>1, <1>2, <1>3, <1>4
<1>6. CountFits'
  <2>1. IsFiniteSet(leaving')
    BY <1>1, FS_Subset DEF HubFits, CountFits
  <2>2. QED
    BY <1>1, <1>5, <2>1 DEF HubFits, CountFits
<1>7. HubTypes'
  BY <1>1, <1>5 DEF HubFits, HubTypes
<1>8. \A d \in Client : ClientFitsHub(d)'
  BY <1>1, OthersKept DEF HubFits
<1>9. QED
  BY <1>6, <1>7, <1>8 DEF HubFits

LEMMA UpgradeStep ==
  ASSUME HubFits, NEW c \in Client, Upgrade(c)
  PROVE  HubFits'
<1>1. /\ conn[c] = "absent" /\ conn' = [conn EXCEPT ![c] = IF AtCapacity THEN "refused" ELSE "upgrading"]
      /\ UNCHANGED <<forwarder, registry, scopes, queue, count, leaving, pending, events, since, got, lost, requests>>
  BY DEF Upgrade, hubhistory
<1>2. HubTypes'
  BY <1>1 DEF HubFits, HubTypes, Early
<1>3. conn'[c] \in Early /\ \A d \in Client \ {c} : conn'[d] = conn[d]
  BY <1>1 DEF HubFits, HubTypes, Early
<1>4. ClientFitsHub(c)'
  <2>1. BeginsFit(c)'
    BY <1>1, <1>3 DEF HubFits, ClientFitsHub, BeginsFit, Early
  <2>2. HandFits(c)' /\ SinceFits(c)' /\ OrderFits(c)'
    BY <1>1 DEF HubFits, ClientFitsHub, HandFits, SinceFits, OrderFits
  <2>3. ~Open(c)'
    BY <1>1 DEF HubFits, ClientFitsHub, BeginsFit, Early, Open
  <2>4. QED
    BY <2>1, <2>2, <2>3 DEF ClientFitsHub, ExactFits
<1>5. \A d \in Client \ {c} : ClientFitsHub(d)'
  BY <1>1, <1>3, OthersKept DEF HubFits
<1>6. CountFits'
  <2>1. c \notin registry
    BY <1>1 DEF HubFits, ClientFitsHub, BeginsFit, Early
  <2>2. HubTypes /\ CountFits /\ registry \subseteq Client /\ leaving \subseteq Client
    BY DEF HubFits, HubTypes, CountFits
  <2>3. c \notin leaving
    BY <1>1, <2>2 DEF CountFits, Early
  <2>4. /\ \A d \in registry : conn'[d] = conn[d]
        /\ \A d \in leaving : conn'[d] = conn[d]
    BY <1>3, <2>1, <2>2, <2>3
  <2>5. QED
    BY <1>1, <2>2, <2>4, CountKept
<1>7. QED
  BY <1>2, <1>4, <1>5, <1>6 DEF HubFits

LEMMA RegisterStep ==
  ASSUME HubFits, NEW c \in Client, RegisterIsolated(c)
  PROVE  HubFits'
<1>1. /\ conn[c] = "upgrading" /\ conn' = [conn EXCEPT ![c] = "registered"]
      /\ registry' = registry \cup {c}
      /\ UNCHANGED <<forwarder, scopes, queue, count, leaving, pending, events, since, got, lost, requests>>
  BY DEF RegisterIsolated, hubhistory
<1>2. HubTypes'
  BY <1>1, FS_AddElement DEF HubFits, HubTypes, Early
<1>3. conn'[c] = "registered" /\ \A d \in Client \ {c} : conn'[d] = conn[d]
  BY <1>1 DEF HubFits, HubTypes
<1>4. /\ c \notin registry /\ scopes[c] = {} /\ queue[c] = <<>> /\ got[c] = <<>> /\ lost[c] = {}
      /\ forwarder[c].pc = "none" /\ forwarder[c].hand = <<>> /\ c \notin pending
  BY <1>1 DEF HubFits, ClientFitsHub, BeginsFit, HandFits, Early
<1>5. ClientFitsHub(c)'
  <2>1. BeginsFit(c)'
    BY <1>1, <1>3, <1>4 DEF BeginsFit, Early
  <2>2. HandFits(c)' /\ SinceFits(c)' /\ OrderFits(c)'
    BY <1>1 DEF HubFits, ClientFitsHub, HandFits, SinceFits, OrderFits
  <2>3. Seen(c)' = {}
    BY <1>1, <1>4, NoMessage DEF Seen
  <2>4. Owed(c)' = {}
    <3>1. ASSUME NEW e \in DOMAIN events
          PROVE  ~(e > since[c][events[e]])
      <4>1. events[e] \in Scope /\ e \in 1..Len(events) /\ Len(events) \in Nat /\ Len(events) <= MaxEvents
        BY DEF HubFits, HubTypes
      <4>2. since[c][events[e]] = MaxEvents
        BY <1>4, <4>1 DEF HubFits, ClientFitsHub, SinceFits
      <4>3. QED
        BY <4>1, <4>2, HubAssumption
    <3>2. QED
      BY <1>1, <3>1 DEF Owed
  <2>5. QED
    BY <2>1, <2>2, <2>3, <2>4 DEF ClientFitsHub, ExactFits
<1>6. \A d \in Client \ {c} : ClientFitsHub(d)'
  BY <1>1, <1>3, OthersKept DEF HubFits
<1>7. CountFits'
  <2>1. c \notin leaving
    BY <1>1 DEF HubFits, CountFits, Early
  <2>2. Counted' = Counted
    BY <1>1, <1>3, <1>4, <2>1 DEF HubFits, HubTypes, CountFits, Counted
  <2>3. QED
    BY <1>1, <1>3, <2>1, <2>2 DEF HubFits, CountFits
<1>8. QED
  BY <1>2, <1>5, <1>6, <1>7 DEF HubFits

LEMMA WelcomeStep ==
  ASSUME HubFits, NEW c \in Client, Welcome(c)
  PROVE  HubFits'
<1>1. /\ conn[c] = "registered" /\ conn' = [conn EXCEPT ![c] = "reading"]
      /\ count' = count + 1
      /\ UNCHANGED <<registry, scopes, queue, leaving, pending, events, since, got, lost, requests>>
  BY DEF Welcome, hubhistory
<1>2. /\ c \in registry /\ forwarder[c].pc = "none" /\ forwarder[c].hand = <<>> /\ c \notin pending
  BY <1>1 DEF HubFits, ClientFitsHub, BeginsFit, HandFits, Early
<1>3. /\ forwarder' \in [Client -> [pc : {"none", "waiting", "writing", "ended"}, hand : Seq(Nat)]]
      /\ forwarder'[c].pc = "waiting" /\ forwarder'[c].hand = <<>>
      /\ \A d \in Client \ {c} : forwarder'[d] = forwarder[d]
  BY <1>2 DEF Welcome, HubFits, HubTypes
<1>4. HubTypes'
  <2>1. conn' \in [Client -> Early \cup {"registered", "reading", "closing", "gone"}]
    BY <1>1 DEF HubFits, HubTypes
  <2>2. count' \in Nat
    BY <1>1 DEF HubFits, HubTypes
  <2>3. QED
    BY <1>1, <1>3, <2>1, <2>2 DEF HubFits, HubTypes
<1>5. conn'[c] = "reading" /\ \A d \in Client \ {c} : conn'[d] = conn[d]
  BY <1>1 DEF HubFits, HubTypes
<1>6. ClientFitsHub(c)'
  <2>1. BeginsFit(c)' /\ HandFits(c)'
    BY <1>1, <1>2, <1>3, <1>5 DEF BeginsFit, HandFits, Early
  <2>2. SinceFits(c)' /\ OrderFits(c)'
    BY <1>1, <1>2, <1>3 DEF HubFits, ClientFitsHub, SinceFits, OrderFits
  <2>3. Owed(c)' = Owed(c) /\ Seen(c)' = Seen(c)
    BY <1>1, <1>2, <1>3 DEF Owed, Seen
  <2>4. ExactFits(c)'
    BY <1>2, <2>3 DEF HubFits, ClientFitsHub, ExactFits, Open
  <2>5. QED
    BY <2>1, <2>2, <2>4 DEF ClientFitsHub
<1>7. \A d \in Client \ {c} : ClientFitsHub(d)'
  BY <1>1, <1>3, <1>5, OthersKept DEF HubFits
<1>8. CountFits'
  <2>1. Counted' = Counted \cup {c} /\ c \notin Counted
    BY <1>1, <1>2, <1>5 DEF HubFits, HubTypes, CountFits, Counted
  <2>2. IsFiniteSet(Counted)
    <3>1. IsFiniteSet(registry \cup leaving)
      BY FS_Union DEF HubFits, HubTypes, CountFits
    <3>2. QED
      BY <3>1, FS_Subset DEF Counted
  <2>3. Cardinality(Counted \cup {c}) = Cardinality(Counted) + 1
    BY <2>1, <2>2, OneMore
  <2>4. c \notin leaving
    BY <1>1 DEF HubFits, CountFits
  <2>5. QED
    BY <1>1, <1>5, <2>1, <2>3, <2>4 DEF HubFits, CountFits
<1>9. QED
  BY <1>4, <1>6, <1>7, <1>8 DEF HubFits


(* A reply goes through the channel and is no event. *)
LEMMA ReplySent ==
  ASSUME HubFits, NEW c \in Client, SendTo(c), UNCHANGED <<forwarder, got, events>>
  PROVE  /\ queue' \in [Client -> Seq(Nat)] /\ lost' \in [Client -> SUBSET Nat]
         /\ \A d \in Client \ {c} : queue'[d] = queue[d] /\ lost'[d] = lost[d]
         /\ OrderFits(c)' /\ Seen(c)' = Seen(c)
<1>1. /\ queue \in [Client -> Seq(Nat)] /\ lost \in [Client -> SUBSET Nat]
      /\ queue[c] \in Seq(Nat) /\ OrderFits(c)
  BY DEF HubFits, HubTypes, ClientFitsHub
<1>2. CASE Open(c)
  <2> DEFINE q == Sent(queue[c], Reply)
  <2>1. /\ queue' = [queue EXCEPT ![c] = q]
        /\ lost' = [lost EXCEPT ![c] = lost[c] \cup Forgotten(queue[c])]
    BY <1>1, <1>2 DEF SendTo
  <2>2. Reply \in Nat /\ Upwards(queue[c]) /\ Precede(EventsIn(queue[c]), {Reply} \ {Reply})
    BY <1>1 DEF OrderFits, Precede, Reply
  <2>3. /\ q \in Seq(Nat) /\ Upwards(q) /\ Forgotten(queue[c]) \subseteq EventsIn(queue[c])
        /\ EventsIn(q) \subseteq EventsIn(queue[c]) \cup ({Reply} \ {Reply})
        /\ EventsIn(q) \cup Forgotten(queue[c]) = EventsIn(queue[c]) \cup ({Reply} \ {Reply})
    BY <1>1, <2>2, SentOrForgotten
  <2>4. EventsIn(queue[c]) \subseteq Nat
    BY <1>1 DEF EventsIn
  <2> HIDE DEF q
  <2>5. /\ queue' \in [Client -> Seq(Nat)] /\ lost' \in [Client -> SUBSET Nat]
        /\ \A d \in Client \ {c} : queue'[d] = queue[d] /\ lost'[d] = lost[d]
        /\ queue'[c] = q /\ lost'[c] = lost[c] \cup Forgotten(queue[c])
    BY <1>1, <2>1, <2>3, <2>4
  <2>6. OrderFits(c)'
    BY <1>1, <2>3, <2>5 DEF OrderFits, Precede
  <2>7. Seen(c)' = Seen(c)
    BY <2>3, <2>5 DEF Seen
  <2>8. QED
    BY <2>5, <2>6, <2>7
<1>3. CASE ~Open(c)
  <2>1. queue' = queue /\ lost' = lost
    BY <1>3 DEF SendTo
  <2>2. QED
    BY <1>1, <2>1 DEF OrderFits, Seen
<1>4. QED
  BY <1>2, <1>3

LEMMA AskStep ==
  ASSUME HubFits, NEW c \in Client, Ask(c)
  PROVE  HubFits'
<1>1. /\ conn[c] = "reading" /\ SendTo(c)
      /\ UNCHANGED <<conn, forwarder, registry, scopes, count, leaving, pending, events, since, got>>
  BY DEF Ask, Receive
<1>2. /\ queue' \in [Client -> Seq(Nat)] /\ lost' \in [Client -> SUBSET Nat]
      /\ \A d \in Client \ {c} : queue'[d] = queue[d] /\ lost'[d] = lost[d]
      /\ OrderFits(c)' /\ Seen(c)' = Seen(c)
  BY <1>1, ReplySent
<1>3. HubTypes'
  BY <1>1, <1>2 DEF HubFits, HubTypes
<1>4. ClientFitsHub(c)'
  <2>1. BeginsFit(c)' /\ HandFits(c)' /\ SinceFits(c)'
    BY <1>1 DEF HubFits, ClientFitsHub, BeginsFit, HandFits, SinceFits, Early
  <2>2. ExactFits(c)'
    BY <1>1, <1>2 DEF HubFits, ClientFitsHub, ExactFits, Open, Owed
  <2>3. QED
    BY <1>2, <2>1, <2>2 DEF ClientFitsHub
<1>5. \A d \in Client \ {c} : ClientFitsHub(d)'
  BY <1>1, <1>2, OthersKept DEF HubFits
<1>6. CountFits'
  BY <1>1, CountKept DEF HubFits
<1>7. QED
  BY <1>3, <1>4, <1>5, <1>6 DEF HubFits

(* From here on the client is owed the events of s: no event sent before.  *)
LEMMA SubscribeStep ==
  ASSUME HubFits, NEW c \in Client, NEW s \in Scope, Subscribe(c, s)
  PROVE  HubFits'
<1>1. /\ conn[c] = "reading" /\ SendTo(c)
      /\ UNCHANGED <<conn, forwarder, registry, count, leaving, pending, events, got>>
  BY DEF Subscribe, Receive
<1>2. /\ queue' \in [Client -> Seq(Nat)] /\ lost' \in [Client -> SUBSET Nat]
      /\ \A d \in Client \ {c} : queue'[d] = queue[d] /\ lost'[d] = lost[d]
      /\ OrderFits(c)' /\ Seen(c)' = Seen(c)
  BY <1>1, ReplySent
<1>3. /\ scopes \in [Client -> SUBSET Scope] /\ since \in [Client -> [Scope -> Nat]]
      /\ Len(events) \in Nat /\ events \in Seq(Scope) /\ Len(events) <= MaxEvents
      /\ SinceFits(c)
  BY DEF HubFits, HubTypes, ClientFitsHub
<1>4. since[c] \in [Scope -> Nat] /\ scopes[c] \in SUBSET Scope
  BY <1>3
<1>5. PICK x \in SUBSET Scope, y \in [Scope -> Nat] :
        /\ scopes' = [scopes EXCEPT ![c] = x] /\ since' = [since EXCEPT ![c] = y]
        /\ \/ x = scopes[c] /\ y = since[c]
           \/ s \notin scopes[c] /\ x = scopes[c] \cup {s} /\ y = [since[c] EXCEPT ![s] = Len(events)]
  <2>1. CASE c \notin registry
    <3>1. /\ scopes' = [scopes EXCEPT ![c] = scopes[c]] /\ since' = [since EXCEPT ![c] = since[c]]
      BY <1>3, <2>1 DEF Subscribe
    <3>2. QED
      BY <1>4, <3>1
  <2>2. CASE c \in registry
    <3> DEFINE y == [since[c] EXCEPT ![s] = IF s \in scopes[c] THEN since[c][s] ELSE Len(events)]
    <3>1. /\ scopes' = [scopes EXCEPT ![c] = scopes[c] \cup {s}]
          /\ since' = [since EXCEPT ![c] = y]
      BY <1>3, <1>4, <2>2 DEF Subscribe
    <3>2. y \in [Scope -> Nat] /\ scopes[c] \cup {s} \in SUBSET Scope
      BY <1>3, <1>4
    <3>3. CASE s \in scopes[c]
      <4>1. y = since[c] /\ scopes[c] \cup {s} = scopes[c]
        BY <1>4, <3>3
      <4>2. QED
        BY <1>4, <3>1, <4>1
    <3>4. CASE s \notin scopes[c]
      <4>1. y = [since[c] EXCEPT ![s] = Len(events)]
        BY <3>4
      <4> HIDE DEF y
      <4>2. QED
        BY <3>1, <3>2, <3>4, <4>1
    <3>5. QED
      BY <3>3, <3>4
  <2>3. QED
    BY <2>1, <2>2
<1>6. /\ scopes' \in [Client -> SUBSET Scope] /\ since' \in [Client -> [Scope -> Nat]]
      /\ scopes'[c] = x /\ since'[c] = y
      /\ \A d \in Client \ {c} : scopes'[d] = scopes[d] /\ since'[d] = since[d]
  BY <1>3, <1>5
<1>7. SinceFits(c)'
  <2>1. SUFFICES ASSUME NEW t \in Scope
                 PROVE  IF t \in x THEN y[t] <= Len(events) ELSE y[t] = MaxEvents
    BY <1>1, <1>6 DEF SinceFits
  <2>2. CASE x = scopes[c] /\ y = since[c]
    BY <1>3, <2>2 DEF SinceFits
  <2>3. CASE x = scopes[c] \cup {s} /\ y = [since[c] EXCEPT ![s] = Len(events)]
    <3>1. CASE t = s
      BY <1>3, <1>4, <2>3, <3>1
    <3>2. CASE t # s
      <4>1. y[t] = since[c][t] /\ (t \in x <=> t \in scopes[c])
        BY <1>4, <2>3, <3>2
      <4>2. QED
        BY <1>3, <4>1 DEF SinceFits
    <3>3. QED
      BY <3>1, <3>2
  <2>4. QED
    BY <1>5, <2>2, <2>3
<1>8. Owed(c)' = Owed(c)
  <2>1. ASSUME NEW e \in DOMAIN events
        PROVE  e > y[events[e]] <=> e > since[c][events[e]]
    <3>1. events[e] \in Scope /\ e \in 1..Len(events)
      BY <1>3
    <3>2. CASE y = since[c]
      BY <3>2
    <3>3. CASE s \notin scopes[c] /\ y = [since[c] EXCEPT ![s] = Len(events)]
      <4>1. since[c][s] = MaxEvents
        BY <1>3, <3>3 DEF SinceFits
      <4>2. CASE events[e] = s
        BY <1>3, <1>4, <3>1, <3>3, <4>1, <4>2, HubAssumption
      <4>3. CASE events[e] # s
        BY <1>4, <3>1, <3>3, <4>3
      <4>4. QED
        BY <4>2, <4>3
    <3>4. QED
      BY <1>5, <3>2, <3>3
  <2>2. QED
    BY <1>1, <1>6, <2>1 DEF Owed
<1>9. HubTypes'
  BY <1>1, <1>2, <1>6 DEF HubFits, HubTypes
<1>10. ClientFitsHub(c)'
  <2>1. BeginsFit(c)' /\ HandFits(c)'
    BY <1>1 DEF HubFits, ClientFitsHub, BeginsFit, HandFits, Early
  <2>2. ExactFits(c)'
    BY <1>1, <1>2, <1>8 DEF HubFits, ClientFitsHub, ExactFits, Open
  <2>3. QED
    BY <1>2, <1>7, <2>1, <2>2 DEF ClientFitsHub
<1>11. \A d \in Client \ {c} : ClientFitsHub(d)'
  BY <1>1, <1>2, <1>6, OthersKept DEF HubFits
<1>12. CountFits'
  BY <1>1, CountKept DEF HubFits
<1>13. QED
  BY <1>9, <1>10, <1>11, <1>12 DEF HubFits


(* A forwarder ends: with the connection, or because the socket failed.    *)
LEMMA ForwarderEnds ==
  ASSUME HubFits, NEW c \in Client, Close(c) \/ SocketFails(c)
  PROVE  HubFits'
<1>1. /\ forwarder' = [forwarder EXCEPT ![c] = [pc |-> "ended", hand |-> <<>>]]
      /\ UNCHANGED <<registry, scopes, queue, count, leaving, pending, events, since, got, lost>>
      /\ conn' = conn \/ (conn[c] = "reading" /\ conn' = [conn EXCEPT ![c] = "closing"])
  BY DEF Close, SocketFails, hubhistory
<1>2. conn[c] \notin Early \cup {"registered"}
  BY DEF Close, SocketFails, HubFits, ClientFitsHub, BeginsFit, Early
<1>3. /\ conn' \in [Client -> Early \cup {"registered", "reading", "closing", "gone"}]
      /\ conn'[c] \notin Early \cup {"registered"}
      /\ \A d \in Client \ {c} : conn'[d] = conn[d]
  BY <1>1, <1>2 DEF HubFits, HubTypes, Early
<1>4. /\ forwarder' \in [Client -> [pc : {"none", "waiting", "writing", "ended"}, hand : Seq(Nat)]]
      /\ forwarder'[c].pc = "ended" /\ forwarder'[c].hand = <<>>
      /\ \A d \in Client \ {c} : forwarder'[d] = forwarder[d]
  BY <1>1 DEF HubFits, HubTypes
<1>5. HubTypes'
  BY <1>1, <1>3, <1>4 DEF HubFits, HubTypes
<1>6. ClientFitsHub(c)'
  <2>1. BeginsFit(c)' /\ HandFits(c)'
    BY <1>3, <1>4 DEF BeginsFit, HandFits
  <2>2. SinceFits(c)' /\ ExactFits(c)'
    BY <1>1, <1>4 DEF HubFits, ClientFitsHub, SinceFits, ExactFits, Open
  <2>3. EventsIn(forwarder'[c].hand) = {}
    BY <1>4, NoMessage
  <2>4. OrderFits(c)'
    BY <1>1, <2>3 DEF HubFits, ClientFitsHub, OrderFits, Precede
  <2>5. QED
    BY <2>1, <2>2, <2>4 DEF ClientFitsHub
<1>7. \A d \in Client \ {c} : ClientFitsHub(d)'
  BY <1>1, <1>3, <1>4, OthersKept DEF HubFits
<1>8. CountFits'
  <2>1. \A d \in registry : conn'[d] = "registered" <=> conn[d] = "registered"
    BY <1>2, <1>3 DEF HubFits, HubTypes
  <2>2. HubTypes /\ CountFits /\ leaving \subseteq Client
    BY DEF HubFits, CountFits
  <2>3. \A d \in leaving : conn'[d] \in Early \cup {"registered"}
                           => conn[d] \in Early \cup {"registered"}
    BY <1>3, <2>2
  <2>4. QED
    BY <1>1, <2>1, <2>2, <2>3, CountKept
<1>9. QED
  BY <1>5, <1>6, <1>7, <1>8 DEF HubFits

(* The oldest message goes from the channel to the forwarder's hand.       *)
LEMMA RecvStep ==
  ASSUME HubFits, NEW c \in Client, Recv(c)
  PROVE  HubFits'
<1> DEFINE m == Head(queue[c])
<1>1. /\ forwarder[c].pc = "waiting" /\ queue[c] # <<>>
      /\ forwarder' = [forwarder EXCEPT ![c] = [pc |-> "writing", hand |-> <<m>>]]
      /\ queue' = [queue EXCEPT ![c] = Tail(queue[c])]
      /\ UNCHANGED <<conn, registry, scopes, count, leaving, pending, events, since, got, lost>>
  BY DEF Recv, hubhistory, HubFits, HubTypes
<1>2. queue[c] \in Seq(Nat) /\ OrderFits(c) /\ HandFits(c) /\ BeginsFit(c)
  BY DEF HubFits, HubTypes, ClientFitsHub
<1>3. /\ m \in Nat /\ Tail(queue[c]) \in Seq(Nat) /\ Upwards(Tail(queue[c]))
      /\ EventsIn(queue[c]) = EventsIn(<<m>>) \cup EventsIn(Tail(queue[c]))
      /\ Precede(EventsIn(<<m>>), EventsIn(Tail(queue[c])))
  BY <1>1, <1>2, HeadFirst DEF OrderFits
<1> HIDE DEF m
<1>4. /\ queue' \in [Client -> Seq(Nat)] /\ queue'[c] = Tail(queue[c])
      /\ \A d \in Client \ {c} : queue'[d] = queue[d]
  BY <1>1, <1>3 DEF HubFits, HubTypes
<1>5. /\ forwarder' \in [Client -> [pc : {"none", "waiting", "writing", "ended"}, hand : Seq(Nat)]]
      /\ forwarder'[c].pc = "writing" /\ forwarder'[c].hand = <<m>>
      /\ \A d \in Client \ {c} : forwarder'[d] = forwarder[d]
  <2>1. <<m>> \in Seq(Nat)
    BY <1>3
  <2>2. QED
    BY <1>1, <2>1 DEF HubFits, HubTypes
<1>6. EventsIn(forwarder[c].hand) = {}
  BY <1>1, <1>2, NoMessage DEF HandFits
<1>7. HubTypes'
  BY <1>1, <1>4, <1>5 DEF HubFits, HubTypes
<1>8. ClientFitsHub(c)'
  <2>1. HandFits(c)'
    BY <1>3, <1>5 DEF HandFits
  <2>2. BeginsFit(c)' /\ SinceFits(c)'
    BY <1>1, <1>2 DEF HubFits, ClientFitsHub, BeginsFit, SinceFits, Early
  <2>3. OrderFits(c)'
    BY <1>1, <1>2, <1>3, <1>4, <1>5 DEF OrderFits, Precede
  <2>4. Seen(c)' = Seen(c) /\ Owed(c)' = Owed(c)
    BY <1>1, <1>3, <1>4, <1>5, <1>6 DEF Seen, Owed
  <2>5. Open(c)' => Open(c)
    BY <1>1 DEF Open
  <2>6. ExactFits(c)'
    BY <2>4, <2>5 DEF HubFits, ClientFitsHub, ExactFits
  <2>7. QED
    BY <2>1, <2>2, <2>3, <2>6 DEF ClientFitsHub
<1>9. \A d \in Client \ {c} : ClientFitsHub(d)'
  BY <1>1, <1>4, <1>5, OthersKept DEF HubFits
<1>10. CountFits'
  BY <1>1, CountKept DEF HubFits
<1>11. QED
  BY <1>7, <1>8, <1>9, <1>10 DEF HubFits

(* What the forwarder holds is written: an event counts as got.            *)
LEMMA WriteStep ==
  ASSUME HubFits, NEW c \in Client, Write(c)
  PROVE  HubFits'
<1>1. /\ forwarder[c].pc = "writing"
      /\ got' = [got EXCEPT ![c] = IF forwarder[c].hand = <<Reply>> THEN got[c]
                                   ELSE got[c] \o forwarder[c].hand]
      /\ forwarder' = [forwarder EXCEPT ![c] = [pc |-> "waiting", hand |-> <<>>]]
      /\ UNCHANGED <<conn, registry, scopes, queue, count, leaving, pending, events, since, lost>>
  BY DEF Write, HubFits, HubTypes
<1>2. /\ got \in [Client -> Seq(Nat)] /\ got[c] \in Seq(Nat)
      /\ OrderFits(c) /\ HandFits(c) /\ BeginsFit(c)
  BY DEF HubFits, HubTypes, ClientFitsHub
<1>3. PICK m \in Nat : forwarder[c].hand = <<m>>
  BY <1>1, <1>2 DEF HandFits
<1>4. EventsIn(forwarder[c].hand) = {m} \ {Reply}
  BY <1>3, OneMessage
<1>5. PICK g \in Seq(Nat) :
        /\ got' = [got EXCEPT ![c] = g]
        /\ Upwards(g) /\ EventsIn(g) = EventsIn(got[c]) \cup ({m} \ {Reply})
        /\ \A i \in DOMAIN g : g[i] # Reply
  <2>1. CASE m = Reply
    BY <1>1, <1>2, <1>3, <2>1 DEF OrderFits
  <2>2. CASE m # Reply
    <3>1. got' = [got EXCEPT ![c] = Append(got[c], m)]
      <4>1. forwarder[c].hand # <<Reply>>
        BY <1>3, <2>2
      <4>2. got[c] \o <<m>> = Append(got[c], m)
        BY <1>2
      <4>3. QED
        BY <1>1, <1>3, <4>1, <4>2
    <3>2. /\ Append(got[c], m) \in Seq(Nat) /\ Upwards(Append(got[c], m))
          /\ EventsIn(Append(got[c], m)) = EventsIn(got[c]) \cup ({m} \ {Reply})
      BY <1>2, <1>4, LastLast DEF OrderFits
    <3>3. \A i \in DOMAIN Append(got[c], m) : Append(got[c], m)[i] # Reply
      BY <1>2, <2>2 DEF OrderFits
    <3>4. QED
      BY <3>1, <3>2, <3>3
  <2>3. QED
    BY <2>1, <2>2
<1>6. /\ got' \in [Client -> Seq(Nat)] /\ got'[c] = g
      /\ \A d \in Client \ {c} : got'[d] = got[d]
  BY <1>2, <1>5
<1>7. /\ forwarder' \in [Client -> [pc : {"none", "waiting", "writing", "ended"}, hand : Seq(Nat)]]
      /\ forwarder'[c].pc = "waiting" /\ forwarder'[c].hand = <<>>
      /\ \A d \in Client \ {c} : forwarder'[d] = forwarder[d]
  BY <1>1 DEF HubFits, HubTypes
<1>8. EventsIn(forwarder'[c].hand) = {}
  BY <1>7, NoMessage
<1>9. HubTypes'
  BY <1>1, <1>6, <1>7 DEF HubFits, HubTypes
<1>10. ClientFitsHub(c)'
  <2>1. HandFits(c)'
    BY <1>7 DEF HandFits
  <2>2. BeginsFit(c)' /\ SinceFits(c)'
    BY <1>1, <1>2 DEF HubFits, ClientFitsHub, BeginsFit, SinceFits, Early
  <2>3. OrderFits(c)'
    BY <1>1, <1>2, <1>4, <1>5, <1>6, <1>8 DEF OrderFits, Precede
  <2>4. Seen(c)' = Seen(c) /\ Owed(c)' = Owed(c)
    BY <1>1, <1>4, <1>5, <1>6, <1>8 DEF Seen, Owed
  <2>5. Open(c)' => Open(c)
    BY <1>1 DEF Open
  <2>6. ExactFits(c)'
    BY <2>4, <2>5 DEF HubFits, ClientFitsHub, ExactFits
  <2>7. QED
    BY <2>1, <2>2, <2>3, <2>6 DEF ClientFitsHub
<1>11. \A d \in Client \ {c} : ClientFitsHub(d)'
  BY <1>1, <1>6, <1>7, OthersKept DEF HubFits
<1>12. CountFits'
  BY <1>1, CountKept DEF HubFits
<1>13. QED
  BY <1>9, <1>10, <1>11, <1>12 DEF HubFits


(* The entry is removed by the broadcast that found it closed, or by the   *)
(* read loop that ends.                                                    *)
LEMMA RemovalStep ==
  ASSUME HubFits, NEW c \in Client, RemoveClosed(c) \/ CleanUp(c)
  PROVE  HubFits'
<1>1. /\ RemoveEntry(c)
      /\ UNCHANGED <<forwarder, scopes, queue, events, since, got, lost>>
      /\ pending' \subseteq pending
      /\ conn' = conn \/ (conn[c] = "closing" /\ conn' = [conn EXCEPT ![c] = "gone"])
  BY DEF RemoveClosed, CleanUp, hubhistory
<1>2. conn[c] \notin Early \cup {"registered"}
  BY DEF RemoveClosed, CleanUp, HubFits, ClientFitsHub, BeginsFit, Early
<1>3. /\ conn' \in [Client -> Early \cup {"registered", "reading", "closing", "gone"}]
      /\ conn'[c] \notin Early \cup {"registered"}
      /\ \A d \in Client \ {c} : conn'[d] = conn[d]
  BY <1>1, <1>2 DEF HubFits, HubTypes, Early
<1>4. /\ registry' \subseteq Client /\ IsFiniteSet(registry') /\ count' \in Nat
      /\ CountFits'
      /\ \A d \in Client \ {c} : d \in registry' <=> d \in registry
      /\ c \notin registry'
  BY <1>1, <1>2, <1>3, EntryGoes DEF HubFits
<1>5. HubTypes'
  BY <1>1, <1>3, <1>4 DEF HubFits, HubTypes
<1>6. ClientFitsHub(c)'
  <2>1. BeginsFit(c)'
    BY <1>1, <1>3 DEF HubFits, ClientFitsHub, BeginsFit
  <2>2. HandFits(c)' /\ SinceFits(c)' /\ OrderFits(c)'
    BY <1>1 DEF HubFits, ClientFitsHub, HandFits, SinceFits, OrderFits
  <2>3. ~Open(c)'
    BY <1>4 DEF Open
  <2>4. QED
    BY <2>1, <2>2, <2>3 DEF ClientFitsHub, ExactFits
<1>7. \A d \in Client \ {c} : ClientFitsHub(d)'
  BY <1>1, <1>3, <1>4, OthersKept DEF HubFits
<1>8. QED
  BY <1>4, <1>5, <1>6, <1>7 DEF HubFits

(* An event reaches the channels of those it is owed to, and no other.     *)
LEMMA BroadcastStep ==
  ASSUME HubFits, NEW s \in Scope, Broadcast(s)
  PROVE  HubFits'
<1> DEFINE n == Len(events) + 1
           to == {c \in Interested(s) : Open(c)}
<1>1. /\ events \in Seq(Scope) /\ Len(events) \in Nat /\ Len(events) < MaxEvents
      /\ events' = Append(events, s)
      /\ UNCHANGED <<conn, forwarder, registry, scopes, count, leaving, since, got>>
      /\ pending' = pending \cup {c \in Interested(s) : ~Open(c)}
  BY DEF Broadcast, HubFits, HubTypes
<1>2. /\ events' \in Seq(Scope) /\ Len(events') = n /\ n <= MaxEvents /\ n \in Nat /\ n > Len(events)
      /\ DOMAIN events' = DOMAIN events \cup {n} /\ n \notin DOMAIN events
      /\ events'[n] = s /\ \A e \in DOMAIN events : events'[e] = events[e]
  <2>1. MaxEvents \in Nat
    BY HubAssumption
  <2>2. QED
    BY <1>1, <2>1
<1>3. /\ queue' = [c \in Client |-> IF c \in to THEN Sent(queue[c], n) ELSE queue[c]]
      /\ lost' = [c \in Client |-> IF c \in to THEN lost[c] \cup Forgotten(queue[c]) ELSE lost[c]]
  BY <1>2 DEF Broadcast
<1> HIDE DEF n
<1>4. ASSUME NEW c \in Client
      PROVE  /\ queue'[c] \in Seq(Nat) /\ lost'[c] \in SUBSET Nat
             /\ ClientFitsHub(c)'
  <2>1. /\ queue[c] \in Seq(Nat) /\ lost[c] \in SUBSET Nat /\ got[c] \in Seq(Nat)
        /\ since[c] \in [Scope -> Nat] /\ ClientFitsHub(c)
    BY DEF HubFits, HubTypes
  <2>2. BeginsFit(c)' /\ HandFits(c)'
    <3>1. c \in Interested(s) => conn[c] \notin Early \cup {"registered"} \/ Open(c)
      BY <2>1 DEF ClientFitsHub, BeginsFit, Interested, Open
    <3>2. c \in to => conn[c] \notin Early
      BY <2>1 DEF ClientFitsHub, BeginsFit, Interested
    <3>3. c \in pending' => forwarder[c].pc = "ended"
      BY <1>1, <2>1 DEF ClientFitsHub, BeginsFit, Interested, Open
    <3>4. QED
      BY <1>1, <1>3, <2>1, <3>2, <3>3 DEF ClientFitsHub, BeginsFit, HandFits
  <2>3. SinceFits(c)'
    BY <1>1, <1>2, <2>1 DEF ClientFitsHub, SinceFits
  <2>4. Owed(c)' = Owed(c) \cup (IF s \in scopes[c] THEN {n} ELSE {})
    <3>1. \A e \in DOMAIN events : e > since'[c][events'[e]] <=> e > since[c][events[e]]
      BY <1>1, <1>2
    <3>2. n > since'[c][events'[n]] <=> s \in scopes[c]
      BY <1>1, <1>2, <2>1, HubAssumption DEF ClientFitsHub, SinceFits
    <3>3. QED
      BY <1>2, <3>1, <3>2 DEF Owed
  <2>5. CASE c \in to
    <3>1. /\ queue'[c] = Sent(queue[c], n) /\ lost'[c] = lost[c] \cup Forgotten(queue[c])
          /\ s \in scopes[c] /\ Open(c)
      BY <1>3, <2>5 DEF Interested
    <3>2. /\ Upwards(queue[c]) /\ Precede(EventsIn(queue[c]), {n} \ {Reply})
          /\ {n} \ {Reply} = {n}
      BY <1>1, <1>2, <2>1 DEF ClientFitsHub, OrderFits, Precede, Reply
    <3>3. /\ Sent(queue[c], n) \in Seq(Nat) /\ Upwards(Sent(queue[c], n))
          /\ Forgotten(queue[c]) \subseteq EventsIn(queue[c])
          /\ EventsIn(Sent(queue[c], n)) \subseteq EventsIn(queue[c]) \cup {n}
          /\ EventsIn(Sent(queue[c], n)) \cup Forgotten(queue[c]) = EventsIn(queue[c]) \cup {n}
      BY <1>2, <2>1, <3>2, SentOrForgotten
    <3>4. EventsIn(queue[c]) \subseteq Nat
      BY <2>1 DEF EventsIn
    <3>5. OrderFits(c)'
      <4>1. /\ Upwards(got[c])' /\ Upwards(queue[c])' /\ \A i \in DOMAIN got'[c] : got'[c][i] # Reply
        BY <1>1, <2>1, <3>1, <3>3 DEF ClientFitsHub, OrderFits
      <4>2. /\ EventsIn(got[c]) \subseteq 0..Len(events)
            /\ EventsIn(forwarder[c].hand) \subseteq 0..Len(events)
            /\ EventsIn(queue[c]) \subseteq 0..Len(events)
        BY <2>1 DEF ClientFitsHub, OrderFits
      <4>3. /\ Precede(EventsIn(got[c]), EventsIn(forwarder[c].hand))
            /\ Precede(EventsIn(got[c]), EventsIn(queue[c]) \cup {n})
            /\ Precede(EventsIn(forwarder[c].hand), EventsIn(queue[c]) \cup {n})
        BY <1>1, <1>2, <2>1, <4>2 DEF ClientFitsHub, OrderFits, Precede
      <4>4. /\ Precede(EventsIn(got'[c]), EventsIn(queue'[c]))
            /\ Precede(EventsIn(forwarder'[c].hand), EventsIn(queue'[c]))
        BY <1>1, <3>1, <3>3, <4>3 DEF Precede
      <4>5. EventsIn(got'[c]) \cup EventsIn(forwarder'[c].hand) \cup EventsIn(queue'[c]) \subseteq 0..Len(events')
        BY <1>1, <1>2, <3>1, <3>3, <4>2
      <4>6. Precede(EventsIn(got'[c]), EventsIn(forwarder'[c].hand))
        BY <1>1, <4>3
      <4>7. QED
        BY <4>1, <4>4, <4>5, <4>6 DEF OrderFits
    <3>6. Seen(c)' = Seen(c) \cup {n}
      BY <1>1, <3>1, <3>3 DEF Seen
    <3>7. ExactFits(c)'
      BY <2>1, <2>4, <3>1, <3>6 DEF ClientFitsHub, ExactFits
    <3>8. lost'[c] \in SUBSET Nat
      BY <2>1, <3>1, <3>3, <3>4
    <3>9. QED
      BY <2>2, <2>3, <3>1, <3>3, <3>5, <3>7, <3>8 DEF ClientFitsHub
  <2>6. CASE c \notin to
    <3>1. queue'[c] = queue[c] /\ lost'[c] = lost[c]
      BY <1>3, <2>6
    <3>2. OrderFits(c)'
      BY <1>1, <1>2, <2>1, <3>1 DEF ClientFitsHub, OrderFits
    <3>3. Seen(c)' = Seen(c)
      BY <1>1, <3>1 DEF Seen
    <3>4. Open(c)' => Open(c) /\ s \notin scopes[c]
      BY <1>1, <2>6 DEF Open, Interested
    <3>5. ExactFits(c)'
      BY <2>1, <2>4, <3>3, <3>4 DEF ClientFitsHub, ExactFits
    <3>6. QED
      BY <2>1, <2>2, <2>3, <3>1, <3>2, <3>5 DEF ClientFitsHub
  <2>7. QED
    BY <2>5, <2>6
<1>5. HubTypes'
  <2>1. queue' \in [Client -> Seq(Nat)] /\ lost' \in [Client -> SUBSET Nat]
    <3>1. /\ queue' = [c \in Client |-> queue'[c]] /\ lost' = [c \in Client |-> lost'[c]]
      BY <1>3
    <3>2. QED
      BY <1>4, <3>1
  <2>2. pending' \subseteq Client
    BY <1>1 DEF HubFits, HubTypes, Interested
  <2>3. QED
    BY <1>1, <1>2, <2>1, <2>2 DEF HubFits, HubTypes
<1>6. CountFits'
  BY <1>1, CountKept DEF HubFits
<1>7. QED
  BY <1>4, <1>5, <1>6 DEF HubFits

LEMMA HubInductive == HubFits /\ [HubNext]_hubvars => HubFits'
<1> SUFFICES ASSUME HubFits, [HubNext]_hubvars PROVE HubFits'
  OBVIOUS
<1>1. ASSUME NEW c \in Client, Connection(c)
      PROVE  HubFits'
  BY <1>1, UpgradeStep, RegisterStep, WelcomeStep, AskStep, SubscribeStep, ForwarderEnds,
     RecvStep, WriteStep, RemovalStep, CountDownStep DEF Connection
<1>2. ASSUME NEW s \in Scope, Broadcast(s)
      PROVE  HubFits'
  BY <1>2, BroadcastStep
<1>3. CASE UNCHANGED hubvars
  <2>1. UNCHANGED <<conn, forwarder, registry, scopes, queue, count, leaving, pending, events, since, got, lost>>
    BY <1>3 DEF hubvars
  <2>2. HubTypes' /\ CountFits'
    BY <2>1 DEF HubFits, HubTypes, CountFits, Counted
  <2>3. \A c \in Client : ClientFitsHub(c)'
    BY <2>1, OthersKept DEF HubFits
  <2>4. QED
    BY <2>2, <2>3 DEF HubFits
<1>4. QED
  BY <1>1, <1>2, <1>3 DEF HubNext

LEMMA HubSound == HubFits => ExactStream /\ CountIsRegistry
<1> SUFFICES ASSUME HubFits PROVE ExactStream /\ CountIsRegistry
  OBVIOUS
<1>1. CountIsRegistry
  BY DEF HubFits, CountFits, Counted, CountIsRegistry
<1>2. ASSUME NEW c \in Client
      PROVE  /\ \A i, j \in DOMAIN got[c] : i < j => got[c][i] < got[c][j]
             /\ Open(c) => EventsIn(got[c]) \cup EventsIn(forwarder[c].hand) \cup EventsIn(queue[c])
                             \cup lost[c] = Owed(c)
  BY DEF HubFits, ClientFitsHub, OrderFits, Upwards, ExactFits, Seen
<1>3. QED
  BY <1>1, <1>2 DEF ExactStream

-----------------------------------------------------------------------------
(* The parts in one program.                                               *)

ServicesFit == ServeFits /\ HubFits /\ ChainFits

LEMMA ServicesInitial == MCInit => ServicesFit
BY ServeInitial, HubInitial, ChainInitial DEF MCInit, ServicesFit

LEMMA ServicesInductive == ServicesFit /\ [MCNext]_mvars => ServicesFit'
<1> SUFFICES ASSUME ServicesFit, [MCNext]_mvars PROVE ServicesFit'
  OBVIOUS
<1>1. /\ [ServeNext]_servevars /\ [HubNext]_hubvars /\ [ChainNext]_chainvars
  BY DEF MCNext, mvars, Other
<1>2. QED
  BY <1>1, ServeInductive, HubInductive, ChainInductive DEF ServicesFit

(* The inductive invariant of a program's services: of its chat requests,  *)
(* its WebSocket connections and its chain of providers, for any number of *)
(* requests, permits, clients, streams, events, callers and providers.     *)
THEOREM ServicesInvariance == MCSpec => []ServicesFit
<1>1. MCInit /\ [][MCNext]_mvars => []ServicesFit
  BY ServicesInitial, ServicesInductive, PTL
<1>2. QED
  BY <1>1, PTL DEF MCSpec

(* A success that a client was told is on record; every permit is with a   *)
(* request or back, and the active tasks are counted, however requests end *)
(* (http.rs:511-518); the servers end only after the last answer; and the  *)
(* bot serves whom its configuration authorizes (discord.rs:74-98).        *)
THEOREM Service == MCSpec => []ServiceIsSound
<1>1. ServicesFit => ServiceIsSound
  BY ServeSound, ChainSound, Authorized DEF ServicesFit, ServiceIsSound
<1>2. QED
  BY <1>1, ServicesInvariance, PTL

(* A subscriber gets the events of its streams, each once, in order, and   *)
(* no other; what is missing was forgotten by its full channel; and the    *)
(* count of connections is the number of entries (ws.rs:535-565).          *)
THEOREM Streams == MCSpec => []StreamsAreExact
<1>1. ServicesFit => StreamsAreExact
  BY HubSound DEF ServicesFit, StreamsAreExact
<1>2. QED
  BY <1>1, ServicesInvariance, PTL

(* A provider is passed over if its own answers condemn it, and only then, *)
(* however the calls interleave (fallback.rs).                             *)
THEOREM Evidenced == MCSpec => SkipsOnEvidence
<1>1. ServicesFit => \A c \in Clients : /\ PassOver(c) => Tripped(Current(c))
                                        /\ Try(c) => ~Tripped(Current(c))
  BY EvidenceRules DEF ServicesFit
<1>2. QED
  BY <1>1, ServicesInvariance, PTL DEF SkipsOnEvidence


=============================================================================
