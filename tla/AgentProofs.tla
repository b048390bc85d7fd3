----------------------------- MODULE AgentProofs -----------------------------
(***************************************************************************)
(* The tool gate and the agent loop, for any calls, agents, operators,     *)
(* limits and plans.                                                       *)
(***************************************************************************)
EXTENDS MCAgents, ComposerProofs, FiniteSetTheorems

-----------------------------------------------------------------------------
(* A set of numbers up to n that holds all below each of its members is    *)
(* 1..m, where m is how many they are.                                     *)
LEMMA InitialSegment ==
  ASSUME NEW n \in Nat, NEW S \in SUBSET (1..n),
         \A i \in S : \A k \in 1..i : k \in S
  PROVE  /\ Cardinality(S) \in 0..n
         /\ 1..Cardinality(S) \subseteq S
<1>1. /\ IsFiniteSet(1..n) /\ Cardinality(1..n) = n
  BY FS_Interval
<1>2. IsFiniteSet(S) /\ Cardinality(S) \in Nat /\ Cardinality(S) <= n
  BY <1>1, FS_Subset, FS_CardinalityType
<1>3. ASSUME NEW i \in 1..Cardinality(S), i \notin S
      PROVE  FALSE
  <2>1. i \in Nat /\ i >= 1 /\ i - 1 \in Nat /\ i <= Cardinality(S)
    BY <1>2, <1>3
  <2>2. \A k \in S : k < i
    BY <1>3, <2>1
  <2>3. S \subseteq 1..(i - 1)
    BY <2>1, <2>2
  <2>4. IsFiniteSet(1..(i - 1)) /\ Cardinality(1..(i - 1)) = i - 1
    BY <2>1, FS_Interval
  <2>5. Cardinality(S) <= i - 1
    BY <2>3, <2>4, FS_Subset
  <2>6. QED
    BY <1>2, <2>1, <2>5
<1>4. QED
  BY <1>2, <1>3

(* A set of such numbers that is not empty has a least member. *)
LEMMA LeastOf ==
  ASSUME NEW n \in Nat, NEW S \in SUBSET (1..n), S # {}
  PROVE  \E i \in S : \A j \in S : i <= j
<1> DEFINE T == {i \in 1..n : \A j \in S : i < j}
           k == Cardinality(T)
<1>1. \A i \in T : \A j \in 1..i : j \in T
  OBVIOUS
<1>2. k \in 0..n /\ 1..k \subseteq T
  BY <1>1, InitialSegment
<1>3. \A j \in S : k < j
  <2>1. ASSUME NEW j \in S, j <= k
        PROVE  FALSE
    <3>1. j \in 1..k
      BY <1>2, <2>1
    <3>2. j \in T
      BY <1>2, <3>1
    <3>3. QED
      BY <3>2
  <2>2. QED
    BY <1>2, <2>1
<1>4. k + 1 \in 1..n
  <2>1. PICK j \in S : TRUE
    OBVIOUS
  <2>2. k < j /\ j \in 1..n /\ k \in Nat
    BY <1>2, <1>3, <2>1
  <2> HIDE DEF k
  <2>3. QED
    BY <2>2
<1>5. k + 1 \notin T
  <2>1. ASSUME k + 1 \in T
        PROVE  FALSE
    <3>1. 1..(k + 1) \subseteq T
      BY <1>1, <2>1
    <3>2. /\ IsFiniteSet(1..(k + 1)) /\ Cardinality(1..(k + 1)) = k + 1
          /\ IsFiniteSet(1..n)
      BY <1>2, <1>4, FS_Interval
    <3>3. IsFiniteSet(T)
      BY <3>2, FS_Subset
    <3>4. k + 1 <= k
      BY <3>1, <3>2, <3>3, FS_Subset
    <3>5. QED
      BY <1>2, <3>4
  <2>2. QED
    BY <2>1
<1> HIDE DEF k
<1>6. PICK j \in S : j <= k + 1
  BY <1>2, <1>4, <1>5
<1>7. j = k + 1
  BY <1>2, <1>3, <1>6
<1>8. QED
  BY <1>2, <1>3, <1>7

(* The rate tracker pops stale times only, and keeps the rest in order.    *)
LEMMA RecentFacts ==
  ASSUME NEW t \in Seq(Nat), NEW now \in Nat, NEW w \in Nat
  PROVE  \E k \in 0..Len(t) :
           /\ \A i \in 1..k : t[i] + w <= now
           /\ Recent(t, now, w) \in Seq(Nat)
           /\ Len(Recent(t, now, w)) = Len(t) - k
           /\ \A i \in 1..(Len(t) - k) : Recent(t, now, w)[i] = t[k + i]
<1> DEFINE S == Stale(t, now, w)
           k == Cardinality(S)
<1>1. S \in SUBSET (1..Len(t)) /\ \A i \in S : \A j \in 1..i : j \in S
  BY DEF Stale
<1>2. k \in 0..Len(t) /\ 1..k \subseteq S
  BY <1>1, InitialSegment
<1>3. \A i \in 1..k : t[i] + w <= now
  <2>1. \A i \in S : t[i] + w <= now
    BY <1>1 DEF Stale
  <2>2. QED
    BY <1>2, <2>1
<1>4. Recent(t, now, w) = SubSeq(t, k + 1, Len(t))
  BY DEF Recent
<1> HIDE DEF k, S
<1>5. /\ SubSeq(t, k + 1, Len(t)) \in Seq(Nat)
      /\ Len(SubSeq(t, k + 1, Len(t))) = Len(t) - k
      /\ \A i \in 1..(Len(t) - k) : SubSeq(t, k + 1, Len(t))[i] = t[k + i]
  BY <1>2
<1>6. QED
  BY <1>2, <1>3, <1>4, <1>5

-----------------------------------------------------------------------------
(* What a rate tracker knows of the grants g of its agent: the latest, and *)
(* those it has forgotten are out of the window.                           *)
Tracks(t, g, now) ==
  /\ Len(t) <= Len(g)
  /\ \A i \in 1..Len(t) : t[i] = g[Len(g) - Len(t) + i]
  /\ \A i \in 1..(Len(g) - Len(t)) : g[i] + Window <= now

InWindow(g) ==
  \A i \in DOMAIN g : i + MaxRate \in DOMAIN g => g[i + MaxRate] >= g[i] + Window

(* check_and_record keeps what the tracker knows, and the limit.           *)
LEMMA CheckFacts ==
  ASSUME NEW t \in Seq(Nat), NEW g \in Seq(Nat), NEW now \in Nat,
         Tracks(t, g, now), InWindow(g)
  PROVE  LET c == CheckAndRecord(t, now, Window, MaxRate)
         IN /\ c.tracker \in Seq(Nat)
            /\ c.allowed => Tracks(c.tracker, Append(g, now), now) /\ InWindow(Append(g, now))
            /\ ~c.allowed => Tracks(c.tracker, g, now)
<1> DEFINE u == Recent(t, now, Window)
           h == Append(g, now)
<1>0. Window \in Nat /\ MaxRate \in Nat
  BY GateAssumption
<1>1. PICK k \in 0..Len(t) :
        /\ \A i \in 1..k : t[i] + Window <= now
        /\ u \in Seq(Nat)
        /\ Len(u) = Len(t) - k
        /\ \A i \in 1..(Len(t) - k) : u[i] = t[k + i]
  BY <1>0, RecentFacts
<1>2. Len(g) \in Nat /\ Len(t) \in Nat /\ Len(u) \in Nat
  BY <1>1
<1> HIDE DEF u
<1>3. Tracks(u, g, now)
  <2>1. Len(u) <= Len(g)
    BY <1>1, <1>2 DEF Tracks
  <2>2. ASSUME NEW i \in 1..Len(u)
        PROVE  u[i] = g[Len(g) - Len(u) + i]
    <3>1. k + i \in 1..Len(t) /\ u[i] = t[k + i]
      BY <1>1, <1>2
    <3>2. t[k + i] = g[Len(g) - Len(t) + (k + i)]
      BY <3>1 DEF Tracks
    <3>3. Len(g) - Len(t) + (k + i) = Len(g) - Len(u) + i
      BY <1>1, <1>2
    <3>4. QED
      BY <3>1, <3>2, <3>3
  <2>3. ASSUME NEW i \in 1..(Len(g) - Len(u))
        PROVE  g[i] + Window <= now
    <3>1. CASE i \in 1..(Len(g) - Len(t))
      BY <3>1 DEF Tracks
    <3>2. CASE i > Len(g) - Len(t)
      <4> DEFINE j == i - (Len(g) - Len(t))
      <4>1. j \in 1..k
        BY <1>1, <1>2, <3>2
      <4>2. Len(g) - Len(t) + j = i /\ j \in 1..Len(t)
        BY <1>1, <1>2, <4>1
      <4> HIDE DEF j
      <4>3. t[j] = g[Len(g) - Len(t) + j]
        BY <4>2 DEF Tracks
      <4>4. QED
        BY <1>1, <4>1, <4>2, <4>3
    <3>3. QED
      BY <1>1, <1>2, <3>1, <3>2
  <2>4. QED
    BY <2>1, <2>2, <2>3 DEF Tracks
<1>4. ASSUME Len(u) < MaxRate
      PROVE  Tracks(Append(u, now), h, now) /\ InWindow(h)
  <2>1. /\ h \in Seq(Nat) /\ Len(h) = Len(g) + 1 /\ h[Len(g) + 1] = now
        /\ \A i \in 1..Len(g) : h[i] = g[i]
    BY <1>2
  <2>2. /\ Append(u, now) \in Seq(Nat) /\ Len(Append(u, now)) = Len(u) + 1
        /\ Append(u, now)[Len(u) + 1] = now
        /\ \A i \in 1..Len(u) : Append(u, now)[i] = u[i]
    BY <1>1, <1>2
  <2> HIDE DEF h
  <2> DEFINE v == Append(u, now)
  <2>3. /\ Len(v) = Len(u) + 1 /\ v[Len(u) + 1] = now /\ \A i \in 1..Len(u) : v[i] = u[i]
    BY <2>2
  <2> HIDE DEF v
  <2>4. Len(u) <= Len(g) /\ (\A i \in 1..Len(u) : u[i] = g[Len(g) - Len(u) + i])
        /\ \A i \in 1..(Len(g) - Len(u)) : g[i] + Window <= now
    BY <1>3 DEF Tracks
  <2>5. Len(h) - Len(v) = Len(g) - Len(u)
    BY <1>2, <2>1, <2>3
  <2>6. ASSUME NEW i \in 1..Len(v)
        PROVE  v[i] = h[Len(h) - Len(v) + i]
    <3>1. CASE i \in 1..Len(u)
      <4>1. Len(g) - Len(u) + i \in 1..Len(g)
        BY <1>2, <2>4, <3>1
      <4>2. QED
        BY <2>1, <2>3, <2>4, <2>5, <3>1, <4>1
    <3>2. CASE i = Len(u) + 1
      <4>1. Len(g) - Len(u) + i = Len(g) + 1
        BY <1>2, <3>2
      <4>2. QED
        BY <2>1, <2>3, <2>5, <3>2, <4>1
    <3>3. QED
      BY <1>2, <2>3, <3>1, <3>2
  <2>7. \A i \in 1..(Len(h) - Len(v)) : h[i] + Window <= now
    <3>1. ASSUME NEW i \in 1..(Len(h) - Len(v))
          PROVE  h[i] + Window <= now
      <4>1. i \in 1..(Len(g) - Len(u)) /\ i \in 1..Len(g)
        BY <1>2, <2>4, <2>5
      <4>2. QED
        BY <2>1, <2>4, <4>1
    <3>2. QED
      BY <3>1
  <2>8. Tracks(v, h, now)
    BY <1>2, <2>1, <2>3, <2>4, <2>6, <2>7 DEF Tracks
  <2>9. ASSUME NEW i \in DOMAIN h, i + MaxRate \in DOMAIN h
        PROVE  h[i + MaxRate] >= h[i] + Window
    <3>1. i \in 1..(Len(g) + 1) /\ i + MaxRate \in 1..(Len(g) + 1) /\ MaxRate > 0
      BY <1>0, <1>2, <1>4, <2>1, <2>9
    <3>2. CASE i + MaxRate \in 1..Len(g)
      <4>1. i \in 1..Len(g) /\ DOMAIN g = 1..Len(g)
        BY <1>0, <1>2, <3>1, <3>2
      <4>2. g[i + MaxRate] >= g[i] + Window
        BY <3>2, <4>1 DEF InWindow
      <4>3. QED
        BY <2>1, <3>2, <4>1, <4>2
    <3>3. CASE i + MaxRate = Len(g) + 1
      <4>1. i \in 1..(Len(g) - Len(u)) /\ i \in 1..Len(g)
        BY <1>0, <1>2, <1>4, <3>1, <3>3
      <4>2. g[i] \in Nat /\ g[i] + Window <= now
        BY <2>4, <4>1
      <4>3. h[i + MaxRate] = now /\ h[i] = g[i]
        BY <2>1, <3>3, <4>1
      <4>4. QED
        BY <1>0, <4>2, <4>3
    <3>4. QED
      BY <1>0, <1>2, <3>1, <3>2, <3>3
  <2>10. QED
    BY <2>8, <2>9 DEF InWindow, v
<1>5. /\ CheckAndRecord(t, now, Window, MaxRate).allowed <=> Len(u) < MaxRate
      /\ CheckAndRecord(t, now, Window, MaxRate).tracker
           = IF Len(u) < MaxRate THEN Append(u, now) ELSE u
  BY DEF CheckAndRecord, u
<1>6. Append(u, now) \in Seq(Nat)
  BY <1>1
<1>7. QED
  BY <1>1, <1>3, <1>4, <1>5, <1>6

-----------------------------------------------------------------------------
(* The inductive invariant of the gate.                                    *)
Callers == Returned \cup {"new", "checked", "asking", "auto", "waiting"}
Statuses == Decided \cup {"None", "Pending"}
Tracker == [times : Seq(Nat), seen : Nat]

TypesFit ==
  /\ clock \in Nat
  /\ DOMAIN trackers \subseteq Asker
  /\ trackers \in [DOMAIN trackers -> Tracker]
  /\ caller \in [Request -> Callers]
  /\ status \in [Request -> Statuses]
  /\ listed \subseteq {r \in Request : status[r] # "None"}
  /\ expires \in [Request -> Nat]
  /\ auto \in BOOLEAN
  /\ \A o \in Operator : operator[o] \in Request \cup {"nobody"}
  /\ granted \in [Asker -> Seq(Nat)]

(* A request exists once its caller has asked, is only made for a call     *)
(* that needs it, and is listed while it is open and its caller waits.     *)
CallersFit ==
  \A r \in Request :
    /\ caller[r] \in {"new", "checked"} => status[r] = "None"
    /\ caller[r] \in {"asking", "auto", "waiting", "dropped"} => status[r] # "None"
    /\ status[r] # "None" => Asks(Policy, CallOf[r], TRUE)
    /\ status[r] = "Pending" => r \in listed /\ caller[r] \in {"asking", "auto", "waiting"}
    /\ caller[r] = "ran" /\ status[r] # "None" => status[r] = "Approved"

(* A tracker knows the latest grants of its agent, those it has forgotten  *)
(* are out of the window, and so are all of an agent without a tracker.    *)
RatesFit ==
  \A a \in Asker :
    /\ InWindow(granted[a])
    /\ a \notin DOMAIN trackers =>
         \A i \in DOMAIN granted[a] : granted[a][i] + Window <= clock
    /\ a \in DOMAIN trackers =>
         /\ Tracks(trackers[a].times, granted[a], clock)
         /\ \A i \in DOMAIN granted[a] : granted[a][i] <= trackers[a].seen
         /\ trackers[a].seen <= clock

GInv == TypesFit /\ CallersFit /\ RunsConsented /\ RatesFit

-----------------------------------------------------------------------------
(* The decision of one request, and the expiry of those that are due.      *)
Decides(r) ==
  /\ CanTransition(r)
  /\ status'[r] \in Decided
  /\ status'[r] = "Approved" => clock < expires[r]

(* A transition decides the one request, if it is open.                    *)
LEMMA TransitionFacts ==
  ASSUME TypesFit, NEW r \in Request, NEW to \in Decided, Transition(r, to)
  PROVE  /\ status' \in [Request -> Statuses]
         /\ \A q \in Request : q # r => status'[q] = status[q]
         /\ IF CanTransition(r) THEN Decides(r) /\ status'[r] = Effective(r, to)
                                ELSE status'[r] = status[r]
<1>1. Effective(r, to) \in Decided
      /\ (Effective(r, to) = "Approved" => clock < expires[r])
  BY DEF Effective, Decided, Due, TypesFit
<1>2. status' = IF CanTransition(r) THEN [status EXCEPT ![r] = Effective(r, to)] ELSE status
  BY DEF Transition
<1>3. QED
  BY <1>1, <1>2 DEF TypesFit, Statuses, Decides

(* expire_due_requests decides the open ones that are due.                 *)
LEMMA ExpireFacts ==
  ASSUME TypesFit, ExpireDue
  PROVE  /\ status' \in [Request -> Statuses]
         /\ \A q \in Request :
              IF CanTransition(q) /\ Due(q) THEN Decides(q) /\ status'[q] = "Expired"
                                            ELSE status'[q] = status[q]
<1>1. status' = [r \in Request |-> IF CanTransition(r) /\ Due(r) THEN "Expired" ELSE status[r]]
  BY DEF ExpireDue, ExpiredDue
<1>2. QED
  BY <1>1 DEF TypesFit, Statuses, Decided, Decides

(* The ways a request and its caller go on together. *)
Still(r) == status'[r] = status[r] \/ Decides(r)

Rated(r) ==
  caller[r] = "new" /\ caller'[r] \in {"checked", "refused"} /\ status'[r] = status[r]

Judged(r) ==
  /\ caller[r] = "checked" /\ ~Asks(Policy, CallOf[r], TRUE)
  /\ caller'[r] = Verdict(r, FALSE) /\ status'[r] = status[r]

Asked(r) ==
  /\ caller[r] = "checked" /\ Asks(Policy, CallOf[r], TRUE)
  /\ caller'[r] = "asking" /\ status'[r] = "Pending"

Waits(r) ==
  /\ caller[r] = "asking" /\ caller'[r] \in {"auto", "waiting"}
  /\ Still(r) /\ r \in listed

Answered(r) ==
  /\ caller[r] \in {"asking", "auto", "waiting"} /\ Still(r)
  /\ status'[r] # "Pending"
  /\ \/ caller'[r] = "refused"
     \/ caller'[r] = "ran" /\ status'[r] = "Approved"
        /\ ~PolicyError(Policy, CallOf[r], TRUE, TRUE)

Leaves(r) ==
  /\ caller[r] \in {"asking", "auto", "waiting"} /\ Still(r)
  /\ status'[r] # "Pending" /\ caller'[r] = "dropped"
  /\ status'[r] = status[r] \/ status'[r] # "Approved"

Moves(r) == Rated(r) \/ Judged(r) \/ Asked(r) \/ Waits(r) \/ Answered(r) \/ Leaves(r)

(* One caller goes on.                                                     *)
LEMMA GotoFacts ==
  ASSUME TypesFit, NEW r \in Request, NEW place \in Callers, Goto(r, place)
  PROVE  /\ caller' \in [Request -> Callers]
         /\ caller'[r] = place
         /\ \A q \in Request : q # r => caller'[q] = caller[q]
BY DEF Goto, TypesFit

(* A call runs when no check refuses it.                                   *)
LEMMA VerdictFacts ==
  ASSUME NEW r \in Request, NEW approved \in BOOLEAN
  PROVE  /\ Verdict(r, approved) \in {"ran", "refused"}
         /\ Verdict(r, approved) = "ran" <=> ~PolicyError(Policy, CallOf[r], TRUE, approved)
BY DEF Verdict

(* An asked call that runs was approved. *)
LEMMA AskedMeansApproved ==
  ASSUME NEW r \in Request, NEW approved \in BOOLEAN,
         Asks(Policy, CallOf[r], TRUE),
         Verdict(r, approved) = "ran"
  PROVE  approved /\ ~PolicyError(Policy, CallOf[r], TRUE, TRUE)
<1>1. NeedsApproval(Policy, CallOf[r]) /\ Policy.engine
  BY DEF Asks
<1>2. ~PolicyError(Policy, CallOf[r], TRUE, approved)
  BY VerdictFacts
<1>3. approved
  BY <1>1, <1>2 DEF PolicyError
<1>4. QED
  BY <1>2, <1>3

(* Each step of a caller moves its request so, and no other. *)
LEMMA AdvanceMoves ==
  ASSUME GInv, NEW r \in Request, Advance(r) \/ CallerGone(r)
  PROVE  /\ Moves(r)
         /\ caller' \in [Request -> Callers] /\ status' \in [Request -> Statuses]
         /\ \A q \in Request : q # r => caller'[q] = caller[q]
         /\ \/ AwaitAuto(r)
            \/ \A q \in Request : q # r => status'[q] = status[q]
<1> USE DEF GInv
<1>1. /\ r \in listed => status[r] # "None"
      /\ status[r] = "Pending" => CanTransition(r)
      /\ status[r] \in Statuses /\ caller[r] \in Callers
  BY DEF TypesFit, CallersFit, CanTransition
<1>2. CASE PassRate(r)
  <2>1. Goto(r, "checked") /\ UNCHANGED status /\ caller[r] = "new"
    BY <1>2 DEF PassRate, requests
  <2>2. QED
    BY <1>1, <1>2, <2>1, GotoFacts DEF Callers, Moves, Rated, TypesFit, PassRate, AwaitAuto
<1>3. CASE HitRate(r)
  <2>1. Goto(r, "refused") /\ UNCHANGED status /\ caller[r] = "new"
    BY <1>3 DEF HitRate, requests
  <2>2. QED
    BY <1>1, <2>1, GotoFacts DEF Callers, Returned, Moves, Rated, TypesFit, AwaitAuto
<1>4. CASE Unasked(r)
  <2>1. Goto(r, Verdict(r, FALSE)) /\ UNCHANGED status /\ caller[r] = "checked"
        /\ ~Asks(Policy, CallOf[r], TRUE)
    BY <1>4 DEF Unasked, requests
  <2>2. Verdict(r, FALSE) \in Callers
    BY VerdictFacts DEF Callers, Returned
  <2>3. QED
    BY <2>1, <2>2, GotoFacts DEF Moves, Judged, TypesFit, AwaitAuto
<1>5. CASE Submit(r)
  <2>1. Goto(r, "asking") /\ status' = [status EXCEPT ![r] = "Pending"] /\ caller[r] = "checked"
        /\ Asks(Policy, CallOf[r], TRUE)
    BY <1>5 DEF Submit
  <2>2. QED
    BY <2>1, GotoFacts DEF Callers, Moves, Asked, TypesFit, Statuses, AwaitAuto
<1>6. CASE AwaitAuto(r)
  <2>1. /\ caller[r] = "asking" /\ ExpireDue
        /\ Goto(r, IF r \in listed THEN "auto" ELSE "refused")
    BY <1>6 DEF AwaitAuto
  <2>2. Still(r)
    BY <2>1, ExpireFacts DEF Still
  <2>3. r \notin listed => status'[r] # "Pending"
    BY <1>1, <2>1, ExpireFacts DEF CallersFit, CanTransition
  <2>4. caller'[r] = IF r \in listed THEN "auto" ELSE "refused"
    BY <2>1, GotoFacts DEF Callers, Returned
  <2>5. QED
    BY <1>6, <2>1, <2>2, <2>3, <2>4, ExpireFacts, GotoFacts
    DEF Callers, Returned, Moves, Waits, Answered
<1>7. CASE AutoApprove(r)
  <2> DEFINE place == IF r \in listed THEN Verdict(r, status'[r] = "Approved") ELSE "refused"
  <2>1. caller[r] = "auto" /\ Transition(r, "Approved") /\ Goto(r, place)
    BY <1>7 DEF AutoApprove
  <2>2. /\ Still(r) /\ status'[r] # "Pending" /\ status' \in [Request -> Statuses]
        /\ \A q \in Request : q # r => status'[q] = status[q]
    BY <1>1, <2>1, TransitionFacts DEF Still, Decided, Decides
  <2>3. place \in Callers
    BY VerdictFacts DEF Callers, Returned
  <2>4. place = "refused"
        \/ (place = "ran" /\ status'[r] = "Approved" /\ ~PolicyError(Policy, CallOf[r], TRUE, TRUE))
    BY <2>1, VerdictFacts, AskedMeansApproved DEF CallersFit
  <2> HIDE DEF place
  <2>5. QED
    BY <2>1, <2>2, <2>3, <2>4, GotoFacts DEF Moves, Answered, AwaitAuto
<1>8. CASE Subscribe(r)
  <2>1. CASE r \notin listed
    <3>1. caller[r] = "asking" /\ Goto(r, "refused") /\ UNCHANGED status
      BY <1>8, <2>1 DEF Subscribe, requests
    <3>2. QED
      BY <2>1, <3>1, GotoFacts
      DEF Callers, Returned, Moves, Answered, Still, TypesFit, CallersFit
  <2>2. CASE r \in listed /\ Due(r)
    <3>1. caller[r] = "asking" /\ Goto(r, "refused") /\ Transition(r, "Expired")
      BY <1>8, <2>2 DEF Subscribe
    <3>2. /\ Still(r) /\ status'[r] # "Pending" /\ status' \in [Request -> Statuses]
          /\ \A q \in Request : q # r => status'[q] = status[q]
      BY <1>1, <3>1, TransitionFacts DEF Still, Decided, Decides
    <3>3. QED
      BY <3>1, <3>2, GotoFacts DEF Callers, Returned, Moves, Answered
  <2>3. CASE r \in listed /\ ~Due(r)
    <3>1. caller[r] = "asking" /\ Goto(r, "waiting") /\ UNCHANGED status
      BY <1>8, <2>3 DEF Subscribe, requests
    <3>2. QED
      BY <2>3, <3>1, GotoFacts DEF Callers, Moves, Waits, Still, TypesFit
  <2>4. QED
    BY <2>1, <2>2, <2>3
<1>9. CASE Wake(r)
  <2>1. caller[r] = "waiting" /\ status[r] \in Decided /\ UNCHANGED status
        /\ Goto(r, Verdict(r, status[r] = "Approved"))
    BY <1>9 DEF Wake, requests
  <2>2. Verdict(r, status[r] = "Approved") = "refused"
        \/ (Verdict(r, status[r] = "Approved") = "ran" /\ status[r] = "Approved"
            /\ ~PolicyError(Policy, CallOf[r], TRUE, TRUE))
    BY <2>1, VerdictFacts, AskedMeansApproved DEF CallersFit
  <2>3. caller' \in [Request -> Callers] /\ caller'[r] = Verdict(r, status[r] = "Approved")
        /\ \A q \in Request : q # r => caller'[q] = caller[q]
    BY <2>1, <2>2, GotoFacts DEF Callers, Returned
  <2>4. QED
    BY <2>1, <2>2, <2>3 DEF Moves, Answered, Still, Decided, TypesFit, AwaitAuto
<1>10. CASE WaitTimesOut(r)
  <2> DEFINE approved == ~CanTransition(r) /\ Lookup(r) = "Approved"
  <2>1. caller[r] = "waiting" /\ Transition(r, "Expired") /\ Goto(r, Verdict(r, approved))
    BY <1>10 DEF WaitTimesOut
  <2>2. /\ Still(r) /\ status'[r] # "Pending" /\ status' \in [Request -> Statuses]
        /\ \A q \in Request : q # r => status'[q] = status[q]
    BY <1>1, <2>1, TransitionFacts DEF Still, Decided, Decides
  <2>3. approved => status'[r] = "Approved"
    <3>1. approved => r \in listed /\ ExpiredDue[r] = "Approved"
      BY DEF Lookup
    <3>2. approved => status[r] = "Approved"
      BY <3>1 DEF ExpiredDue
    <3>3. ~CanTransition(r) => status'[r] = status[r]
      BY <2>1 DEF Transition
    <3>4. QED
      BY <3>2, <3>3
  <2>4. approved \in BOOLEAN
    OBVIOUS
  <2> HIDE DEF approved
  <2>5. Verdict(r, approved) = "refused"
        \/ (Verdict(r, approved) = "ran" /\ status'[r] = "Approved"
            /\ ~PolicyError(Policy, CallOf[r], TRUE, TRUE))
    BY <2>1, <2>3, <2>4, VerdictFacts, AskedMeansApproved DEF CallersFit
  <2>6. caller' \in [Request -> Callers] /\ caller'[r] = Verdict(r, approved)
        /\ \A q \in Request : q # r => caller'[q] = caller[q]
    BY <2>1, <2>5, GotoFacts DEF Callers, Returned
  <2>7. QED
    BY <2>1, <2>2, <2>5, <2>6 DEF Moves, Answered, AwaitAuto
<1>11. CASE CallerGone(r)
  <2>1. caller[r] \in {"asking", "auto", "waiting"} /\ Transition(r, "Denied")
        /\ Goto(r, "dropped")
    BY <1>11 DEF CallerGone
  <2>2. /\ Still(r) /\ status'[r] # "Pending" /\ status' \in [Request -> Statuses]
        /\ \A q \in Request : q # r => status'[q] = status[q]
        /\ status'[r] = status[r] \/ status'[r] # "Approved"
    BY <1>1, <2>1, TransitionFacts DEF Still, Decided, Decides, Effective
  <2>3. QED
    BY <2>1, <2>2, GotoFacts DEF Callers, Returned, Moves, Leaves
<1>12. QED
  BY <1>2, <1>3, <1>4, <1>5, <1>6, <1>7, <1>8, <1>9, <1>10, <1>11 DEF Advance

(* Nobody else moves a caller; requests are decided, and stay listed while *)
(* they are open.                                                          *)
LEMMA StepMoves ==
  ASSUME GInv, GateNext
  PROVE  /\ caller' \in [Request -> Callers] /\ status' \in [Request -> Statuses]
         /\ \A q \in Request : (caller'[q] = caller[q] /\ Still(q)) \/ Moves(q)
<1> USE DEF GInv
<1>1. ASSUME NEW r \in Request, Advance(r) \/ CallerGone(r)
      PROVE  /\ caller' \in [Request -> Callers] /\ status' \in [Request -> Statuses]
             /\ \A q \in Request : (caller'[q] = caller[q] /\ Still(q)) \/ Moves(q)
  <2>1. /\ Moves(r)
        /\ caller' \in [Request -> Callers] /\ status' \in [Request -> Statuses]
        /\ \A q \in Request : q # r => caller'[q] = caller[q]
        /\ \/ AwaitAuto(r)
           \/ \A q \in Request : q # r => status'[q] = status[q]
    BY <1>1, AdvanceMoves
  <2>2. AwaitAuto(r) => \A q \in Request : Still(q)
    BY ExpireFacts DEF AwaitAuto, Still
  <2>3. QED
    BY <2>1, <2>2 DEF Still
<1>2. ASSUME UNCHANGED caller, status' \in [Request -> Statuses], \A q \in Request : Still(q)
      PROVE  /\ caller' \in [Request -> Callers] /\ status' \in [Request -> Statuses]
             /\ \A q \in Request : (caller'[q] = caller[q] /\ Still(q)) \/ Moves(q)
  BY <1>2 DEF TypesFit
<1>3. ExpireDue => status' \in [Request -> Statuses] /\ \A q \in Request : Still(q)
  BY ExpireFacts DEF Still
<1>4. ASSUME NEW r \in Request, NEW to \in Decided, Transition(r, to)
      PROVE  status' \in [Request -> Statuses] /\ \A q \in Request : Still(q)
  BY <1>4, TransitionFacts DEF Still
<1>5. ASSUME NEW o \in Operator, NEW r \in Request, Look(o, r)
      PROVE  UNCHANGED caller /\ status' \in [Request -> Statuses] /\ \A q \in Request : Still(q)
  BY <1>3, <1>5 DEF Look
<1>6. ASSUME NEW o \in Operator, Approve(o)
      PROVE  UNCHANGED caller /\ status' \in [Request -> Statuses] /\ \A q \in Request : Still(q)
  <2>1. operator[o] \in Request /\ Transition(operator[o], "Approved") /\ UNCHANGED caller
    BY <1>6 DEF Approve
  <2>2. QED
    BY <1>4, <2>1 DEF Decided
<1>7. ASSUME NEW r \in Request, Deny(r)
      PROVE  UNCHANGED caller /\ status' \in [Request -> Statuses] /\ \A q \in Request : Still(q)
  BY <1>4, <1>7 DEF Deny, Decided
<1>8. ASSUME List \/ Cleanup
      PROVE  UNCHANGED caller /\ status' \in [Request -> Statuses] /\ \A q \in Request : Still(q)
  BY <1>3, <1>8 DEF List, Cleanup
<1>9. ASSUME SetAutoApprove \/ Second
      PROVE  UNCHANGED caller /\ status' \in [Request -> Statuses] /\ \A q \in Request : Still(q)
  BY <1>9 DEF SetAutoApprove, Second, requests, Still, TypesFit
<1>10. QED
  BY <1>1, <1>2, <1>5, <1>6, <1>7, <1>8, <1>9 DEF GateNext

(* Only submit_request makes a request.                                    *)
LEMMA AskedSubmits ==
  ASSUME GInv, GateNext, NEW q \in Request, Asked(q)
  PROVE  Submit(q)
<1> USE DEF GInv
<1>1. ASSUME NEW r \in Request, Advance(r) \/ CallerGone(r)
      PROVE  Submit(q)
  <2>1. r = q
    BY <1>1, AdvanceMoves DEF Asked
  <2>2. ~CallerGone(q)
    BY DEF Asked, CallerGone
  <2>3. ~Unasked(q)
    BY DEF Asked, Unasked
  <2>4. QED
    BY <1>1, <2>1, <2>2, <2>3
    DEF Advance, Asked, PassRate, HitRate, AwaitAuto, AutoApprove, Subscribe, Wake, WaitTimesOut
<1>2. caller' # caller
  BY DEF Asked
<1>3. QED
  BY <1>1, <1>2
  DEF GateNext, Look, Approve, Deny, List, Cleanup, SetAutoApprove, Second

(* What stands in the watch channel of an open request stays in `pending`. *)
LEMMA OpenStaysListed ==
  ASSUME GInv, GateNext, NEW q \in Request, status'[q] = "Pending"
  PROVE  q \in listed'
<1> USE DEF GInv
<1>1. status[q] = "Pending" \/ Asked(q)
  <2>1. Still(q) => status[q] = "Pending"
    BY DEF Still, Decides, Decided
  <2>2. Moves(q) => status[q] = "Pending" \/ Asked(q)
    BY <2>1 DEF Moves, Rated, Judged, Waits, Answered, Leaves
  <2>3. QED
    BY <2>1, <2>2, StepMoves
<1>2. status[q] = "Pending" => q \in listed
  BY DEF CallersFit
<1>4. CASE Asked(q)
  BY <1>4, AskedSubmits DEF Submit
<1>5. CASE status[q] = "Pending" /\ Cleanup
  BY <1>2, <1>5 DEF Cleanup
<1>6. CASE status[q] = "Pending" /\ ~Cleanup
  <2>1. listed' = listed \/ \E r \in Request : listed' = listed \cup {r}
    BY <1>6
    DEF GateNext, Advance, PassRate, HitRate, Unasked, Submit, AwaitAuto, AutoApprove, Subscribe,
        Wake, WaitTimesOut, CallerGone, Look, Approve, Deny, List, SetAutoApprove, Second, requests
  <2>2. QED
    BY <1>2, <1>6, <2>1
<1>7. QED
  BY <1>1, <1>4, <1>5, <1>6 DEF Asked

(* A call that the checks let run is one that consent covers. *)
LEMMA MayRun ==
  ASSUME NEW r \in Request, NEW approved \in BOOLEAN,
         ~PolicyError(Policy, CallOf[r], TRUE, approved)
  PROVE  /\ CallOf[r].rule # "deny" /\ ~CallOf[r].outside
         /\ ~Asks(Policy, CallOf[r], TRUE) =>
              ~(CallOf[r].dangerous \/ NeedsApproval(Policy, CallOf[r]))
<1>1. Policy.engine
  BY GateAssumption
<1>2. /\ Policy.valid /\ CheckTool(CallOf[r]) # "deny" /\ ~CallOf[r].outside
      /\ CallOf[r].dangerous => NeedsApproval(Policy, CallOf[r])
  BY <1>1 DEF PolicyError
<1>3. CallOf[r].rule # "deny"
  BY <1>2 DEF CheckTool
<1>4. QED
  BY <1>1, <1>2, <1>3 DEF Asks

(* Callers stay where their requests let them be, and consent holds. *)
LEMMA ConsentStep ==
  ASSUME GInv, GateNext
  PROVE  CallersFit' /\ RunsConsented'
<1> USE DEF GInv
<1> SUFFICES ASSUME NEW q \in Request
             PROVE  /\ caller'[q] \in {"new", "checked"} => status'[q] = "None"
                    /\ caller'[q] \in {"asking", "auto", "waiting", "dropped"} => status'[q] # "None"
                    /\ status'[q] # "None" => Asks(Policy, CallOf[q], TRUE)
                    /\ status'[q] = "Pending" => caller'[q] \in {"asking", "auto", "waiting"}
                    /\ caller'[q] = "ran" /\ status'[q] # "None" => status'[q] = "Approved"
                    /\ caller'[q] = "ran" =>
                         /\ CallOf[q].rule # "deny" /\ ~CallOf[q].outside
                         /\ CallOf[q].dangerous \/ NeedsApproval(Policy, CallOf[q])
                              => status'[q] = "Approved"
  BY OpenStaysListed DEF CallersFit, RunsConsented
<1>1. /\ caller[q] \in {"new", "checked"} => status[q] = "None"
      /\ caller[q] \in {"asking", "auto", "waiting", "dropped"} => status[q] # "None"
      /\ status[q] # "None" => Asks(Policy, CallOf[q], TRUE)
      /\ status[q] = "Pending" => q \in listed /\ caller[q] \in {"asking", "auto", "waiting"}
      /\ caller[q] = "ran" /\ status[q] # "None" => status[q] = "Approved"
      /\ caller[q] = "ran" =>
           /\ CallOf[q].rule # "deny" /\ ~CallOf[q].outside
           /\ CallOf[q].dangerous \/ NeedsApproval(Policy, CallOf[q]) => status[q] = "Approved"
      /\ caller[q] \in Callers /\ status[q] \in Statuses
  BY DEF CallersFit, RunsConsented, TypesFit
<1>2. Still(q) => \/ status'[q] = status[q]
                  \/ status[q] = "Pending" /\ status'[q] \in Decided
  BY DEF Still, Decides, CanTransition
<1>3. CASE caller'[q] = caller[q] /\ Still(q)
  BY <1>1, <1>2, <1>3 DEF Decided
<1>4. CASE Rated(q)
  BY <1>1, <1>4 DEF Rated
<1>5. CASE Judged(q)
  <2>1. status'[q] = "None" /\ caller'[q] = Verdict(q, FALSE)
        /\ ~Asks(Policy, CallOf[q], TRUE)
    BY <1>1, <1>5 DEF Judged
  <2>2. Verdict(q, FALSE) \in {"ran", "refused"}
    BY VerdictFacts
  <2>3. Verdict(q, FALSE) = "ran" =>
          /\ CallOf[q].rule # "deny" /\ ~CallOf[q].outside
          /\ ~(CallOf[q].dangerous \/ NeedsApproval(Policy, CallOf[q]))
    BY <2>1, VerdictFacts, MayRun
  <2>4. QED
    BY <2>1, <2>2, <2>3
<1>6. CASE Asked(q)
  BY <1>6 DEF Asked
<1>7. CASE Waits(q)
  BY <1>1, <1>2, <1>7 DEF Waits, Decided
<1>8. CASE Answered(q)
  BY <1>1, <1>2, <1>8, MayRun DEF Answered, Decided
<1>9. CASE Leaves(q)
  BY <1>1, <1>2, <1>9 DEF Leaves, Decided
<1>10. QED
  BY <1>3, <1>4, <1>5, <1>6, <1>7, <1>8, <1>9, StepMoves DEF Moves

-----------------------------------------------------------------------------
(* A tracker of an agent, or what an agent without one starts from, knows  *)
(* its grants; a dropped one had forgotten nothing that still counts.      *)
LEMMA TimesFit ==
  ASSUME GInv, NEW a \in Asker
  PROVE  /\ TimesOf(a) \in Seq(Nat)
         /\ granted[a] \in Seq(Nat) /\ InWindow(granted[a])
         /\ Tracks(TimesOf(a), granted[a], clock)
         /\ \A i \in DOMAIN granted[a] : granted[a][i] <= clock
         /\ a \notin KeptTrackers =>
              \A i \in DOMAIN granted[a] : granted[a][i] + Window <= clock
<1> USE DEF GInv
<1>0. Window \in Nat /\ IdleLimit \in Nat /\ IdleLimit > Window /\ clock \in Nat
  BY GateAssumption DEF TypesFit
<1>1. granted[a] \in Seq(Nat) /\ InWindow(granted[a])
  BY DEF TypesFit, RatesFit
<1>2. \A i \in DOMAIN granted[a] : granted[a][i] \in Nat
  BY <1>1
<1>3. ASSUME a \in DOMAIN trackers
      PROVE  /\ trackers[a].times \in Seq(Nat) /\ trackers[a].seen \in Nat
             /\ Tracks(trackers[a].times, granted[a], clock)
             /\ \A i \in DOMAIN granted[a] : granted[a][i] <= trackers[a].seen
             /\ trackers[a].seen <= clock
  BY <1>3 DEF TypesFit, RatesFit, Tracker
<1>4. ASSUME a \notin KeptTrackers
      PROVE  \A i \in DOMAIN granted[a] : granted[a][i] + Window <= clock
  <2>1. CASE a \in DOMAIN trackers
    <3>1. trackers[a].seen + IdleLimit <= clock
      BY <1>0, <1>3, <1>4, <2>1 DEF KeptTrackers, LastSeen
    <3>2. QED
      BY <1>0, <1>2, <1>3, <2>1, <3>1
  <2>2. CASE a \notin DOMAIN trackers
    BY <2>2 DEF RatesFit
  <2>3. QED
    BY <2>1, <2>2
<1>5. CASE a \in KeptTrackers
  <2>1. a \in DOMAIN trackers /\ TimesOf(a) = trackers[a].times
    BY <1>5 DEF KeptTrackers, TimesOf
  <2>2. \A i \in DOMAIN granted[a] : granted[a][i] <= clock
    BY <1>0, <1>2, <1>3, <2>1
  <2>3. QED
    BY <1>1, <1>3, <1>5, <2>1, <2>2
<1>6. CASE a \notin KeptTrackers
  <2>1. TimesOf(a) = <<>>
    BY <1>6 DEF TimesOf
  <2>2. \A i \in 1..Len(granted[a]) : granted[a][i] + Window <= clock
    BY <1>1, <1>4, <1>6
  <2>3. Tracks(<<>>, granted[a], clock)
    BY <1>1, <2>2 DEF Tracks
  <2>4. \A i \in DOMAIN granted[a] : granted[a][i] <= clock
    BY <1>0, <1>2, <1>4, <1>6
  <2>5. QED
    BY <1>1, <1>4, <1>6, <2>1, <2>3, <2>4
<1>7. QED
  BY <1>5, <1>6

(* What RatesFit says of one agent. *)
RateFits(a) ==
  /\ InWindow(granted[a])
  /\ a \notin DOMAIN trackers =>
       \A i \in DOMAIN granted[a] : granted[a][i] + Window <= clock
  /\ a \in DOMAIN trackers =>
       /\ Tracks(trackers[a].times, granted[a], clock)
       /\ \A i \in DOMAIN granted[a] : granted[a][i] <= trackers[a].seen
       /\ trackers[a].seen <= clock

RateTypes ==
  /\ DOMAIN trackers \subseteq Asker
  /\ trackers \in [DOMAIN trackers -> Tracker]
  /\ granted \in [Asker -> Seq(Nat)]

(* An agent whose tracker is kept or dropped, and that was granted nothing. *)
LEMMA BystanderFits ==
  ASSUME GInv, NEW b \in Asker, clock' = clock, granted'[b] = granted[b],
         b \in DOMAIN trackers' <=> b \in KeptTrackers,
         b \in KeptTrackers => trackers'[b] = trackers[b]
  PROVE  RateFits(b)'
<1> USE DEF GInv
<1>1. CASE b \in KeptTrackers
  BY <1>1 DEF KeptTrackers, RatesFit, RateFits, Tracks, InWindow
<1>2. CASE b \notin KeptTrackers
  BY <1>2, TimesFit DEF RatesFit, RateFits, InWindow
<1>3. QED
  BY <1>1, <1>2

(* The tracker that is used is refreshed; idle ones are dropped.           *)
LEMMA TouchFacts ==
  ASSUME GInv, NEW a \in Asker, NEW times \in Seq(Nat), Touch(a, times)
  PROVE  /\ DOMAIN trackers' = KeptTrackers \cup {a}
         /\ DOMAIN trackers' \subseteq Asker
         /\ trackers' \in [DOMAIN trackers' -> Tracker]
         /\ trackers'[a].times = times /\ trackers'[a].seen = clock
         /\ \A b \in KeptTrackers : b # a => trackers'[b] = trackers[b]
<1>1. /\ KeptTrackers \subseteq DOMAIN trackers /\ DOMAIN trackers \subseteq Asker
      /\ \A b \in KeptTrackers : trackers[b] \in Tracker
      /\ clock \in Nat
  BY DEF KeptTrackers, GInv, TypesFit
<1>2. [times |-> times, seen |-> clock] \in Tracker
  BY <1>1 DEF Tracker
<1>3. trackers' = [b \in KeptTrackers \cup {a} |->
                     IF b = a THEN [times |-> times, seen |-> clock] ELSE trackers[b]]
  BY DEF Touch
<1>4. QED
  BY <1>1, <1>2, <1>3

(* The rate limit keeps what its trackers know. *)
LEMMA RateStep ==
  ASSUME GInv, NEW a \in Asker, clock' = clock, CheckRateLimit(a) \/ RateLimited(a)
  PROVE  RateTypes' /\ RatesFit'
<1> DEFINE g == granted[a]
           c == CheckAndRecord(TimesOf(a), clock, Window, MaxRate)
<1>1. /\ TimesOf(a) \in Seq(Nat) /\ g \in Seq(Nat) /\ InWindow(g)
      /\ Tracks(TimesOf(a), g, clock) /\ \A i \in DOMAIN g : g[i] <= clock
  BY TimesFit
<1>2. clock \in Nat /\ granted \in [Asker -> Seq(Nat)]
  BY DEF GInv, TypesFit
<1>3. /\ c.tracker \in Seq(Nat)
      /\ c.allowed => Tracks(c.tracker, Append(g, clock), clock) /\ InWindow(Append(g, clock))
      /\ ~c.allowed => Tracks(c.tracker, g, clock)
  BY <1>1, <1>2, CheckFacts
<1>4. \/ Touch(a, c.tracker) /\ c.allowed /\ granted' = [granted EXCEPT ![a] = Append(g, clock)]
      \/ Touch(a, c.tracker) /\ ~c.allowed /\ granted' = granted
      \/ trackers' = [b \in KeptTrackers |-> trackers[b]] /\ granted' = granted
  BY DEF CheckRateLimit, RateLimited
<1> HIDE DEF g, c
<1>5. CASE trackers' = [b \in KeptTrackers |-> trackers[b]] /\ granted' = granted
  <2>1. RateTypes'
    BY <1>2, <1>5 DEF RateTypes, KeptTrackers, GInv, TypesFit
  <2>2. \A b \in Asker : RateFits(b)'
    BY <1>5, BystanderFits
  <2>3. QED
    BY <2>1, <2>2 DEF RatesFit, RateFits
<1>6. CASE /\ Touch(a, c.tracker)
           /\ \/ c.allowed /\ granted' = [granted EXCEPT ![a] = Append(g, clock)]
              \/ ~c.allowed /\ granted' = granted
  <2>1. /\ DOMAIN trackers' = KeptTrackers \cup {a} /\ DOMAIN trackers' \subseteq Asker
        /\ trackers' \in [DOMAIN trackers' -> Tracker]
        /\ trackers'[a].times = c.tracker /\ trackers'[a].seen = clock
        /\ \A b \in KeptTrackers : b # a => trackers'[b] = trackers[b]
    BY <1>3, <1>6, TouchFacts
  <2>2. \/ c.allowed /\ granted'[a] = Append(g, clock)
        \/ ~c.allowed /\ granted'[a] = g
    BY <1>2, <1>4, <1>6 DEF g
  <2>3. granted' \in [Asker -> Seq(Nat)] /\ \A b \in Asker : b # a => granted'[b] = granted[b]
    <3>1. Append(g, clock) \in Seq(Nat)
      BY <1>1, <1>2
    <3>2. QED
      BY <1>2, <1>4, <3>1
  <2>4. Tracks(c.tracker, granted'[a], clock) /\ InWindow(granted'[a])
    BY <1>1, <1>3, <2>2
  <2>5. \A i \in DOMAIN granted'[a] : granted'[a][i] <= clock
    <3>1. \A i \in DOMAIN Append(g, clock) : Append(g, clock)[i] <= clock
      <4>1. \A i \in 1..Len(g) : Append(g, clock)[i] = g[i] /\ g[i] <= clock
        BY <1>1, <1>2
      <4>2. Append(g, clock)[Len(g) + 1] = clock /\ clock <= clock
        BY <1>1, <1>2
      <4>3. DOMAIN Append(g, clock) = 1..(Len(g) + 1) /\ Len(g) \in Nat
        BY <1>1, <1>2
      <4>4. QED
        BY <4>1, <4>2, <4>3
    <3>2. QED
      BY <1>1, <2>2, <3>1
  <2>6. RateFits(a)'
    <3>1. a \in DOMAIN trackers' /\ clock <= clock
      BY <1>2, <2>1
    <3>2. InWindow(granted[a])'
      BY <2>4 DEF InWindow
    <3>3. Tracks(trackers[a].times, granted[a], clock)'
      BY <2>1, <2>4 DEF Tracks
    <3>4. QED
      BY <2>1, <2>5, <3>1, <3>2, <3>3 DEF RateFits
  <2>7. \A b \in Asker : b # a => RateFits(b)'
    BY <2>1, <2>3, BystanderFits
  <2>8. QED
    BY <2>1, <2>3, <2>6, <2>7 DEF RatesFit, RateFits, RateTypes
<1>7. QED
  BY <1>4, <1>5, <1>6

(* Nothing else touches the trackers, and time makes grants older only. *)
LEMMA RatesStep ==
  ASSUME GInv, GateNext
  PROVE  RateTypes' /\ RatesFit' /\ clock' \in Nat
<1> USE DEF GInv
<1>1. clock \in Nat /\ RateTypes
  BY DEF TypesFit, RateTypes
<1>2. ASSUME NEW r \in Request, PassRate(r) \/ HitRate(r)
      PROVE  RateTypes' /\ RatesFit' /\ clock' \in Nat
  BY <1>1, <1>2, RateStep DEF PassRate, HitRate, Asker
<1>3. CASE UNCHANGED <<clock, trackers, granted>>
  BY <1>1, <1>3 DEF RateTypes, RatesFit, Tracks, InWindow
<1>4. CASE Second
  <2>1. clock' = clock + 1 /\ trackers' = trackers /\ granted' = granted
    BY <1>4 DEF Second
  <2>2. Window \in Nat
    BY GateAssumption
  <2>3. ASSUME NEW a \in Asker
        PROVE  RateFits(a)'
    <3>1. granted[a] \in Seq(Nat) /\ RateFits(a)
          /\ (a \in DOMAIN trackers => trackers[a].seen \in Nat /\ trackers[a].times \in Seq(Nat))
      BY <1>1 DEF RateTypes, Tracker, RatesFit, RateFits
    <3>2. \A i \in DOMAIN granted[a] : granted[a][i] \in Nat
      BY <3>1
    <3>3. ASSUME a \in DOMAIN trackers
          PROVE  Tracks(trackers[a].times, granted[a], clock + 1)
      <4> DEFINE g == granted[a]
                 t == trackers[a].times
      <4>1. Tracks(t, g, clock)
        BY <3>1, <3>3 DEF RateFits
      <4>2. g \in Seq(Nat) /\ t \in Seq(Nat) /\ \A i \in DOMAIN g : g[i] \in Nat
        BY <3>1, <3>2, <3>3
      <4> HIDE DEF g, t
      <4>3. ASSUME NEW i \in 1..(Len(g) - Len(t))
            PROVE  g[i] + Window <= clock + 1
        <5>1. i \in DOMAIN g /\ g[i] + Window <= clock
          BY <4>1, <4>2 DEF Tracks
        <5>2. QED
          BY <1>1, <2>2, <4>2, <5>1
      <4>4. Tracks(t, g, clock + 1)
        BY <4>1, <4>3 DEF Tracks
      <4>5. QED
        BY <4>4 DEF g, t
    <3>4. QED
      BY <1>1, <2>1, <2>2, <3>1, <3>2, <3>3 DEF RateFits
  <2>4. QED
    BY <1>1, <2>1, <2>3 DEF RateTypes, RatesFit, RateFits
<1>5. QED
  BY <1>2, <1>3, <1>4
  DEF GateNext, Advance, Unasked, Submit, AwaitAuto, AutoApprove, Subscribe, Wake,
      WaitTimesOut, CallerGone, Look, Approve, Deny, List, Cleanup, SetAutoApprove

(* Every step of the gate keeps the types.                                 *)
LEMMA TypesStep ==
  ASSUME GInv, GateNext
  PROVE  TypesFit'
<1> USE DEF GInv
<1>1. caller' \in [Request -> Callers] /\ status' \in [Request -> Statuses]
  BY StepMoves
<1>2. RateTypes' /\ clock' \in Nat
  BY RatesStep
<1>3. \A r \in Request : status[r] # "None" => status'[r] # "None"
  <2>1. \A r \in Request : Still(r) \/ Moves(r)
    BY StepMoves
  <2>2. ASSUME NEW r \in Request, status[r] # "None" PROVE status'[r] # "None"
    <3>1. Still(r) => status'[r] # "None"
      BY <2>2 DEF Still, Decides, Decided
    <3>2. QED
      BY <2>1, <2>2, <3>1 DEF Moves, Rated, Judged, Asked, Waits, Answered, Leaves
  <2>3. QED
    BY <2>2
<1>4. listed \subseteq {r \in Request : status[r] # "None"} /\ clock \in Nat /\ Timeout \in Nat
      /\ expires \in [Request -> Nat] /\ auto \in BOOLEAN
      /\ \A o \in Operator : operator[o] \in Request \cup {"nobody"}
  BY GateAssumption DEF TypesFit
<1>5. listed' \subseteq {r \in Request : status'[r] # "None"} /\ expires' \in [Request -> Nat]
  <2>1. ASSUME NEW r \in Request, Submit(r)
        PROVE  listed' \subseteq {q \in Request : status'[q] # "None"}
               /\ expires' \in [Request -> Nat]
    <3>1. status'[r] = "Pending" /\ listed' = listed \cup {r}
          /\ expires' = [expires EXCEPT ![r] = clock + Timeout]
      BY <2>1 DEF Submit, TypesFit
    <3>2. QED
      BY <1>3, <1>4, <3>1
  <2>2. CASE listed' \subseteq listed /\ UNCHANGED expires
    BY <1>3, <1>4, <2>2
  <2>3. QED
    BY <2>1, <2>2
    DEF GateNext, Advance, PassRate, HitRate, Unasked, AwaitAuto, AutoApprove, Subscribe, Wake,
        WaitTimesOut, CallerGone, Look, Approve, Deny, List, Cleanup, SetAutoApprove, Second,
        requests
<1>6. auto' \in BOOLEAN /\ \A o \in Operator : operator'[o] \in Request \cup {"nobody"}
  <2>1. ASSUME NEW o \in Operator, NEW r \in Request, Look(o, r)
        PROVE  auto' = auto /\ \A p \in Operator : operator'[p] \in Request \cup {"nobody"}
    BY <1>4, <2>1 DEF Look
  <2>2. ASSUME NEW o \in Operator, Approve(o)
        PROVE  auto' = auto /\ \A p \in Operator : operator'[p] \in Request \cup {"nobody"}
    BY <1>4, <2>2 DEF Approve
  <2>3. QED
    BY <1>4, <2>1, <2>2
    DEF GateNext, Advance, PassRate, HitRate, Unasked, Submit, AwaitAuto, AutoApprove, Subscribe,
        Wake, WaitTimesOut, CallerGone, Deny, List, Cleanup, SetAutoApprove, Second
<1>7. QED
  BY <1>1, <1>2, <1>5, <1>6 DEF TypesFit, RateTypes

(* The gate begins within the invariant.                                   *)
LEMMA GateStart == GateInit => GInv
<1> SUFFICES ASSUME GateInit PROVE GInv
  OBVIOUS
<1>1. TypesFit
  <2>1. DOMAIN trackers = {}
    BY DEF GateInit
  <2>2. \A a \in Asker : <<>> \in Seq(Nat)
    OBVIOUS
  <2>3. trackers \in [{} -> Tracker]
    BY <2>1 DEF GateInit
  <2>4. QED
    BY <2>1, <2>2, <2>3 DEF GateInit, TypesFit, Callers, Statuses
<1>2. CallersFit /\ RunsConsented
  BY DEF GateInit, CallersFit, RunsConsented
<1>3. RatesFit
  BY DEF GateInit, RatesFit, InWindow
<1>4. QED
  BY <1>1, <1>2, <1>3 DEF GInv

(* Steps of others leave the invariant alone.                              *)
LEMMA GateStutters ==
  ASSUME GInv, UNCHANGED gatevars
  PROVE  GInv'
<1>1. UNCHANGED <<clock, trackers, status, listed, expires, caller, auto, operator, granted>>
  BY DEF gatevars, requests
<1>2. TypesFit'
  BY <1>1 DEF GInv, TypesFit
<1>3. CallersFit' /\ RunsConsented'
  BY <1>1 DEF GInv, CallersFit, RunsConsented
<1>4. RatesFit'
  BY <1>1 DEF GInv, RatesFit, Tracks, InWindow
<1>5. QED
  BY <1>2, <1>3, <1>4 DEF GInv

LEMMA GateInductive == GInv /\ [GateNext]_gatevars => GInv'
<1> SUFFICES ASSUME GInv, [GateNext]_gatevars PROVE GInv'
  OBVIOUS
<1>1. CASE GateNext
  BY <1>1, TypesStep, ConsentStep, RatesStep DEF GInv
<1>2. CASE UNCHANGED gatevars
  BY <1>2, GateStutters
<1>3. QED
  BY <1>1, <1>2

(* The gate keeps its inductive invariant: requests exist once asked, stay *)
(* listed while open, and trackers know every grant that still counts.     *)
THEOREM GateInvariant == GateSpec => []GInv
BY GateStart, GateInductive, PTL DEF GateSpec

(* What runs passed every check and was approved if it had to be, no       *)
(* window of the rate limit holds more grants than the limit, however the  *)
(* trackers are trimmed and dropped, and a request whose caller is gone is *)
(* not open any more (PolicyEngine, ApprovalGate, the ACT phase).          *)
THEOREM Consent == GateSpec => []ConsentIsSound
<1>1. GInv => ConsentIsSound
  <2> SUFFICES ASSUME GInv PROVE ConsentIsSound
    OBVIOUS
  <2>1. RunsConsented
    BY DEF GInv
  <2>2. WindowHolds
    BY DEF GInv, RatesFit, InWindow, WindowHolds
  <2>3. NothingLeftOpen
    BY DEF GInv, CallersFit, NothingLeftOpen, Returned
  <2>4. QED
    BY <2>1, <2>2, <2>3 DEF ConsentIsSound
<1>2. QED
  BY GateInvariant, <1>1, PTL

(* The trackers are finitely many, and within their bound.                 *)
Bounded == IsFiniteSet(DOMAIN trackers) /\ Cardinality(DOMAIN trackers) <= MaxTrackers

(* A new one needs room once the idle ones are dropped.                    *)
LEMMA BoundedStep ==
  ASSUME GInv, Bounded, GateNext
  PROVE  Bounded'
<1>1. MaxTrackers \in Nat /\ KeptTrackers \subseteq DOMAIN trackers
  BY GateAssumption DEF KeptTrackers
<1>2. /\ IsFiniteSet(KeptTrackers) /\ Cardinality(KeptTrackers) \in Nat
      /\ Cardinality(KeptTrackers) <= MaxTrackers
  <2>1. /\ IsFiniteSet(KeptTrackers) /\ Cardinality(KeptTrackers) <= Cardinality(DOMAIN trackers)
        /\ Cardinality(KeptTrackers) \in Nat /\ Cardinality(DOMAIN trackers) \in Nat
    BY <1>1, FS_Subset, FS_CardinalityType DEF Bounded
  <2>2. QED
    BY <1>1, <2>1 DEF Bounded
<1>3. ASSUME NEW a \in Asker, CheckRateLimit(a) \/ RateLimited(a)
      PROVE  Bounded'
  <2>1. CASE HasRoom(a) /\ \E times : Touch(a, times)
    <3>1. DOMAIN trackers' = KeptTrackers \cup {a}
      BY <2>1 DEF Touch
    <3>2. CASE a \in KeptTrackers
      <4>1. DOMAIN trackers' = KeptTrackers
        BY <3>1, <3>2
      <4>2. QED
        BY <1>2, <4>1 DEF Bounded
    <3>3. CASE a \notin KeptTrackers
      <4>1. Cardinality(KeptTrackers) < MaxTrackers
        BY <2>1, <3>3 DEF HasRoom
      <4>2. /\ IsFiniteSet(KeptTrackers \cup {a})
            /\ Cardinality(KeptTrackers \cup {a}) = Cardinality(KeptTrackers) + 1
        BY <1>2, <3>3, FS_AddElement
      <4>3. Cardinality(KeptTrackers \cup {a}) <= MaxTrackers
        BY <1>1, <1>2, <4>1, <4>2
      <4>4. QED
        BY <3>1, <4>2, <4>3 DEF Bounded
    <3>4. QED
      BY <3>2, <3>3
  <2>2. CASE trackers' = [b \in KeptTrackers |-> trackers[b]]
    <3>1. DOMAIN trackers' = KeptTrackers
      BY <2>2
    <3>2. QED
      BY <1>2, <3>1 DEF Bounded
  <2>3. QED
    BY <1>3, <2>1, <2>2 DEF CheckRateLimit, RateLimited
<1>4. CASE UNCHANGED trackers
  BY <1>4 DEF Bounded
<1>5. ASSUME NEW r \in Request, PassRate(r) \/ HitRate(r)
      PROVE  Bounded'
  BY <1>3, <1>5 DEF PassRate, HitRate, Asker
<1>6. QED
  BY <1>4, <1>5
  DEF GateNext, Advance, Unasked, Submit, AwaitAuto, AutoApprove, Subscribe, Wake,
      WaitTimesOut, CallerGone, Look, Approve, Deny, List, Cleanup, SetAutoApprove, Second

LEMMA BoundedStart == GateInit => Bounded
<1>1. GateInit => DOMAIN trackers = {}
  BY DEF GateInit
<1>2. IsFiniteSet({}) /\ Cardinality({}) = 0 /\ MaxTrackers \in Nat
  BY FS_EmptySet, GateAssumption
<1>3. QED
  BY <1>1, <1>2 DEF Bounded

(* There are never more rate trackers than MAX_RATE_TRACKERS, whatever     *)
(* agents call (check_rate_limit).                                         *)
THEOREM TrackersBounded == GateSpec => [](Cardinality(DOMAIN trackers) <= MaxTrackers)
<1>1. GInv /\ Bounded /\ [GateNext]_gatevars => Bounded'
  <2> SUFFICES ASSUME GInv, Bounded, [GateNext]_gatevars PROVE Bounded'
    OBVIOUS
  <2>1. CASE UNCHANGED gatevars
    BY <2>1 DEF gatevars, Bounded
  <2>2. QED
    BY <2>1, BoundedStep
<1>2. Bounded => Cardinality(DOMAIN trackers) <= MaxTrackers
  BY DEF Bounded
<1>3. QED
  BY GateInvariant, BoundedStart, <1>1, <1>2, PTL DEF GateSpec

-----------------------------------------------------------------------------
(* What one request looks like to the abstract promise.                    *)
LEMMA Views ==
  ASSUME GInv, NEW q \in Request
  PROVE  /\ DecisionMap[q] = DecisionOf(q) /\ ToldMap[q] = ToldOf(q)
         /\ DecisionOf(q) \in {"open", "approved", "refused"}
         /\ DecisionOf(q) = "approved" <=> status[q] = "Approved"
         /\ DecisionOf(q) = "open" <=> status[q] \in {"None", "Pending"}
         /\ caller[q] \in {"new", "checked", "asking", "auto", "waiting"} => ToldOf(q) = "nothing"
         /\ status[q] = "None" => ToldOf(q) = "nothing"
         /\ caller[q] = "dropped" => ToldOf(q) = "gone"
         /\ caller[q] = "refused" /\ status[q] # "None" => ToldOf(q) = "refused"
         /\ caller[q] = "ran" /\ status[q] # "None" => ToldOf(q) = "approved"
<1>1. status[q] \in Statuses /\ (caller[q] = "dropped" => status[q] # "None")
  BY DEF GInv, TypesFit, CallersFit
<1>2. DecisionMap[q] = DecisionOf(q) /\ ToldMap[q] = ToldOf(q)
  BY DEF DecisionMap, ToldMap
<1>3. QED
  BY <1>1, <1>2 DEF DecisionOf, ToldOf, Statuses, Decided

(* A caller that stays where it is is told nothing new. *)
LEMMA ToldStays ==
  ASSUME GInv, GInv', NEW q \in Request, caller'[q] = caller[q], Still(q)
  PROVE  ToldMap'[q] = ToldMap[q]
<1>1. ToldMap[q] = ToldOf(q) /\ ToldMap'[q] = ToldOf(q)'
  BY DEF ToldMap
<1>2. status[q] # "None" <=> status'[q] # "None"
  BY DEF Still, Decides, Decided, CanTransition
<1>3. QED
  BY <1>1, <1>2 DEF ToldOf

(* The mapped variables are functions of the requests.                     *)
LEMMA MapsAreFunctions ==
  /\ DecisionMap = [q \in Request |-> DecisionMap[q]]
  /\ ToldMap = [q \in Request |-> ToldMap[q]]
BY DEF DecisionMap, ToldMap

(* A step that moves one request alone. *)
LEMMA OneRequest ==
  ASSUME GInv, GInv', NEW r \in Request,
         \A q \in Request : q # r => caller'[q] = caller[q] /\ status'[q] = status[q]
  PROVE  /\ DecisionMap' = [DecisionMap EXCEPT ![r] = DecisionMap'[r]]
         /\ ToldMap' = [ToldMap EXCEPT ![r] = ToldMap'[r]]
<1>1. ASSUME NEW q \in Request, q # r
      PROVE  DecisionMap'[q] = DecisionMap[q] /\ ToldMap'[q] = ToldMap[q]
  <2>1. caller'[q] = caller[q] /\ status'[q] = status[q]
    BY <1>1
  <2>2. DecisionOf(q)' = DecisionOf(q) /\ ToldOf(q)' = ToldOf(q)
    BY <2>1 DEF DecisionOf, ToldOf
  <2>3. QED
    BY <2>2 DEF DecisionMap, ToldMap
<1>2. /\ DecisionMap' = [q \in Request |-> DecisionMap'[q]]
      /\ ToldMap' = [q \in Request |-> ToldMap'[q]]
  BY DEF DecisionMap, ToldMap
<1>3. QED
  BY <1>1, <1>2, MapsAreFunctions

(* Such a step is one of the promise, or none. *)
LEMMA MovesKeepPromise ==
  ASSUME GInv, GInv', NEW r \in Request,
         \A q \in Request : q # r => caller'[q] = caller[q] /\ status'[q] = status[q],
         Moves(r) \/ (caller'[r] = caller[r] /\ Still(r))
  PROVE  Promise!Next \/ UNCHANGED <<DecisionMap, ToldMap>>
<1> DEFINE d == DecisionMap'[r]
           t == ToldMap'[r]
<1>1. DecisionMap' = [DecisionMap EXCEPT ![r] = d] /\ ToldMap' = [ToldMap EXCEPT ![r] = t]
  BY OneRequest
<1>2. /\ DecisionMap[r] = DecisionOf(r) /\ ToldMap[r] = ToldOf(r)
      /\ d = DecisionOf(r)' /\ t = ToldOf(r)'
  BY Views DEF DecisionMap, ToldMap
<1>3. /\ caller[r] \in {"new", "checked"} => status[r] = "None"
      /\ status[r] \in Statuses /\ status'[r] \in Statuses
      /\ caller[r] \in {"asking", "auto", "waiting"} => status[r] # "None"
  BY DEF GInv, CallersFit, TypesFit
<1>4. Still(r) => status'[r] = status[r] \/ (status[r] = "Pending" /\ status'[r] \in Decided)
  BY DEF Still, Decides, CanTransition
<1>5. (d \in {"open", "approved", "refused"}) /\ (d = "approved" <=> status'[r] = "Approved")
      /\ (d = "open" <=> status'[r] \in {"None", "Pending"})
  <2>1. status'[r] \in Statuses
    BY <1>3
  <2>2. QED
    BY <1>2, <2>1 DEF DecisionOf, Statuses, Decided
<1>6. /\ DecisionMap[r] \in {"open", "approved", "refused"}
      /\ DecisionMap[r] = "approved" <=> status[r] = "Approved"
      /\ DecisionMap[r] = "open" <=> status[r] \in {"None", "Pending"}
      /\ caller[r] \in {"new", "checked", "asking", "auto", "waiting"} => ToldMap[r] = "nothing"
  BY <1>2, Views
<1>7. /\ caller'[r] \in {"new", "checked", "asking", "auto", "waiting"} => t = "nothing"
      /\ status'[r] = "None" /\ caller'[r] # "dropped" => t = "nothing"
      /\ caller'[r] = "dropped" => t = "gone"
      /\ caller'[r] = "refused" /\ status'[r] # "None" => t = "refused"
      /\ caller'[r] = "ran" /\ status'[r] # "None" => t = "approved"
  BY <1>2 DEF ToldOf
<1>8. status'[r] = status[r] => d = DecisionMap[r]
  BY <1>2 DEF DecisionOf
<1> HIDE DEF d, t
<1>9. ASSUME d = DecisionMap[r], t = ToldMap[r]
      PROVE  UNCHANGED <<DecisionMap, ToldMap>>
  BY <1>1, <1>9, MapsAreFunctions
<1>10. ASSUME DecisionMap[r] = "open", d \in {"approved", "refused"}, t = ToldMap[r]
       PROVE  Promise!Next
  <2>1. Promise!Decide(r, d) /\ UNCHANGED ToldMap
    BY <1>1, <1>10, MapsAreFunctions DEF Promise!Decide
  <2>2. QED
    BY <1>10, <2>1 DEF Promise!Next
<1>11. CASE caller'[r] = caller[r] /\ Still(r)
  <2>1. t = ToldMap[r]
    BY <1>11, ToldStays DEF t
  <2>2. CASE status'[r] = status[r]
    BY <1>8, <1>9, <2>1, <2>2
  <2>3. CASE status[r] = "Pending" /\ status'[r] \in Decided
    BY <1>5, <1>6, <1>10, <2>1, <2>3 DEF Decided
  <2>4. QED
    BY <1>4, <1>11, <2>2, <2>3
<1>12. CASE Rated(r) \/ Judged(r) \/ Asked(r)
  <2>1. status[r] = "None" /\ ToldMap[r] = "nothing" /\ DecisionMap[r] = "open"
    BY <1>3, <1>6, <1>12 DEF Rated, Judged, Asked
  <2>2. d = "open" /\ t = "nothing"
    BY <1>3, <1>5, <1>7, <1>12, <2>1, VerdictFacts DEF Rated, Judged, Asked
  <2>3. QED
    BY <1>9, <2>1, <2>2
<1>13. CASE Waits(r)
  <2>1. t = ToldMap[r]
    BY <1>6, <1>7, <1>13 DEF Waits
  <2>2. CASE status'[r] = status[r]
    BY <1>8, <1>9, <2>1, <2>2
  <2>3. CASE status[r] = "Pending" /\ status'[r] \in Decided
    BY <1>5, <1>6, <1>10, <2>1, <2>3 DEF Decided
  <2>4. QED
    BY <1>4, <1>13, <2>2, <2>3 DEF Waits
<1>14. CASE Answered(r) \/ Leaves(r)
  <2>1. /\ ToldMap[r] = "nothing" /\ status[r] # "None" /\ status'[r] \notin {"None", "Pending"}
        /\ t \in {"approved", "refused", "gone"}
        /\ t = "approved" => d = "approved"
        /\ t = "gone" /\ status'[r] # status[r] => d = "refused"
    BY <1>3, <1>4, <1>5, <1>6, <1>7, <1>14 DEF Answered, Leaves, Decided
  <2>2. Promise!Tell(r, t)
    BY <1>1, <2>1, MapsAreFunctions DEF Promise!Tell
  <2>3. CASE status'[r] = status[r]
    <3>1. UNCHANGED DecisionMap /\ DecisionMap[r] # "open"
      BY <1>1, <1>6, <1>8, <2>1, <2>3, MapsAreFunctions
    <3>2. QED
      BY <2>1, <2>2, <3>1 DEF Promise!Next
  <2>4. CASE status[r] = "Pending" /\ status'[r] \in Decided
    <3>1. DecisionMap[r] = "open" /\ d \in {"approved", "refused"}
      BY <1>5, <1>6, <2>4 DEF Decided
    <3>2. Promise!Decide(r, d)
      BY <1>1, <3>1 DEF Promise!Decide
    <3>3. CASE t = "gone"
      BY <2>1, <2>2, <2>4, <3>1, <3>2, <3>3 DEF Promise!Next, Decided
    <3>4. CASE t = "refused"
      BY <2>2, <3>1, <3>2, <3>4 DEF Promise!Next
    <3>5. CASE t = "approved"
      BY <2>1, <2>2, <3>1, <3>2, <3>5 DEF Promise!Next
    <3>6. QED
      BY <2>1, <3>3, <3>4, <3>5
  <2>5. QED
    BY <1>4, <1>14, <2>3, <2>4 DEF Answered, Leaves
<1>15. QED
  BY <1>11, <1>12, <1>13, <1>14 DEF Moves

(* Requests that are over their time are refused together; one caller may  *)
(* find that its own is gone.                                              *)
LEMMA ExpiryKeepsPromise ==
  ASSUME GInv, GInv', ExpireDue, UNCHANGED caller \/ \E r \in Request : AwaitAuto(r)
  PROVE  Promise!Next
<1> DEFINE R == {q \in Request : CanTransition(q) /\ Due(q)}
<1>1. ASSUME NEW q \in Request
      PROVE  DecisionMap'[q] = IF q \in R /\ DecisionMap[q] = "open" THEN "refused"
                                                                   ELSE DecisionMap[q]
  <2>1. DecisionMap[q] = DecisionOf(q) /\ DecisionMap'[q] = DecisionOf(q)'
    BY DEF DecisionMap
  <2>2. IF q \in R THEN status[q] = "Pending" /\ status'[q] = "Expired"
                   ELSE status'[q] = status[q]
    BY ExpireFacts DEF GInv, CanTransition
  <2>3. QED
    BY <2>1, <2>2 DEF DecisionOf
<1>2. Promise!RefuseSome
  <2>1. DecisionMap' = [q \in Request |-> DecisionMap'[q]]
    BY DEF DecisionMap
  <2>2. R \in SUBSET Request
    OBVIOUS
  <2> HIDE DEF R
  <2>3. QED
    BY <1>1, <2>1, <2>2 DEF Promise!RefuseSome
<1>3. \A q \in Request : Still(q)
  BY ExpireFacts DEF Still, GInv
<1>4. ToldMap' = [q \in Request |-> ToldMap'[q]]
  BY DEF ToldMap
<1>5. CASE UNCHANGED caller
  <2>1. \A q \in Request : ToldMap'[q] = ToldMap[q]
    BY <1>3, <1>5, ToldStays
  <2>2. UNCHANGED ToldMap
    BY <1>4, <2>1, MapsAreFunctions
  <2>3. QED
    BY <1>2, <2>2 DEF Promise!Next
<1>6. ASSUME NEW r \in Request, AwaitAuto(r)
      PROVE  Promise!Next
  <2>1. caller[r] = "asking" /\ Goto(r, IF r \in listed THEN "auto" ELSE "refused")
    BY <1>6 DEF AwaitAuto
  <2>2. /\ caller'[r] = IF r \in listed THEN "auto" ELSE "refused"
        /\ \A q \in Request : q # r => caller'[q] = caller[q]
    BY <2>1, GotoFacts DEF Callers, Returned, GInv
  <2>3. \A q \in Request : q # r => ToldMap'[q] = ToldMap[q]
    BY <1>3, <2>2, ToldStays
  <2>4. ToldMap[r] = "nothing" /\ status[r] # "None"
    BY <2>1, Views DEF GInv, CallersFit
  <2>5. status'[r] # "None"
    BY <1>3, <2>4 DEF Still, Decides, Decided
  <2>6. ToldMap'[r] = IF r \in listed THEN "nothing" ELSE "refused"
    <3>1. ToldMap'[r] = ToldOf(r)'
      BY DEF ToldMap
    <3>2. QED
      BY <2>2, <2>5, <3>1 DEF ToldOf
  <2>7. CASE r \in listed
    <3>1. UNCHANGED ToldMap
      BY <1>4, <2>3, <2>4, <2>6, <2>7, MapsAreFunctions
    <3>2. QED
      BY <1>2, <3>1 DEF Promise!Next
  <2>8. CASE r \notin listed
    <3>1. ToldMap' = [ToldMap EXCEPT ![r] = "refused"]
      BY <1>4, <2>3, <2>6, <2>8, MapsAreFunctions
    <3>2. Promise!Tell(r, "refused")
      BY <2>4, <3>1 DEF Promise!Tell
    <3>3. QED
      BY <1>2, <3>2 DEF Promise!Next
  <2>9. QED
    BY <2>7, <2>8
<1>7. QED
  BY <1>5, <1>6

(* Every step of the gate is one of the promise, or none.                  *)
LEMMA StepKeepsPromise ==
  ASSUME GInv, GInv', [GateNext]_gatevars
  PROVE  [Promise!Next]_(Promise!promise)
<1> SUFFICES Promise!Next \/ UNCHANGED <<DecisionMap, ToldMap>>
  BY DEF Promise!promise
<1>1. ASSUME UNCHANGED <<caller, status>>
      PROVE  UNCHANGED <<DecisionMap, ToldMap>>
  BY <1>1 DEF DecisionMap, ToldMap, DecisionOf, ToldOf
<1>2. ASSUME NEW r \in Request, Advance(r) \/ CallerGone(r)
      PROVE  Promise!Next \/ UNCHANGED <<DecisionMap, ToldMap>>
  <2>1. CASE AwaitAuto(r)
    BY <2>1, ExpiryKeepsPromise DEF AwaitAuto
  <2>2. CASE ~AwaitAuto(r)
    BY <1>2, <2>2, AdvanceMoves, MovesKeepPromise
  <2>3. QED
    BY <2>1, <2>2
<1>3. ASSUME NEW r \in Request, NEW to \in Decided, Transition(r, to), UNCHANGED caller
      PROVE  Promise!Next \/ UNCHANGED <<DecisionMap, ToldMap>>
  <2>1. \A q \in Request : q # r => caller'[q] = caller[q] /\ status'[q] = status[q]
    BY <1>3, TransitionFacts DEF GInv
  <2>2. caller'[r] = caller[r] /\ Still(r)
    BY <1>3, TransitionFacts DEF GInv, Still
  <2>3. QED
    BY <2>1, <2>2, MovesKeepPromise
<1>4. ASSUME NEW o \in Operator, Approve(o)
      PROVE  Promise!Next \/ UNCHANGED <<DecisionMap, ToldMap>>
  BY <1>3, <1>4 DEF Approve, Decided
<1>5. ASSUME NEW r \in Request, Deny(r)
      PROVE  Promise!Next \/ UNCHANGED <<DecisionMap, ToldMap>>
  BY <1>3, <1>5 DEF Deny, Decided
<1>6. ASSUME (\E o \in Operator, r \in Request : Look(o, r)) \/ List \/ Cleanup
      PROVE  Promise!Next
  BY <1>6, ExpiryKeepsPromise DEF Look, List, Cleanup
<1>7. CASE SetAutoApprove \/ Second \/ UNCHANGED gatevars
  BY <1>1, <1>7 DEF SetAutoApprove, Second, gatevars, requests
<1>8. QED
  BY <1>2, <1>4, <1>5, <1>6, <1>7 DEF GateNext

(* The gate implements its promise: every request is decided once and for  *)
(* good, and its caller told "approved" only if it was (ApprovalGate).     *)
THEOREM PromiseKept == GateSpec => KeepsPromise
<1>1. GateInit => Promise!Init
  BY DEF GateInit, Promise!Init, DecisionMap, ToldMap, DecisionOf, ToldOf
<1>2. QED
  BY GateInvariant, StepKeepsPromise, <1>1, PTL DEF GateSpec, KeepsPromise, Promise!Spec

(* No approval is recorded once the request is over its time: the expiry   *)
(* is looked at in the same critical section (ApprovalGate::transition).   *)
THEOREM ApprovalsAreInTime == GateSpec => NoLateApproval
<1>1. ASSUME GInv, [GateNext]_gatevars
      PROVE  [\A r \in Request :
                status'[r] = "Approved" /\ status[r] # "Approved" => clock < expires[r]]_gatevars
  <2>1. CASE GateNext
    <3>1. \A r \in Request : Still(r) \/ Moves(r)
      BY <1>1, <2>1, StepMoves
    <3>2. ASSUME NEW r \in Request, status'[r] = "Approved", status[r] # "Approved"
          PROVE  clock < expires[r]
      <4>1. Moves(r) => Still(r) \/ Asked(r)
        BY DEF Moves, Rated, Judged, Waits, Answered, Leaves, Still
      <4>2. QED
        BY <3>1, <3>2, <4>1 DEF Still, Decides, Asked
    <3>3. QED
      BY <3>2
  <2>2. QED
    BY <1>1, <2>1
<1>2. QED
  BY GateInvariant, <1>1, PTL DEF GateSpec, NoLateApproval

(* Both together, as the runs check them. *)
THEOREM Promised == GateSpec => PromiseIsKept
BY PromiseKept, ApprovalsAreInTime, PTL DEF PromiseIsKept

-----------------------------------------------------------------------------
(* The inductive invariant of the loop.                                    *)
LoopTypes ==
  /\ LoopTypeOK
  /\ cfg \in Config
  /\ turn \in [left : Nat, allowed : Nat, run : Nat]
  /\ tally \in [results : Nat, run : Nat, audited : Nat,
                last : Result \cup {"none"}, good : BOOLEAN]
  /\ acts \in [count : Nat, last : BOOLEAN, some : BOOLEAN]
  /\ acts.count <= iteration
  /\ pc \in {"act", "calls"} => acts.count < iteration

(* What a turn may still run fits into both budgets, and the loop goes on  *)
(* only while there are retries left.                                      *)
BudgetsFit ==
  /\ BudgetHolds
  /\ turn.run + turn.allowed <= MaxPerTurn
  /\ pc = "calls" /\ turn.allowed > 0 => tally.results + turn.allowed <= MaxPerTask
  /\ pc # "returned" => retries < RetryLimit(3)

Finishing == {"inspect", "critique", "revise", "verify", "decide"}

(* The ACT of an iteration comes before the completion it is credited      *)
(* with, and what is completed rests on evidence that stays.               *)
EvidenceFits ==
  /\ SuccessIsEarned
  /\ outcome.success => pc = "returned"
  /\ pc \in Finishing => Cardinality(CompletedTasks) < acts.count
  /\ CompletedTasks # {} => acts.some \/ tally.good
  /\ acts.last => acts.some
  /\ tally.last \in {"ok", "empty"} => tally.good

LInv == LoopTypes /\ BudgetsFit /\ EvidenceFits

(* The next sub-task is one that is pending.                               *)
LEMMA PlanFacts ==
  ASSUME LoopTypeOK
  PROVE  /\ \E n \in 0..MaxSubTasks : plan \in [1..n -> Status]
         /\ IsFiniteSet(CompletedTasks) /\ Cardinality(CompletedTasks) \in Nat
         /\ FirstPending(plan) # 0 <=> PendingIn(plan) # {}
         /\ FirstPending(plan) # 0 => FirstPending(plan) \in PendingIn(plan)
<1>1. PICK n \in 0..MaxSubTasks : plan \in [1..n -> Status]
  BY DEF LoopTypeOK
<1>2. IsFiniteSet(CompletedTasks) /\ Cardinality(CompletedTasks) \in Nat
  <2>1. CompletedTasks \subseteq 1..n /\ IsFiniteSet(1..n)
    BY <1>1, FS_Interval, LoopAssumption DEF CompletedTasks
  <2>2. QED
    BY <2>1, FS_Subset, FS_CardinalityType
<1>3. PendingIn(plan) \in SUBSET (1..n) /\ n \in Nat
  BY <1>1, LoopAssumption DEF PendingIn
<1>4. ASSUME PendingIn(plan) # {}
      PROVE  FirstPending(plan) \in PendingIn(plan)
  <2>1. \E i \in PendingIn(plan) : \A j \in PendingIn(plan) : i <= j
    BY <1>3, <1>4, LeastOf
  <2>2. QED
    BY <1>4, <2>1 DEF FirstPending
<1>5. PendingIn(plan) = {} => FirstPending(plan) = 0
  BY DEF FirstPending
<1>6. 0 \notin PendingIn(plan)
  BY <1>3
<1>7. QED
  BY <1>1, <1>2, <1>4, <1>5, <1>6

(* Only the end of a completed plan may be a success.                      *)
LEMMA ReturnFacts ==
  ASSUME NEW reason \in Reason, Return(reason)
  PROVE  /\ pc' = "returned" /\ outcome'.reason \in Reason
         /\ outcome'.success => reason = "Completed"
BY DEF Return

(* The step that completes a sub-task, or does not. *)
LEMMA DecideFacts ==
  ASSUME LInv, Decide
  PROVE  /\ \E n \in 0..MaxSubTasks : plan' \in [1..n -> Status]
         /\ DOMAIN plan' = DOMAIN plan
         /\ pc' \in {"loop", "returned"}
         /\ outcome' = outcome \/ (outcome'.reason \in Reason /\ pc' = "returned")
         /\ \/ plan' = plan
            \/ \E i \in DOMAIN plan :
                 /\ CompletedTasks' = CompletedTasks \cup {i} /\ i \notin CompletedTasks
                 /\ LatestActHasEvidence
         /\ outcome' # outcome /\ outcome'.success => PendingIn(plan') = {} /\ plan # <<>>
<1>1. LoopTypeOK
  BY DEF LInv, LoopTypes
<1>2. PICK n \in 0..MaxSubTasks : plan \in [1..n -> Status]
  BY <1>1, PlanFacts
<1>3. plan' = IF Decision = "Continue" /\ Completes
              THEN [plan EXCEPT ![FirstPending(plan)] = "Completed"] ELSE plan
  BY DEF Decide
<1>4. ASSUME Decision = "Continue", Completes
      PROVE  \E i \in DOMAIN plan :
                 /\ CompletedTasks' = CompletedTasks \cup {i} /\ i \notin CompletedTasks
                 /\ LatestActHasEvidence
  <2> DEFINE i == FirstPending(plan)
  <2>1. i \in DOMAIN plan /\ plan[i] = "Pending" /\ LatestActHasEvidence
    BY <1>1, <1>4, PlanFacts DEF Completes, PendingIn
  <2> HIDE DEF i
  <2>2. plan' = [plan EXCEPT ![i] = "Completed"]
    BY <1>3, <1>4 DEF i
  <2>3. CompletedTasks' = CompletedTasks \cup {i} /\ i \notin CompletedTasks
    BY <1>2, <2>1, <2>2 DEF CompletedTasks
  <2>4. QED
    BY <2>1, <2>3
<1>5. plan' \in [1..n -> Status] /\ DOMAIN plan' = DOMAIN plan
  BY <1>2, <1>3 DEF Status
<1>6. Decision \in {"Stop", "Continue", "Escalate", "Retry"}
  BY DEF Decision
<1>7. CASE Decision # "Continue"
  <2>1. \/ pc' = "loop" /\ outcome' = outcome
        \/ \E reason \in Reason \ {"Completed"} : Return(reason)
    BY <1>6, <1>7 DEF Decide, Stay, Reason
  <2>2. QED
    BY <1>3, <1>5, <1>7, <2>1, ReturnFacts
<1>8. CASE Decision = "Continue"
  <2>1. \/ pc' = "loop" /\ outcome' = outcome
        \/ Return("Completed") /\ PendingIn(plan') = {}
    BY <1>8 DEF Decide, Stay
  <2>2. plan # <<>>
    <3>1. PendingIn(seen) # {} /\ DOMAIN seen = DOMAIN plan
      BY <1>1, <1>8, LoopAssumption DEF Decision, LoopTypeOK
    <3>2. DOMAIN plan # {}
      BY <3>1 DEF PendingIn
    <3>3. QED
      BY <3>2
  <2>3. "Completed" \in Reason
    BY DEF Reason
  <2>4. QED
    BY <1>3, <1>4, <1>5, <2>1, <2>2, <2>3, ReturnFacts
<1>9. QED
  BY <1>7, <1>8

(* The other steps that may return. *)
LEMMA CritiqueFacts ==
  ASSUME LInv, Critique
  PROVE  /\ UNCHANGED <<cfg, iteration, retries, plan, ids, seen, turn, tally, acts, mentioned>>
         /\ {last', recorded'} \subseteq Level
         /\ pc = "critique" /\ pc' \in {"loop", "revise", "verify", "returned"}
         /\ \/ outcome' = outcome
            \/ outcome'.reason \in Reason /\ pc' = "returned" /\ ~outcome'.success
         /\ strong' \in BOOLEAN
         /\ strong' # strong => cfg.escalation /\ retries >= RetryLimit(2)
<1>1. PICK score \in CritiqueScores :
        /\ last' = score /\ recorded' = score
        /\ \/ strong' = TRUE /\ pc' = "loop" /\ outcome' = outcome
              /\ cfg.escalation /\ CritiqueEscalates(score)
           \/ Return("EscalationUnavailable") /\ strong' = strong
           \/ pc' \in {"revise", "verify"} /\ strong' = strong /\ outcome' = outcome
  BY DEF Critique, Stay
<1>2. CritiqueScores \subseteq Level
  BY DEF CritiqueScores, FallbackCritique, ToolScore, Level
<1>3. pc = "critique"
      /\ UNCHANGED <<cfg, iteration, retries, plan, ids, seen, turn, tally, acts, mentioned>>
  BY DEF Critique
<1>4. strong \in BOOLEAN
  BY DEF LInv, LoopTypes, LoopTypeOK
<1>5. "EscalationUnavailable" \in Reason /\ "EscalationUnavailable" # "Completed"
  BY DEF Reason
<1>6. QED
  BY <1>1, <1>2, <1>3, <1>4, <1>5, ReturnFacts DEF CritiqueEscalates

(* A revision uses a retry, and the last one returns.                      *)
LEMMA ReviseFacts ==
  ASSUME LInv, Revise
  PROVE  /\ UNCHANGED <<cfg, iteration, plan, ids, seen, strong, turn, tally, acts, last,
                        recorded>>
         /\ mentioned' \in BOOLEAN
         /\ pc = "revise" /\ retries' = retries + 1
         /\ \/ pc' = "loop" /\ outcome' = outcome /\ retries' < RetryLimit(3)
            \/ outcome'.reason \in Reason /\ pc' = "returned" /\ ~outcome'.success
<1>1. mentioned' \in BOOLEAN
  BY DEF Revise, MayMention, LInv, LoopTypes, LoopTypeOK
<1>2. retries \in Nat /\ RetryLimit(3) \in Nat
  BY DEF LInv, LoopTypes, LoopTypeOK, RetryLimit, Config
<1>3. retries' = retries + 1
      /\ \/ retries' >= RetryLimit(3) /\ Return("EscalationUnavailable")
         \/ ~(retries' >= RetryLimit(3)) /\ pc' = "loop" /\ outcome' = outcome
  BY DEF Revise, Stay
<1>4. "EscalationUnavailable" \in Reason /\ "EscalationUnavailable" # "Completed"
  BY DEF Reason
<1>5. pc = "revise" /\ UNCHANGED <<cfg, iteration, plan, ids, seen, strong, turn, tally, acts,
                                   last, recorded>>
  BY DEF Revise
<1>6. QED
  BY <1>1, <1>2, <1>3, <1>4, <1>5, ReturnFacts

(* The effect of a tool call on the budgets and the tally. *)
Pushed(result, ran) ==
  /\ turn' = [left |-> turn.left - 1,
              allowed |-> IF turn.allowed = 0 THEN 0 ELSE turn.allowed - 1,
              run |-> IF ran THEN turn.run + 1 ELSE turn.run]
  /\ tally' = [results |-> tally.results + 1,
               run |-> IF ran THEN tally.run + 1 ELSE tally.run,
               audited |-> IF cfg.audit THEN tally.audited + 1 ELSE 0,
               last |-> result,
               good |-> tally.good \/ result # "failed"]
  /\ pc' = "calls"

(* A call fails the task in the audit, or is pushed.                       *)
LEMMA CallFacts ==
  ASSUME LInv, RunCall \/ RefuseCall \/ DenyOverBudget
  PROVE  /\ UNCHANGED <<cfg, iteration, retries, plan, ids, seen, strong, acts, mentioned,
                        last, recorded, outcome>>
         /\ pc = "calls" /\ turn.left > 0
         /\ \/ pc' = "failed" /\ UNCHANGED <<turn, tally>>
            \/ \E result \in Result : Pushed(result, TRUE) /\ turn.allowed > 0
            \/ Pushed("failed", FALSE)
<1>2. ASSUME NEW result \in Result, NEW ran \in BOOLEAN, AuditAndPush(result, ran)
      PROVE  (pc' = "failed" /\ UNCHANGED <<turn, tally>>) \/ Pushed(result, ran)
  BY <1>2 DEF AuditAndPush, Pushed
<1>3. CASE RunCall
  BY <1>2, <1>3 DEF RunCall
<1>4. CASE RefuseCall \/ DenyOverBudget
  BY <1>2, <1>4 DEF RefuseCall, DenyOverBudget, Result
<1>5. QED
  BY <1>3, <1>4

(* What ends an ACT phase counts it.                                       *)
LEMMA ActFacts ==
  ASSUME LInv, ActOffline \/ ActText \/ EndTurn
  PROVE  /\ UNCHANGED <<cfg, iteration, retries, plan, ids, seen, strong, tally, last,
                        recorded, outcome>>
         /\ pc \in {"act", "calls"} /\ pc' = "inspect" /\ mentioned' \in BOOLEAN
         /\ turn' = turn \/ turn' = [left |-> 0, allowed |-> 0, run |-> 0]
         /\ \E s \in BOOLEAN : acts' = [count |-> acts.count + 1, last |-> s, some |-> acts.some \/ s]
<1>1. MayMention => mentioned' \in BOOLEAN
  BY DEF MayMention, LInv, LoopTypes, LoopTypeOK
<1>2. QED
  BY <1>1 DEF ActOffline, ActText, EndTurn, Acted

(* The types. *)
LEMMA LoopTypesStep ==
  ASSUME LInv, LoopNext
  PROVE  LoopTypes'
<1> USE DEF LInv, LoopTypes
<1>0. /\ cfg \in Engines /\ cfg \in Config
      /\ pc \in {"loop", "plan", "act", "calls", "inspect", "critique", "revise",
                 "verify", "decide", "returned", "failed"}
      /\ iteration \in 0..MaxIterations
      /\ retries \in 0..RetryLimit(3)
      /\ plan \in UNION {[1..n -> Status] : n \in 0..MaxSubTasks}
      /\ DOMAIN seen = DOMAIN plan /\ DOMAIN ids = DOMAIN plan
      /\ strong \in BOOLEAN
      /\ turn.left \in 0..TurnSize
      /\ tally.run <= tally.results
      /\ acts.count \in 0..MaxIterations
      /\ mentioned \in BOOLEAN
      /\ {last, recorded} \subseteq Level
      /\ outcome.reason \in Reason \cup {"none"}
      /\ turn \in [left : Nat, allowed : Nat, run : Nat]
      /\ tally \in [results : Nat, run : Nat, audited : Nat,
                    last : Result \cup {"none"}, good : BOOLEAN]
      /\ acts \in [count : Nat, last : BOOLEAN, some : BOOLEAN]
      /\ acts.count <= iteration /\ (pc \in {"act", "calls"} => acts.count < iteration)
      /\ MaxIterations \in Nat /\ TurnSize \in Nat /\ RetryLimit(3) \in Nat
      /\ MaxPerTurn \in Nat /\ MaxPerTask \in Nat /\ MaxSubTasks \in Nat
  BY LoopAssumption DEF LoopTypeOK, RetryLimit, Config
<1>1. CASE IterationLimit
  <2>1. UNCHANGED <<cfg, iteration, retries, plan, ids, seen, strong, turn, tally, acts,
                    mentioned, last, recorded>> /\ pc' = "returned" /\ outcome'.reason \in Reason
    BY <1>1, ReturnFacts DEF IterationLimit, Reason
  <2>2. QED
    BY <1>0, <2>1 DEF LoopTypeOK, RetryLimit
<1>2. CASE NextIteration
  <2>1. /\ UNCHANGED <<cfg, retries, plan, ids, strong, turn, tally, acts, mentioned, last,
                       recorded, outcome>>
        /\ iteration < MaxIterations /\ iteration' = iteration + 1
        /\ pc' \in {"plan", "act"} /\ (seen' = plan \/ seen' = seen)
    BY <1>2 DEF NextIteration, IterationsLeft
  <2>2. QED
    BY <1>0, <2>1 DEF LoopTypeOK, RetryLimit
<1>3. CASE Plan
  <2>1. /\ UNCHANGED <<cfg, iteration, retries, strong, turn, tally, acts, outcome>>
        /\ pc' = "loop" /\ seen' = plan' /\ last' = "high" /\ recorded' = "high"
        /\ mentioned' \in BOOLEAN
    BY <1>0, <1>3 DEF Plan, MayMention
  <2>2. PICK n \in 1..MaxSubTasks :
          plan' = [i \in 1..n |-> "Pending"] /\ DOMAIN ids' = 1..n
    BY <1>0, <1>3 DEF Plan, Numberings
  <2>3. plan' \in [1..n -> Status] /\ n \in 0..MaxSubTasks
    BY <1>0, <2>2 DEF Status
  <2>4. plan' \in UNION {[1..m -> Status] : m \in 0..MaxSubTasks}
    BY <2>3
  <2>5. QED
    BY <1>0, <2>1, <2>2, <2>4 DEF LoopTypeOK, RetryLimit, Level
<1>4. CASE ActOffline \/ ActText \/ EndTurn
  <2>1. PICK s \in BOOLEAN : acts' = [count |-> acts.count + 1, last |-> s, some |-> acts.some \/ s]
    BY <1>4, ActFacts
  <2>2. /\ UNCHANGED <<cfg, iteration, retries, plan, ids, seen, strong, tally, last,
                        recorded, outcome>>
        /\ pc \in {"act", "calls"} /\ pc' = "inspect" /\ mentioned' \in BOOLEAN
    BY <1>4, ActFacts
  <2>3. turn' = turn \/ turn' = [left |-> 0, allowed |-> 0, run |-> 0]
    BY <1>4, ActFacts
  <2>4. turn' \in [left : Nat, allowed : Nat, run : Nat] /\ turn'.left \in 0..TurnSize
    BY <1>0, <2>3
  <2>5. acts' \in [count : Nat, last : BOOLEAN, some : BOOLEAN] /\ acts'.count = acts.count + 1
    BY <1>0, <2>1
  <2>6. QED
    BY <1>0, <2>2, <2>4, <2>5 DEF LoopTypeOK, RetryLimit
<1>5. CASE ActCalls
  <2>1. PICK n \in 1..TurnSize : turn' = [left |-> n, allowed |-> Allowed, run |-> 0]
    BY <1>5 DEF ActCalls
  <2>2. UNCHANGED <<cfg, iteration, retries, plan, ids, seen, strong, tally, acts,
                    mentioned, last, recorded, outcome>> /\ pc = "act" /\ pc' = "calls"
    BY <1>5 DEF ActCalls
  <2>3. Allowed \in Nat
    BY <1>0 DEF Allowed, Least
  <2>4. turn' \in [left : Nat, allowed : Nat, run : Nat] /\ turn'.left \in 0..TurnSize
    BY <1>0, <2>1, <2>3
  <2>5. QED
    BY <1>0, <2>2, <2>4 DEF LoopTypeOK, RetryLimit
<1>6. CASE ActFails
  BY <1>0, <1>6 DEF ActFails, LoopTypeOK, RetryLimit
<1>7. CASE RunCall \/ RefuseCall \/ DenyOverBudget
  <2>1. UNCHANGED <<cfg, iteration, retries, plan, ids, seen, strong, acts, mentioned,
                    last, recorded, outcome>> /\ pc = "calls" /\ turn.left > 0
    BY <1>7, CallFacts
  <2>2. CASE pc' = "failed" /\ UNCHANGED <<turn, tally>>
    BY <1>0, <2>1, <2>2 DEF LoopTypeOK, RetryLimit
  <2>3. ASSUME NEW result \in Result, NEW ran \in BOOLEAN, Pushed(result, ran)
        PROVE  LoopTypes'
    <3> DEFINE a == IF turn.allowed = 0 THEN 0 ELSE turn.allowed - 1
               u == IF ran THEN turn.run + 1 ELSE turn.run
               n == IF ran THEN tally.run + 1 ELSE tally.run
               d == IF cfg.audit THEN tally.audited + 1 ELSE 0
               g == tally.good \/ result # "failed"
    <3>0. g \in BOOLEAN
      BY <1>0
    <3>1. /\ turn.left - 1 \in 0..TurnSize /\ turn.left - 1 \in Nat
          /\ a \in Nat /\ u \in Nat /\ n \in Nat /\ d \in Nat /\ g \in BOOLEAN
          /\ tally.results + 1 \in Nat /\ n <= tally.results + 1
      <4>1. /\ turn.left \in 0..TurnSize /\ turn.allowed \in Nat /\ turn.run \in Nat
            /\ tally.results \in Nat /\ tally.run \in Nat /\ tally.audited \in Nat
            /\ tally.run <= tally.results /\ TurnSize \in Nat /\ turn.left > 0
        BY <1>0, <2>1
      <4>2. QED
        BY <3>0, <4>1
    <3>2. /\ turn' = [left |-> turn.left - 1, allowed |-> a, run |-> u]
          /\ tally' = [results |-> tally.results + 1, run |-> n, audited |-> d,
                       last |-> result, good |-> g]
          /\ pc' = "calls"
      BY <2>3 DEF Pushed
    <3> HIDE DEF a, u, n, d, g
    <3>3. turn' \in [left : Nat, allowed : Nat, run : Nat] /\ turn'.left \in 0..TurnSize
      BY <3>1, <3>2
    <3>4. /\ tally' \in [results : Nat, run : Nat, audited : Nat,
                         last : Result \cup {"none"}, good : BOOLEAN]
          /\ tally'.run <= tally'.results
      BY <3>1, <3>2
    <3>5. QED
      BY <1>0, <2>1, <3>2, <3>3, <3>4 DEF LoopTypeOK, RetryLimit
  <2>4. QED
    BY <1>7, <2>2, <2>3, CallFacts DEF Result
<1>8. CASE Inspect
  BY <1>0, <1>8 DEF Inspect, LoopTypeOK, RetryLimit
<1>9. CASE Critique
  BY <1>0, <1>9, CritiqueFacts DEF LoopTypeOK, RetryLimit
<1>10. CASE Revise
  <2>1. retries < RetryLimit(3)
    BY <1>10 DEF BudgetsFit, Revise
  <2>2. retries' = retries + 1 /\ cfg' = cfg
    BY <1>10, ReviseFacts
  <2>3. retries' \in 0..RetryLimit(3)'
    BY <1>0, <2>1, <2>2 DEF RetryLimit
  <2>4. QED
    BY <1>0, <1>10, <2>3, ReviseFacts DEF LoopTypeOK
<1>11. CASE Verify
  <2>1. {last', recorded'} \subseteq Level
    BY <1>11 DEF Verify, Cap, Level
  <2>2. QED
    BY <1>0, <1>11, <2>1 DEF Verify, LoopTypeOK, RetryLimit
<1>12. CASE Decide
  <2>1. UNCHANGED <<cfg, iteration, retries, ids, seen, strong, turn, tally, acts,
                    mentioned, last, recorded>>
    BY <1>12 DEF Decide
  <2>2. PICK n \in 0..MaxSubTasks : plan' \in [1..n -> Status]
    BY <1>12, DecideFacts
  <2>3. DOMAIN plan' = DOMAIN plan /\ pc' \in {"loop", "returned"}
        /\ outcome'.reason \in Reason \cup {"none"}
    BY <1>0, <1>12, DecideFacts
  <2>4. plan' \in UNION {[1..m -> Status] : m \in 0..MaxSubTasks}
    BY <2>2
  <2>5. QED
    BY <1>0, <2>1, <2>3, <2>4 DEF LoopTypeOK, RetryLimit
<1>13. QED
  BY <1>1, <1>2, <1>3, <1>4, <1>5, <1>6, <1>7, <1>8, <1>9, <1>10, <1>11, <1>12 DEF LoopNext

(* The budgets. *)
LEMMA BudgetsStep ==
  ASSUME LInv, LoopNext
  PROVE  BudgetsFit'
<1> USE DEF LInv
<1>0. /\ retries \in Nat /\ RetryLimit(3) \in Nat /\ RetryLimit(2) \in Nat
      /\ cfg \in Config /\ strong \in BOOLEAN
      /\ turn.left \in Nat /\ turn.allowed \in Nat /\ turn.run \in Nat
      /\ tally.results \in Nat /\ tally.run \in Nat /\ tally.audited \in Nat
      /\ tally.run <= tally.results
      /\ MaxPerTurn \in Nat /\ MaxPerTask \in Nat
  BY LoopAssumption DEF LoopTypes, LoopTypeOK, RetryLimit, Config
<1>1. /\ tally.run <= MaxPerTask /\ turn.run <= MaxPerTurn
      /\ retries <= RetryLimit(3)
      /\ strong => cfg.escalation /\ retries >= RetryLimit(2)
      /\ cfg.audit /\ pc # "failed" => tally.audited = tally.results
      /\ turn.run + turn.allowed <= MaxPerTurn
      /\ pc = "calls" /\ turn.allowed > 0 => tally.results + turn.allowed <= MaxPerTask
      /\ pc # "returned" => retries < RetryLimit(3)
  BY DEF BudgetsFit, BudgetHolds
<1>2. ASSUME cfg' = cfg
      PROVE  RetryLimit(3)' = RetryLimit(3) /\ RetryLimit(2)' = RetryLimit(2)
  BY <1>2 DEF RetryLimit
<1>3. ASSUME UNCHANGED <<cfg, retries, turn, tally>>, pc \notin {"returned", "failed"},
             pc' # "calls",
             strong' # strong => cfg.escalation /\ retries >= RetryLimit(2)
      PROVE  BudgetsFit'
  BY <1>0, <1>1, <1>2, <1>3 DEF BudgetsFit, BudgetHolds
<1>4. CASE IterationLimit \/ NextIteration \/ Plan \/ ActFails \/ Inspect \/ Verify
  <2>1. UNCHANGED <<cfg, retries, turn, tally, strong>>
    BY <1>4 DEF IterationLimit, NextIteration, Plan, ActFails, Inspect, Verify
  <2>2. pc \notin {"returned", "failed"}
    BY <1>4 DEF IterationLimit, NextIteration, Plan, ActFails, Inspect, Verify
  <2>3. pc' # "calls"
    BY <1>4 DEF IterationLimit, NextIteration, Plan, ActFails, Inspect, Verify, Return
  <2>4. QED
    BY <1>3, <2>1, <2>2, <2>3
<1>5. CASE Decide
  <2>1. UNCHANGED <<cfg, retries, turn, tally, strong>> /\ pc = "decide"
    BY <1>5 DEF Decide
  <2>2. pc' # "calls"
    BY <1>5, DecideFacts DEF LInv
  <2>3. QED
    BY <1>3, <2>1, <2>2
<1>6. CASE Critique
  BY <1>3, <1>6, CritiqueFacts
<1>7. CASE ActOffline \/ ActText \/ EndTurn
  <2>1. UNCHANGED <<cfg, retries, tally, strong>> /\ pc \in {"act", "calls"} /\ pc' = "inspect"
    BY <1>7, ActFacts
  <2>2. turn' = turn \/ turn' = [left |-> 0, allowed |-> 0, run |-> 0]
    BY <1>7, ActFacts
  <2>3. turn'.run <= MaxPerTurn /\ turn'.run + turn'.allowed <= MaxPerTurn
    BY <1>0, <1>1, <2>2
  <2>4. QED
    BY <1>0, <1>1, <1>2, <2>1, <2>3 DEF BudgetsFit, BudgetHolds
<1>8. CASE ActCalls
  <2>1. PICK n \in 1..TurnSize : turn' = [left |-> n, allowed |-> Allowed, run |-> 0]
    BY <1>8 DEF ActCalls
  <2>2. UNCHANGED <<cfg, retries, tally, strong>> /\ pc = "act" /\ pc' = "calls"
    BY <1>8 DEF ActCalls
  <2>3. /\ Allowed \in Nat /\ Allowed <= MaxPerTurn
        /\ Allowed > 0 => tally.results + Allowed <= MaxPerTask
    BY <1>0 DEF Allowed, Least
  <2>4. turn'.run = 0 /\ turn'.allowed = Allowed
    BY <2>1
  <2>5. QED
    BY <1>0, <1>1, <1>2, <2>2, <2>3, <2>4 DEF BudgetsFit, BudgetHolds
<1>9. CASE RunCall \/ RefuseCall \/ DenyOverBudget
  <2>1. UNCHANGED <<cfg, retries, strong>> /\ pc = "calls"
    BY <1>9, CallFacts
  <2>2. CASE pc' = "failed" /\ UNCHANGED <<turn, tally>>
    BY <1>0, <1>1, <1>2, <2>1, <2>2 DEF BudgetsFit, BudgetHolds
  <2>3. ASSUME NEW result \in Result, NEW ran \in BOOLEAN, Pushed(result, ran),
               ran => turn.allowed > 0
        PROVE  BudgetsFit'
    <3>1. /\ turn'.allowed = IF turn.allowed = 0 THEN 0 ELSE turn.allowed - 1
          /\ turn'.run = IF ran THEN turn.run + 1 ELSE turn.run
          /\ tally'.results = tally.results + 1
          /\ tally'.run = IF ran THEN tally.run + 1 ELSE tally.run
          /\ tally'.audited = IF cfg.audit THEN tally.audited + 1 ELSE 0
          /\ pc' = "calls"
      BY <2>3 DEF Pushed
    <3>2. /\ tally'.run <= MaxPerTask /\ turn'.run <= MaxPerTurn
          /\ turn'.run + turn'.allowed <= MaxPerTurn
          /\ turn'.allowed > 0 => tally'.results + turn'.allowed <= MaxPerTask
      BY <1>0, <1>1, <2>1, <2>3, <3>1
    <3>3. cfg.audit => tally'.audited = tally'.results
      BY <1>0, <1>1, <2>1, <3>1
    <3>4. QED
      BY <1>0, <1>1, <1>2, <2>1, <3>1, <3>2, <3>3 DEF BudgetsFit, BudgetHolds
  <2>4. QED
    BY <1>9, <2>2, <2>3, CallFacts DEF Result
<1>10. CASE Revise
  <2>1. UNCHANGED <<cfg, turn, tally, strong>> /\ pc = "revise" /\ retries' = retries + 1
        /\ (pc' = "returned" \/ (pc' = "loop" /\ retries' < RetryLimit(3)))
    BY <1>10, ReviseFacts
  <2>2. QED
    BY <1>0, <1>1, <1>2, <2>1 DEF BudgetsFit, BudgetHolds
<1>11. QED
  BY <1>4, <1>5, <1>6, <1>7, <1>8, <1>9, <1>10 DEF LoopNext

(* The evidence. *)
LEMMA EvidenceStep ==
  ASSUME LInv, LoopNext
  PROVE  EvidenceFits'
<1> USE DEF LInv
<1>0. /\ IsFiniteSet(CompletedTasks) /\ Cardinality(CompletedTasks) \in Nat
      /\ acts.count \in Nat /\ acts.last \in BOOLEAN /\ acts.some \in BOOLEAN
      /\ tally.good \in BOOLEAN
  BY PlanFacts DEF LoopTypes
<1>1. /\ Cardinality(CompletedTasks) <= acts.count
      /\ outcome.success => /\ plan # <<>> /\ CompletedTasks = DOMAIN plan
                            /\ acts.some \/ tally.good
      /\ outcome.success => pc = "returned"
      /\ pc \in Finishing => Cardinality(CompletedTasks) < acts.count
      /\ CompletedTasks # {} => acts.some \/ tally.good
      /\ acts.last => acts.some
      /\ tally.last \in {"ok", "empty"} => tally.good
  BY DEF EvidenceFits, SuccessIsEarned
<1>2. ASSUME plan' = plan
      PROVE  CompletedTasks' = CompletedTasks
  BY <1>2 DEF CompletedTasks
<1>3. ASSUME UNCHANGED <<plan, tally, acts>>, pc \notin {"returned", "failed"},
             pc' \in Finishing => pc \in Finishing,
             outcome' = outcome \/ ~outcome'.success
      PROVE  EvidenceFits'
  BY <1>0, <1>1, <1>2, <1>3 DEF EvidenceFits, SuccessIsEarned
<1>4. CASE IterationLimit
  BY <1>3, <1>4, ReturnFacts DEF IterationLimit, Finishing, Reason
<1>5. CASE NextIteration \/ ActCalls \/ ActFails
  <2>1. UNCHANGED <<plan, tally, acts, outcome>>
    BY <1>5 DEF NextIteration, ActCalls, ActFails
  <2>2. pc \in {"loop", "act"} /\ pc' \notin Finishing
    BY <1>5 DEF NextIteration, ActCalls, ActFails, Finishing
  <2>3. QED
    BY <1>3, <2>1, <2>2
<1>6. CASE Inspect \/ Verify
  <2>1. UNCHANGED <<plan, tally, acts, outcome>> /\ pc \in Finishing
    BY <1>6 DEF Inspect, Verify, Finishing
  <2>2. QED
    BY <1>3, <2>1 DEF Finishing
<1>7. CASE Critique
  BY <1>3, <1>7, CritiqueFacts DEF Finishing
<1>8. CASE Revise
  BY <1>3, <1>8, ReviseFacts DEF Finishing
<1>9. CASE Plan
  <2>1. UNCHANGED <<tally, acts, outcome>> /\ pc = "plan" /\ pc' = "loop"
    BY <1>9 DEF Plan
  <2>2. CompletedTasks' = {}
    BY <1>9 DEF Plan, CompletedTasks
  <2>3. Cardinality({}) = 0
    BY FS_EmptySet
  <2>4. QED
    BY <1>0, <1>1, <2>1, <2>2, <2>3 DEF EvidenceFits, SuccessIsEarned, Finishing
<1>10. CASE ActOffline \/ ActText \/ EndTurn
  <2>1. UNCHANGED <<plan, tally, outcome>> /\ pc \in {"act", "calls"} /\ pc' = "inspect"
    BY <1>10, ActFacts
  <2>2. PICK s \in BOOLEAN : acts' = [count |-> acts.count + 1, last |-> s, some |-> acts.some \/ s]
    BY <1>10, ActFacts
  <2>3. acts'.count = acts.count + 1 /\ (acts.some => acts'.some) /\ (acts'.last => acts'.some)
    BY <1>0, <2>2
  <2>4. QED
    BY <1>0, <1>1, <1>2, <2>1, <2>3 DEF EvidenceFits, SuccessIsEarned
<1>11. CASE RunCall \/ RefuseCall \/ DenyOverBudget
  <2>1. UNCHANGED <<plan, acts, outcome>> /\ pc = "calls"
    BY <1>11, CallFacts
  <2>2. CASE pc' = "failed" /\ UNCHANGED <<turn, tally>>
    BY <1>3, <2>1, <2>2 DEF Finishing
  <2>3. ASSUME NEW result \in Result, NEW ran \in BOOLEAN, Pushed(result, ran)
        PROVE  EvidenceFits'
    <3>1. /\ tally'.good = (tally.good \/ result # "failed") /\ tally'.last = result
          /\ pc' = "calls"
      BY <2>3 DEF Pushed
    <3>2. (tally.good => tally'.good) /\ (tally'.last \in {"ok", "empty"} => tally'.good)
      BY <1>0, <3>1
    <3>3. QED
      BY <1>0, <1>1, <1>2, <2>1, <3>1, <3>2 DEF EvidenceFits, SuccessIsEarned, Finishing
  <2>4. QED
    BY <1>11, <2>2, <2>3, CallFacts DEF Result
<1>12. CASE Decide
  <2>1. UNCHANGED <<acts, tally>> /\ pc = "decide" /\ pc \in Finishing
    BY <1>12 DEF Decide, Finishing
  <2>2. pc' \notin Finishing /\ DOMAIN plan' = DOMAIN plan
        /\ (outcome' = outcome \/ pc' = "returned")
        /\ (outcome' # outcome /\ outcome'.success => PendingIn(plan') = {} /\ plan # <<>>)
    BY <1>12, DecideFacts DEF Finishing
  <2>3. LatestActHasEvidence => acts.some \/ tally.good
    BY <1>1 DEF LatestActHasEvidence
  <2>4. /\ CompletedTasks' # {} => acts.some \/ tally.good
        /\ Cardinality(CompletedTasks') <= acts.count
    <3>1. CASE plan' = plan
      BY <1>0, <1>1, <1>2, <3>1
    <3>2. CASE plan' # plan
      <4>1. PICK i \in DOMAIN plan :
                 /\ CompletedTasks' = CompletedTasks \cup {i} /\ i \notin CompletedTasks
                 /\ LatestActHasEvidence
        BY <1>12, <3>2, DecideFacts
      <4>2. Cardinality(CompletedTasks') = Cardinality(CompletedTasks) + 1
        BY <1>0, <4>1, FS_AddElement
      <4>3. QED
        BY <1>0, <1>1, <2>1, <2>3, <4>1, <4>2
    <3>3. QED
      BY <3>1, <3>2
  <2>5. ASSUME outcome'.success
        PROVE  plan' # <<>> /\ CompletedTasks' = DOMAIN plan' /\ (acts.some \/ tally.good)
               /\ pc' = "returned"
    <3>1. outcome' # outcome
      BY <1>1, <2>1, <2>5
    <3>2. PendingIn(plan') = {} /\ plan # <<>> /\ pc' = "returned"
      BY <2>2, <2>5, <3>1
    <3>3. PICK n \in 0..MaxSubTasks : plan' \in [1..n -> Status]
      BY <1>12, DecideFacts
    <3>4. PICK m \in 0..MaxSubTasks : plan \in [1..m -> Status]
      BY PlanFacts DEF LoopTypes
    <3>5. m # 0
      BY <3>2, <3>4
    <3>6. m \in Nat /\ DOMAIN plan' = 1..m
      BY <2>2, <3>4, LoopAssumption
    <3>7. 1 \in DOMAIN plan' /\ plan' # <<>>
      BY <3>5, <3>6
    <3>8. CompletedTasks' = DOMAIN plan'
      BY <3>2, <3>3 DEF PendingIn, CompletedTasks, Status
    <3>9. QED
      BY <2>4, <3>2, <3>7, <3>8
  <2>6. QED
    BY <1>1, <2>1, <2>2, <2>4, <2>5 DEF EvidenceFits, SuccessIsEarned
<1>13. QED
  BY <1>4, <1>5, <1>6, <1>7, <1>8, <1>9, <1>10, <1>11, <1>12 DEF LoopNext

(* The loop begins within the invariant.                                   *)
LEMMA LoopStart == LoopInit => LInv
<1> SUFFICES ASSUME LoopInit PROVE LInv
  OBVIOUS
<1>1. /\ cfg \in Engines /\ cfg \in Config /\ RetryLimit(3) \in Nat \ {0}
      /\ MaxIterations \in Nat /\ MaxSubTasks \in Nat /\ MaxPerTurn \in Nat
      /\ MaxPerTask \in Nat /\ TurnSize \in Nat
  BY LoopAssumption DEF LoopInit, RetryLimit, Config
<1>2. plan \in UNION {[1..n -> Status] : n \in 0..MaxSubTasks}
  <2>1. plan = <<>> /\ <<>> \in [1..0 -> Status] /\ 0 \in 0..MaxSubTasks
    BY <1>1 DEF LoopInit
  <2>2. QED
    BY <2>1
<1>3. CompletedTasks = {} /\ Cardinality({}) = 0
  BY FS_EmptySet DEF LoopInit, CompletedTasks
<1>4. LoopTypes
  <2>1. /\ turn \in [left : Nat, allowed : Nat, run : Nat] /\ turn.left = 0
        /\ acts \in [count : Nat, last : BOOLEAN, some : BOOLEAN] /\ acts.count = 0
    BY DEF LoopInit
  <2>2. tally \in [results : Nat, run : Nat, audited : Nat,
                  last : Result \cup {"none"}, good : BOOLEAN] /\ tally.run <= tally.results
    BY DEF LoopInit
  <2>3. mentioned \in BOOLEAN
    BY DEF LoopInit
  <2>4. pc = "loop" /\ iteration = 0 /\ retries = 0 /\ strong = FALSE /\ last = "high"
        /\ recorded = "high" /\ outcome.reason = "none" /\ seen = plan /\ ids = plan
    BY DEF LoopInit, NoOutcome
  <2>5. LoopTypeOK
    <3>1. iteration \in 0..MaxIterations /\ retries \in 0..RetryLimit(3)
          /\ turn.left \in 0..TurnSize /\ acts.count \in 0..MaxIterations
      BY <1>1, <2>1, <2>4
    <3>2. DOMAIN seen = DOMAIN plan /\ DOMAIN ids = DOMAIN plan
          /\ strong \in BOOLEAN /\ {last, recorded} \subseteq Level
      BY <2>4 DEF Level
    <3>3. QED
      BY <1>1, <1>2, <2>2, <2>3, <2>4, <3>1, <3>2 DEF LoopTypeOK
  <2>6. QED
    BY <1>1, <2>1, <2>2, <2>4, <2>5 DEF LoopTypes
<1>5. BudgetsFit
  BY <1>1 DEF LoopInit, BudgetsFit, BudgetHolds
<1>6. EvidenceFits
  BY <1>3 DEF LoopInit, EvidenceFits, SuccessIsEarned, NoOutcome, Finishing
<1>7. QED
  BY <1>4, <1>5, <1>6 DEF LInv

LEMMA LoopInductive == LInv /\ [LoopNext]_loopvars => LInv'
<1> SUFFICES ASSUME LInv, [LoopNext]_loopvars PROVE LInv'
  OBVIOUS
<1>1. CASE LoopNext
  BY <1>1, LoopTypesStep, BudgetsStep, EvidenceStep DEF LInv
<1>2. CASE UNCHANGED loopvars
  <2>1. UNCHANGED <<cfg, pc, iteration, retries, plan, ids, seen, strong, turn, tally,
                    acts, mentioned, last, recorded, outcome>>
    BY <1>2 DEF loopvars
  <2>2. LoopTypes'
    BY <2>1 DEF LInv, LoopTypes, LoopTypeOK, RetryLimit
  <2>3. BudgetsFit'
    BY <2>1 DEF LInv, BudgetsFit, BudgetHolds, RetryLimit
  <2>4. EvidenceFits'
    BY <2>1 DEF LInv, EvidenceFits, SuccessIsEarned, CompletedTasks
  <2>5. QED
    BY <2>2, <2>3, <2>4 DEF LInv
<1>3. QED
  BY <1>1, <1>2

(* The loop keeps its inductive invariant. *)
THEOREM LoopInvariant == LoopSpec => []LInv
BY LoopStart, LoopInductive, PTL DEF LoopSpec

(* The variables of the loop keep their types, within the bounds of the    *)
(* engine: iterations, ACTs, retries and the sub-tasks of the plan.        *)
THEOREM LoopTypesHold == LoopSpec => []LoopTypeOK
BY LoopInvariant, PTL DEF LInv, LoopTypes

(* Success is claimed for a plan that is not empty, whose sub-tasks are    *)
(* all completed, each by an ACT phase of its own, on evidence             *)
(* (Engine::execute_task).                                                 *)
THEOREM Earned == LoopSpec => []SuccessIsEarned
BY LoopInvariant, PTL DEF LInv, EvidenceFits

(* No turn and no task runs more calls than its budget, retries stay       *)
(* within the limit, the stronger model is a last resort, and every result *)
(* is in the audit log (Engine::execute_task, ActPhase).                   *)
THEOREM WithinBudget == LoopSpec => []BudgetHolds
BY LoopInvariant, PTL DEF LInv, BudgetsFit

-----------------------------------------------------------------------------
(* The clock goes past its bound only for requests that are open, each of  *)
(* which was submitted before the bound its predecessors allowed.          *)
Submitted == {r \in Request : status[r] # "None"}

Horizon(n) == MaxClock + Timeout * n

ClockFits ==
  /\ clock <= Horizon(Cardinality(Submitted))
  /\ \A r \in Submitted : expires[r] <= Horizon(Cardinality(Submitted))
  /\ \A a \in Asker : \A i \in DOMAIN granted[a] : granted[a][i] <= clock

LEMMA HorizonFacts ==
  ASSUME NEW n \in Nat
  PROVE  /\ Horizon(n) \in Nat
         /\ Horizon(n + 1) = Horizon(n) + Timeout
<1>1. MaxClock \in Nat /\ Timeout \in Nat
  BY GateAssumption
<1>2. Timeout * (n + 1) = Timeout * n + Timeout /\ Timeout * n \in Nat
  BY <1>1
<1>3. QED
  BY <1>1, <1>2 DEF Horizon

LEMMA HorizonGrows ==
  ASSUME NEW m \in Nat, NEW n \in Nat, m <= n
  PROVE  Horizon(m) <= Horizon(n)
<1>1. MaxClock \in Nat /\ Timeout \in Nat
  BY GateAssumption
<1>2. PICK d \in Nat : n = m + d
  <2>1. n - m \in Nat /\ n = m + (n - m)
    OBVIOUS
  <2>2. QED
    BY <2>1
<1>3. Timeout * (m + d) = Timeout * m + Timeout * d
      /\ Timeout * m \in Nat /\ Timeout * d \in Nat
  BY <1>1
<1>4. QED
  BY <1>1, <1>2, <1>3 DEF Horizon

LEMMA SubmittedFacts ==
  /\ IsFiniteSet(Submitted) /\ Cardinality(Submitted) \in Nat
  /\ Cardinality(Submitted) <= Cardinality(Request)
  /\ Cardinality(Request) \in Nat
<1>1. IsFiniteSet(Request) /\ Submitted \subseteq Request
  BY GateAssumption DEF Submitted
<1>2. QED
  BY <1>1, FS_Subset, FS_CardinalityType

(* Only submit_request makes a request; the others keep those there are.   *)
LEMMA ClockStep ==
  ASSUME GInv, ClockFits, GateNext
  PROVE  ClockFits'
<1> USE DEF GInv
<1> DEFINE n == Cardinality(Submitted)
<1>1. /\ n \in Nat /\ Horizon(n) \in Nat /\ Horizon(n + 1) = Horizon(n) + Timeout
      /\ Timeout \in Nat /\ MaxClock \in Nat /\ clock \in Nat /\ expires \in [Request -> Nat]
      /\ granted \in [Asker -> Seq(Nat)] /\ Horizon(0) <= Horizon(n) /\ Horizon(0) = MaxClock
  <2>1. n \in Nat /\ 0 \in Nat /\ 0 <= n
    BY SubmittedFacts
  <2>2. Timeout \in Nat /\ MaxClock \in Nat
    BY GateAssumption
  <2>3. Horizon(0) = MaxClock
    BY <2>2 DEF Horizon
  <2>4. Horizon(0) <= Horizon(n)
    BY <2>1, HorizonGrows
  <2>5. Horizon(n) \in Nat /\ Horizon(n + 1) = Horizon(n) + Timeout
    BY <2>1, HorizonFacts
  <2>6. QED
    BY <2>1, <2>2, <2>3, <2>4, <2>5 DEF TypesFit
<1> HIDE DEF n
<1>2. ASSUME NEW r \in Request, Submit(r)
      PROVE  ClockFits'
  <2>1. /\ status[r] = "None" /\ status' = [status EXCEPT ![r] = "Pending"]
        /\ expires' = [expires EXCEPT ![r] = clock + Timeout]
        /\ UNCHANGED <<clock, granted>> /\ status \in [Request -> Statuses]
    BY <1>2 DEF Submit, CallersFit, TypesFit
  <2>2. Submitted' = Submitted \cup {r} /\ r \notin Submitted
    BY <2>1 DEF Submitted
  <2>3. Cardinality(Submitted') = n + 1
    BY <2>2, SubmittedFacts, FS_AddElement DEF n
  <2>4. clock' <= Horizon(n + 1)
    BY <1>1, <2>1 DEF ClockFits, n
  <2>5. ASSUME NEW q \in Submitted' PROVE expires'[q] <= Horizon(n + 1)
    <3>1. CASE q = r
      BY <1>1, <2>1, <3>1 DEF ClockFits, n
    <3>2. CASE q # r
      <4>1. q \in Submitted /\ q \in Request
        BY <2>2, <3>2 DEF Submitted
      <4>2. expires[q] <= Horizon(n) /\ expires[q] \in Nat /\ expires'[q] = expires[q]
        BY <1>1, <2>1, <3>2, <4>1 DEF ClockFits, n
      <4>3. QED
        BY <1>1, <4>2
    <3>3. QED
      BY <3>1, <3>2
  <2>6. QED
    BY <2>1, <2>3, <2>4, <2>5 DEF ClockFits, Horizon
<1>3. CASE \A r \in Request : ~Submit(r)
  <2>1. Submitted' = Submitted
    <3>1. ASSUME NEW r \in Request, Still(r) \/ (Moves(r) /\ ~Asked(r))
          PROVE  (status[r] = "None") <=> (status'[r] = "None")
      <4>1. Still(r) => ((status[r] = "None") <=> (status'[r] = "None"))
        BY DEF Still, Decides, CanTransition, Decided
      <4>2. QED
        BY <3>1, <4>1
        DEF Moves, Rated, Judged, Waits, Answered, Leaves
    <3>2. ASSUME NEW r \in Request, Asked(r) PROVE FALSE
      BY <1>3, <3>2, AskedSubmits
    <3>3. QED
      BY <3>1, <3>2, StepMoves DEF Submitted
  <2>2. UNCHANGED expires
    BY <1>3
    DEF GateNext, Advance, PassRate, HitRate, Unasked, AwaitAuto, AutoApprove, Subscribe, Wake,
        WaitTimesOut, CallerGone, Look, Approve, Deny, List, Cleanup, SetAutoApprove, Second,
        requests
  <2>3. CASE UNCHANGED <<clock, granted>>
    BY <2>1, <2>2, <2>3 DEF ClockFits, Horizon
  <2>4. CASE Second
    <3>1. clock' = clock + 1 /\ UNCHANGED granted
      BY <2>4 DEF Second
    <3>2. clock < Horizon(n)
      <4>1. CASE clock < MaxClock
        BY <1>1, <4>1
      <4>2. ASSUME NEW r \in Request, CanTransition(r), ~Due(r)
            PROVE  clock < Horizon(n)
        <5>1. r \in Submitted
          BY <4>2 DEF CanTransition, Submitted
        <5>2. clock < expires[r] /\ expires[r] <= Horizon(n) /\ expires[r] \in Nat
          BY <1>1, <4>2, <5>1 DEF Due, ClockFits, n, Submitted
        <5>3. QED
          BY <1>1, <5>2
      <4>3. QED
        BY <2>4, <4>1, <4>2 DEF Second
    <3>3. clock' <= Horizon(n)
      BY <1>1, <3>1, <3>2
    <3>4. \A a \in Asker : \A i \in DOMAIN granted'[a] : granted'[a][i] <= clock'
      BY <1>1, <3>1 DEF ClockFits
    <3>5. QED
      BY <2>1, <2>2, <3>3, <3>4 DEF ClockFits, Horizon, n
  <2>5. ASSUME NEW r \in Request, PassRate(r)
        PROVE  ClockFits'
    <3>1. clock' = clock /\ AgentOf[r] \in Asker
          /\ granted' = [granted EXCEPT ![AgentOf[r]] = Append(@, clock)]
      BY <2>5 DEF PassRate, CheckRateLimit, Asker
    <3>2. ASSUME NEW a \in Asker, NEW i \in DOMAIN granted'[a]
          PROVE  granted'[a][i] <= clock
      <4>1. CASE a # AgentOf[r]
        BY <1>1, <3>1, <3>2, <4>1 DEF ClockFits
      <4>2. CASE a = AgentOf[r]
        <5>1. granted'[a] = Append(granted[a], clock) /\ granted[a] \in Seq(Nat)
          BY <1>1, <3>1, <4>2
        <5>2. \A j \in DOMAIN granted[a] : granted[a][j] <= clock
          BY DEF ClockFits
        <5>3. QED
          BY <1>1, <3>2, <5>1, <5>2
      <4>3. QED
        BY <4>1, <4>2
    <3>3. QED
      BY <2>1, <2>2, <3>1, <3>2 DEF ClockFits, Horizon
  <2>6. QED
    BY <1>3, <2>3, <2>4, <2>5
    DEF GateNext, Advance, HitRate, RateLimited, Unasked, AwaitAuto, AutoApprove, Subscribe,
        Wake, WaitTimesOut, CallerGone, Look, Approve, Deny, List, Cleanup, SetAutoApprove
<1>4. QED
  BY <1>2, <1>3

(* The types of the gate, within the bound of its clock and trackers.      *)
LEMMA GateTypes ==
  ASSUME GInv, ClockFits, Bounded
  PROVE  GateTypeOK
<1> DEFINE n == Cardinality(Submitted)
           final == Horizon(Cardinality(Request))
<1>1. /\ clock \in Nat /\ granted \in [Asker -> Seq(Nat)]
      /\ LastTick = final /\ final \in Nat
      /\ Horizon(n) \in Nat /\ Horizon(n) <= final /\ clock <= Horizon(n)
  BY SubmittedFacts, HorizonFacts, HorizonGrows DEF GInv, TypesFit, ClockFits, LastTick, Horizon
<1> HIDE DEF n, final
<1>2. clock \in 0..LastTick
  BY <1>1
<1>3. ASSUME NEW a \in Asker PROVE granted[a] \in Seq(0..LastTick)
  <2>1. granted[a] \in Seq(Nat) /\ \A i \in DOMAIN granted[a] : granted[a][i] <= clock
    BY <1>1 DEF ClockFits
  <2>2. \A i \in 1..Len(granted[a]) : granted[a][i] \in 0..LastTick
    BY <1>1, <2>1
  <2>3. /\ Len(granted[a]) \in Nat
        /\ granted[a] \in [1..Len(granted[a]) -> 0..LastTick]
    BY <2>1, <2>2
  <2> DEFINE times == granted[a]
             ticks == 0..LastTick
  <2>4. Len(times) \in Nat /\ times \in [1..Len(times) -> ticks]
    BY <2>3
  <2> HIDE DEF times, ticks
  <2>5. times \in Seq(ticks)
    BY <2>4
  <2>6. QED
    BY <2>5 DEF times, ticks
<1>4. QED
  BY <1>1, <1>2, <1>3
  DEF GateTypeOK, GInv, TypesFit, Bounded, Callers, Statuses

-----------------------------------------------------------------------------
(* The three families of the run side by side.                             *)
AgentsInv == IInv /\ LInv /\ GInv /\ Bounded /\ ClockFits

LEMMA ClockStart == GateInit => ClockFits
<1> SUFFICES ASSUME GateInit PROVE ClockFits
  OBVIOUS
<1>1. Submitted = {} /\ Cardinality({}) = 0
  BY FS_EmptySet DEF GateInit, Submitted
<1>2. MaxClock \in Nat /\ Horizon(0) = MaxClock
  BY GateAssumption DEF Horizon
<1>3. QED
  BY <1>1, <1>2 DEF GateInit, ClockFits

(* The composer, the loop and the gate keep their types: phases, table and *)
(* nodes; iterations, retries, sub-tasks and turns within the bounds of    *)
(* the engine; trackers within MAX_RATE_TRACKERS and no time beyond the    *)
(* last request (Composer, Engine, ApprovalGate).                          *)
THEOREM TypesKept == MCSpec => []TypesHold
<1>1. MCInit => AgentsInv
  BY Initial, LoopStart, GateStart, BoundedStart, ClockStart DEF MCInit, AgentsInv
<1>2. AgentsInv /\ [MCNext]_mvars => AgentsInv'
  <2> SUFFICES ASSUME AgentsInv, [MCNext]_mvars PROVE AgentsInv'
    OBVIOUS
  <2>1. IInv'
    BY Inductive DEF AgentsInv, MCNext, mvars
  <2>2. LInv'
    BY LoopInductive DEF AgentsInv, MCNext, mvars
  <2>3. GInv' /\ Bounded' /\ ClockFits'
    <3>1. CASE GateNext
      BY <3>1, GateInductive, BoundedStep, ClockStep DEF AgentsInv
    <3>2. CASE UNCHANGED gatevars
      <4>1. GInv'
        BY <3>2, GateStutters DEF AgentsInv
      <4>2. UNCHANGED <<trackers, clock, status, expires, granted>>
        BY <3>2 DEF gatevars, requests
      <4>3. Bounded' /\ ClockFits'
        BY <4>2 DEF AgentsInv, Bounded, ClockFits, Submitted, Horizon
      <4>4. QED
        BY <4>1, <4>3
    <3>3. QED
      BY <3>1, <3>2 DEF MCNext, mvars
  <2>4. QED
    BY <2>1, <2>2, <2>3 DEF AgentsInv
<1>3. AgentsInv => TypesHold
  BY GateTypes DEF AgentsInv, TypesHold, IInv, LInv, LoopTypes
<1>4. QED
  BY <1>1, <1>2, <1>3, PTL DEF MCSpec

=============================================================================
