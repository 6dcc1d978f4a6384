-------------------------- MODULE EventStreamProofs --------------------------
(***************************************************************************)
(* Proofs about EventStream, for any number of attempts and events, any    *)
(* capacity of the bus, and any plan of crashes, failures, cancels, early  *)
(* deadlines and lost connections.                                         *)
(***************************************************************************)
EXTENDS EventStream, TLAPS, FiniteSetTheorems, NaturalsInduction, WellFoundedInduction

-----------------------------------------------------------------------------
(* Positions *)

Pos == Nat \X Nat

LEMMA BeforeOrder ==
  /\ \A p \in Pos : ~Before(p, p)
  /\ \A p \in Pos : \A q \in Pos : Before(p, q) \/ Before(q, p) \/ p = q
  /\ \A p \in Pos : \A q \in Pos : ~(Before(p, q) /\ Before(q, p))
  /\ \A p \in Pos : \A q \in Pos : \A r \in Pos : Before(p, q) /\ Before(q, r) => Before(p, r)
  /\ \A p \in Pos : \A q \in Pos : \A r \in Pos : ~Before(q, p) /\ Before(q, r) => Before(p, r)
  /\ \A p \in Pos : \A q \in Pos : \A r \in Pos : Before(p, q) /\ ~Before(r, q) => Before(p, r)
  BY DEF Before, Pos

LEMMA Bounds ==
  MaxAttempts \in Nat /\ MaxAttempts >= 1 /\ MaxOutput \in Nat /\ Capacity \in Nat /\ Capacity >= 1
<1>1. MaxAttempts \in Nat \ {0} /\ MaxOutput \in Nat /\ Capacity \in Nat \ {0}
  BY StreamAssumption
<1> QED
  BY <1>1

LEMMA PositionsPos == Positions \subseteq Pos /\ Nowhere \in Positions
  BY Bounds DEF Positions, Pos, Nowhere

LEMMA PositionsFinite == IsFiniteSet(Positions)
<1>1. IsFiniteSet(0..MaxAttempts) /\ IsFiniteSet(0..MaxOutput + 3)
  BY Bounds, FS_Interval
<1> QED
  BY <1>1, FS_Product DEF Positions

\* Every set of naturals that is not empty has a least member.
LEMMA LeastNat ==
  ASSUME NEW T \in SUBSET Nat, T # {}
  PROVE  \E n \in T : \A m \in T : n <= m
<1>1. IsWellFoundedOn(OpToRel(<, Nat), Nat)
  BY NatLessThanWellFounded
<1>2. PICK x \in T : \A y \in T : ~ (<<y, x>> \in OpToRel(<, Nat))
  BY <1>1, WFMin
<1>3. ASSUME NEW y \in T PROVE x <= y
  <2>1. ~ (<<y, x>> \in OpToRel(<, Nat))
    BY <1>2
  <2> QED
    BY <2>1 DEF OpToRel
<1> QED
  BY <1>3

\* ... and one that is bounded has a greatest.
LEMMA GreatestNat ==
  ASSUME NEW b \in Nat, NEW T \in SUBSET (0..b), T # {}
  PROVE  \E n \in T : \A m \in T : m <= n
<1> DEFINE U == {n \in Nat : \A m \in T : m <= n}
<1>1. b \in U
  OBVIOUS
<1>2. PICK n \in U : \A m \in U : n <= m
  BY <1>1, LeastNat
<1>3. CASE n \in T
  BY <1>3
<1>4. CASE n \notin T
  <2>0. PICK x \in T : x \in 0..b
    OBVIOUS
  <2>1. n # 0
    <3>1. x <= n /\ x \in Nat
      BY <1>2, <2>0
    <3> QED
      BY <1>4, <3>1
  <2>2. n - 1 \in Nat
    BY <2>1
  <2>3. \A m \in T : m <= n /\ m # n
    BY <1>4
  <2>4. \A m \in T : m <= n - 1
    BY <2>3
  <2>5. n - 1 \in U
    BY <2>2, <2>4
  <2>6. n <= n - 1
    BY <1>2, <2>5
  <2> QED
    BY <2>6
<1> QED
  BY <1>3, <1>4

\* Latest is the last of a set of positions.
LEMMA LatestFacts ==
  ASSUME NEW S \in SUBSET Positions, S # {}
  PROVE  Latest(S) \in S /\ \A q \in S : ~Before(Latest(S), q)
<1> DEFINE A == {p[1] : p \in S}
<1>1. A \in SUBSET (0..MaxAttempts) /\ A # {}
  BY DEF Positions
<1>2. PICK a \in A : \A m \in A : m <= a
  BY <1>1, GreatestNat, Bounds
<1> DEFINE B == {p[2] : p \in {q \in S : q[1] = a}}
<1>3. B \in SUBSET (0..MaxOutput + 3) /\ B # {}
  BY DEF Positions
<1>4. MaxOutput + 3 \in Nat
  BY Bounds
<1>5. PICK b \in B : \A m \in B : m <= b
  BY <1>3, <1>4, GreatestNat
<1>6. PICK p \in S : p[1] = a /\ p[2] = b
  OBVIOUS
<1>7. ASSUME NEW q \in S PROVE ~Before(p, q)
  <2>1. q[1] \in A /\ q[1] <= a
    BY <1>2
  <2>2. q[1] = a => q[2] <= b
    BY <1>5
  <2>3. q[1] \in Nat /\ q[2] \in Nat /\ a \in Nat /\ b \in Nat
    BY <1>1, <1>3, <1>4, Bounds DEF Positions
  <2> QED
    BY <1>6, <2>1, <2>2, <2>3 DEF Before
<1> QED
  BY <1>7 DEF Latest

-----------------------------------------------------------------------------
(* Sorting by position *)

\* Events with positions, one at each
Placed(S) == /\ \A e \in S : e.at \in Positions
             /\ \A e \in S : \A f \in S : e.at = f.at => e = f

LEMMA PlacedFinite ==
  ASSUME NEW S, Placed(S)
  PROVE  IsFiniteSet(S)
<1> DEFINE f == [e \in S |-> e.at]
<1>1. f \in Injection(S, Positions)
  BY DEF Placed, Injection, IsInjective
<1> QED
  BY <1>1, FS_Injection, PositionsFinite

Rank(S, e) == Cardinality({f \in S : Before(f.at, e.at)})

LEMMA RankFacts ==
  ASSUME NEW S, Placed(S)
  PROVE  /\ Cardinality(S) \in Nat
         /\ \A e \in S : Rank(S, e) \in 0..(Cardinality(S) - 1)
         /\ \A e \in S : \A f \in S : Before(e.at, f.at) => Rank(S, e) < Rank(S, f)
<1>1. IsFiniteSet(S) /\ Cardinality(S) \in Nat
  BY PlacedFinite, FS_CardinalityType
<1>2. \A e \in S : e.at \in Pos
  BY PositionsPos DEF Placed
<1>3. ASSUME NEW e \in S PROVE Rank(S, e) \in 0..(Cardinality(S) - 1)
  <2> DEFINE P == {f \in S : Before(f.at, e.at)}
  <2>1. P \in SUBSET S /\ e \notin P
    BY <1>2, BeforeOrder
  <2>2. P # S
    BY <2>1
  <2>3. IsFiniteSet(P) /\ Cardinality(P) <= Cardinality(S) /\ Cardinality(P) # Cardinality(S)
    BY <1>1, <2>1, <2>2, FS_Subset
  <2>4. Cardinality(P) \in Nat
    BY <2>3, FS_CardinalityType
  <2> QED
    BY <1>1, <2>3, <2>4 DEF Rank
<1>4. ASSUME NEW e \in S, NEW f \in S, Before(e.at, f.at)
      PROVE  Rank(S, e) < Rank(S, f)
  <2> DEFINE P == {g \in S : Before(g.at, e.at)}
             Q == {g \in S : Before(g.at, f.at)}
  <2>1. P \in SUBSET Q
    BY <1>2, <1>4, BeforeOrder
  <2>2. e \in Q /\ e \notin P
    BY <1>2, <1>4, BeforeOrder
  <2>3. IsFiniteSet(Q)
    BY <1>1, FS_Subset
  <2>4. P # Q
    BY <2>2
  <2>5. IsFiniteSet(P) /\ Cardinality(P) <= Cardinality(Q) /\ Cardinality(P) # Cardinality(Q)
    BY <2>1, <2>3, <2>4, FS_Subset
  <2>6. Cardinality(P) \in Nat /\ Cardinality(Q) \in Nat
    BY <2>3, <2>5, FS_CardinalityType
  <2> QED
    BY <2>5, <2>6 DEF Rank
<1> QED
  BY <1>1, <1>3, <1>4

\* InOrder lists every event once, by position.
LEMMA InOrderFacts ==
  ASSUME NEW S, Placed(S)
  PROVE  /\ InOrder(S) \in Seq(S)
         /\ \A e \in S : \E i \in DOMAIN InOrder(S) : InOrder(S)[i] = e
         /\ \A i \in DOMAIN InOrder(S) : \A j \in DOMAIN InOrder(S) :
              i < j => Before(InOrder(S)[i].at, InOrder(S)[j].at)
<1> DEFINE n == Cardinality(S)
           r == [e \in S |-> Rank(S, e)]
<1>1. n \in Nat
  BY RankFacts
<1>2. \A e \in S : r[e] \in 0..(n - 1)
  BY RankFacts
<1>3. \A e \in S : \A f \in S : Before(e.at, f.at) => r[e] < r[f]
  BY RankFacts
<1>4. \A e \in S : e.at \in Pos
  BY PositionsPos DEF Placed
<1>5. \A e \in S : \A f \in S : r[e] = r[f] => e = f
  <2> SUFFICES ASSUME NEW e \in S, NEW f \in S, r[e] = r[f] PROVE e = f
    OBVIOUS
  <2>1. ~(r[e] < r[f]) /\ ~(r[f] < r[e])
    BY <1>1, <1>2
  <2>2. ~Before(e.at, f.at) /\ ~Before(f.at, e.at)
    BY <1>3, <2>1
  <2>3. e.at = f.at
    BY <1>4, <2>2, BeforeOrder
  <2> QED
    BY <2>3 DEF Placed
<1>6. IsFiniteSet(S)
  BY PlacedFinite
<1>7. IsFiniteSet(0..(n - 1)) /\ Cardinality(0..(n - 1)) = n
  BY <1>1, FS_Interval
<1>8. r \in Injection(S, 0..(n - 1))
  BY <1>2, <1>5 DEF Injection, IsInjective
<1>9. r \in Surjection(S, 0..(n - 1))
  BY <1>6, <1>7, <1>8, FS_Injection
<1>10. \A k \in 0..(n - 1) : \E e \in S : r[e] = k
  BY <1>9 DEF Surjection
<1> DEFINE o == InOrder(S)
<1>11. o = [i \in 1..n |-> CHOOSE e \in S : Rank(S, e) = i - 1]
  BY DEF InOrder, Rank
<1>12. ASSUME NEW i \in 1..n PROVE o[i] \in S /\ r[o[i]] = i - 1
  <2>1. i - 1 \in 0..(n - 1)
    BY <1>1
  <2>2. \E e \in S : Rank(S, e) = i - 1
    BY <1>10, <2>1
  <2>3. o[i] = CHOOSE e \in S : Rank(S, e) = i - 1
    BY <1>11
  <2> HIDE DEF o
  <2>4. o[i] \in S /\ Rank(S, o[i]) = i - 1
    BY <2>2, <2>3
  <2> QED
    BY <2>4
<1> HIDE DEF o, r
<1>13. o \in [1..n -> S]
  BY <1>11, <1>12
<1>14. o \in Seq(S) /\ DOMAIN o = 1..n
  BY <1>1, <1>13
<1>15. ASSUME NEW e \in S PROVE \E i \in 1..n : o[i] = e
  <2>1. r[e] + 1 \in 1..n /\ (r[e] + 1) - 1 = r[e]
    BY <1>1, <1>2
  <2>2. o[r[e] + 1] = e
    BY <1>5, <1>12, <2>1
  <2> QED
    BY <2>1, <2>2
<1>16. ASSUME NEW i \in 1..n, NEW j \in 1..n, i < j PROVE Before(o[i].at, o[j].at)
  <2>1. /\ o[i] \in S /\ o[j] \in S /\ r[o[i]] = i - 1 /\ r[o[j]] = j - 1
    BY <1>12
  <2>2. r[o[i]] # r[o[j]] /\ ~(r[o[j]] < r[o[i]])
    BY <1>1, <1>16, <2>1
  <2>3. ~Before(o[j].at, o[i].at)
    BY <1>3, <2>1, <2>2
  <2>4. o[i].at # o[j].at
    BY <2>1, <2>2 DEF Placed
  <2> QED
    BY <1>4, <2>1, <2>3, <2>4, BeforeOrder
<1> QED
  BY <1>14, <1>15, <1>16 DEF o
-----------------------------------------------------------------------------
(* The invariant: what is published and stored *)

\* The events of an attempt: outputs, then the final status, then Done
Shaped(kinds) ==
  /\ kinds \in Seq(Kinds)
  /\ \A i \in DOMAIN kinds :
       /\ kinds[i] = "output" => i <= MaxOutput
       /\ kinds[i] = "status" => i <= MaxOutput + 1
       /\ kinds[i] = "done" => i > 1 /\ kinds[i - 1] = "status"
       /\ \A j \in DOMAIN kinds :
            j < i => kinds[j] = "output" \/ (kinds[j] = "status" /\ kinds[i] = "done")

Outputs(kinds) == \A i \in DOMAIN kinds : kinds[i] = "output"
Complete(kinds) == \E i \in DOMAIN kinds : kinds[i] = "done"

ProducerType ==
  /\ row \in [status : {"queued", "running", "terminal"}, attempt : 1..MaxAttempts,
              structured : BOOLEAN]
  /\ sidecar \in {0, row.attempt}
  /\ log \in [1..MaxAttempts -> Seq(Kinds)]
  /\ daemon \in {"up", "down"} /\ bus \in {"none", "open", "gone"}
  /\ worker \in {"idle", "claimed", "running", "completed", "stored", "unstored",
                "published", "drains", "cancelled", "finalizing", "over"}
  /\ writes \in BOOLEAN
  /\ daemon = "down" => worker = "idle" /\ row.attempt < MaxAttempts
  /\ DOMAIN plan = {"run", "skips", "left"} /\ plan.skips \in SUBSET Nat

\* The log of an attempt begins as its bus does, and nothing is known of attempts
\* to come.
Stories ==
  /\ Shaped(published) /\ \A a \in 1..MaxAttempts : Shaped(log[a])
  /\ \A a \in 1..MaxAttempts : a > row.attempt => log[a] = <<>>
  /\ bus = "none" => published = <<>>
  /\ bus # "none" => /\ daemon = "up" /\ Len(Written) <= Len(published)
                     /\ \A i \in DOMAIN Written : Written[i] = published[i]

\* What each step of the worker finds
WorkerSees ==
  /\ worker \in {"idle", "claimed", "cancelled", "finalizing"} => bus = "none"
  /\ worker \in {"running", "completed", "stored", "unstored"} =>
       bus = "open" /\ Outputs(published) /\ Len(published) <= MaxOutput
  /\ worker \in {"published", "drains"} => bus = "open" /\ Complete(published)
  /\ worker = "over" => bus # "open" /\ (bus = "gone" => Complete(published))
  /\ daemon = "up" => (worker = "idle" <=> row.status = "queued")
  /\ worker \in {"claimed", "running", "completed", "unstored"} => row.status = "running"
  /\ worker \in {"stored", "published", "cancelled", "finalizing"} => row.status = "terminal"
  /\ row.status = "queued" \/ worker \in {"claimed", "cancelled", "finalizing"} => Written = <<>>
  /\ row.status = "queued" \/ worker \in {"claimed", "running", "cancelled", "finalizing"} =>
       sidecar = 0

Producer == ProducerType /\ Stories /\ WorkerSees

-----------------------------------------------------------------------------
(* The invariant: what has been delivered *)

\* Everything there is of an attempt: the bus has it all, the log what is written
Story(a) == IF a = row.attempt /\ bus # "none" THEN published ELSE log[a]
Events == Logged \cup EventsOf(row.attempt, published)

\* More may come in this attempt.
Unfinished ==
  row.status = "queued" \/ worker \in {"claimed", "cancelled", "finalizing"} \/ bus # "none"

\* No later event is put at or before this position.
Known(p) ==
  /\ p[1] <= row.attempt
  /\ Unfinished /\ p[1] = row.attempt => p[2] < Len(Story(row.attempt))

Ids(frames) == {i \in DOMAIN frames : frames[i].kind \in {"output", "status"} /\ frames[i].at # Nowhere}

\* What this subscription is to deliver, and after which position
Visible(c) ==
  {e \in Events : /\ e.kind # "done" /\ (e.kind = "status" \/ e.at[2] \notin c.skips)
                  /\ c.only = 0 \/ e.at[1] = c.only}
Base(c) == IF c.only = 0 THEN client.last ELSE Nowhere

Cursors == [only : 0..MaxAttempts, last : Positions, attempt : 0..MaxAttempts,
            next : 0..MaxOutput + 2, done : Positions, status : BOOLEAN, skips : SUBSET Nat]
Streams == [pc : {"offline", "subscribe", "replay", "wait", "lookup", "catchup", "live", "behind",
                  "gap", "end", "finish", "await", "closed", "lost"},
            cursor : Cursors, position : 0..NoPosition,
            held : [at : Positions, kind : Kinds], back : {"live", "finish"}, terminal : BOOLEAN]

CursorOwn(c) ==
  c \in Cursors /\ c.attempt = row.attempt /\ c.skips = plan.skips /\ c.only \in {0, row.attempt}

\* The frames sent are in order and are what is visible between base and cursor.
InStep(c, frames) ==
  /\ IF c.only = 0 THEN frames # <<>> => frames[1].kind # "restart"
     ELSE frames # <<>> /\ frames[1] = Event(c.only, 0, "restart")
  /\ \A i \in Ids(frames) : /\ frames[i] \in Visible(c)
                            /\ Before(Base(c), frames[i].at) /\ ~Before(c.last, frames[i].at)
  /\ \A i \in Ids(frames) : \A j \in Ids(frames) : i < j => Before(frames[i].at, frames[j].at)
  /\ \A e \in Visible(c) : Before(Base(c), e.at) /\ ~Before(c.last, e.at) =>
       \E i \in Ids(frames) : frames[i] = e
  /\ ~Before(c.last, Base(c)) /\ Known(c.last)

\* The end of the attempt that the cursor has seen was there.
EndSeen(c) ==
  /\ c.status => \E e \in Events : /\ e.at[1] = row.attempt /\ e.kind = "status"
                                   /\ ~Before(c.last, e.at)
  /\ c.done # Nowhere => \E e \in Events : /\ e.at[1] = row.attempt /\ e.kind = "done"
                                           /\ ~Before(c.last, <<row.attempt, e.at[2] - 1>>)

Told(c, frames) == CursorOwn(c) /\ InStep(c, frames) /\ EndSeen(c)

\* The attempts before this one have been delivered.
Older(c) ==
  c.only = 0 => \A e \in Logged : e.at[1] < row.attempt /\ e.kind # "done" => ~Before(c.last, e.at)

HasDone(frames) == \E i \in DOMAIN frames : frames[i].kind = "done"

StreamType ==
  /\ stream \in Streams /\ wire \in Seq(Frames)
  /\ client \in [last : Positions, status : BOOLEAN, done : BOOLEAN]

Delivering == stream.pc \notin {"offline", "lost", "subscribe", "replay"}

\* Where the subscription is
Subscribed ==
  /\ stream.pc = "offline" => wire = <<>>
  /\ stream.pc # "offline" => ~client.done
  /\ stream.pc \notin {"offline", "lost"} => daemon = "up"
  /\ stream.pc \in {"subscribe", "replay"} =>
       /\ wire = <<>> /\ stream.cursor.attempt = row.attempt
       /\ stream.terminal => row.status = "terminal"
  /\ Delivering => Told(stream.cursor, wire) /\ Older(stream.cursor)

\* What the end of a stream rests on
EndsTrue ==
  /\ \/ stream.pc \in {"end", "finish", "await"}
     \/ stream.pc = "gap" /\ stream.back = "finish"
     \/ HasDone(wire)
     => Projected.status = "terminal"
  /\ HasDone(wire) => stream.pc \in {"closed", "lost"}
  /\ stream.pc = "lost" /\ HasDone(wire) => ~stream.terminal
  /\ stream.pc = "closed" /\ HasDone(wire) /\ stream.terminal =>
       /\ \/ stream.cursor.done # Nowhere \/ stream.cursor.status
          \/ \E i \in DOMAIN wire : wire[i].kind = "status"
       /\ wire[Len(wire)].at # Nowhere => stream.cursor.done # Nowhere

\* What the client has, and what is on its way to it, is behind what may come.
Behind ==
  /\ ~client.done => Known(client.last)
  /\ ~client.done /\ bus # "none" =>
       \A i \in DOMAIN published :
         published[i] = "status" /\ ~Before(client.last, <<row.attempt, i - 1>>) => client.status
  /\ \A i \in Ids(wire) :
       /\ Known(wire[i].at)
       /\ bus # "none" /\ wire[i].at[1] = row.attempt =>
            wire[i].kind = published[wire[i].at[2] + 1]

Safe == Producer /\ StreamType /\ Subscribed /\ EndsTrue /\ Behind

-----------------------------------------------------------------------------
(* The story of an attempt *)

LEMMA ConcatFacts ==
  ASSUME NEW S, NEW s \in Seq(S), NEW t \in Seq(S)
  PROVE  /\ s \o t \in Seq(S) /\ Len(s \o t) = Len(s) + Len(t)
         /\ DOMAIN (s \o t) = 1..(Len(s) + Len(t))
         /\ \A i \in 1..(Len(s) + Len(t)) : (s \o t)[i] = IF i <= Len(s) THEN s[i] ELSE t[i - Len(s)]
  OBVIOUS

LEMMA KindsFacts == "output" \in Kinds /\ "status" \in Kinds /\ "done" \in Kinds
  BY DEF Kinds

LEMMA ShapedEmpty == Shaped(<<>>) /\ Outputs(<<>>) /\ ~Complete(<<>>) /\ Len(<<>>) = 0
  BY DEF Shaped, Outputs, Complete

LEMMA ShapedLength ==
  ASSUME NEW k, Shaped(k)
  PROVE  Len(k) \in 0..(MaxOutput + 2) /\ (Outputs(k) => Len(k) <= MaxOutput)
<1>1. k \in Seq(Kinds) /\ Len(k) \in Nat /\ DOMAIN k = 1..Len(k) /\ MaxOutput \in Nat
  BY Bounds DEF Shaped
<1>2. CASE Len(k) = 0
  BY <1>1, <1>2
<1>3. CASE Len(k) # 0
  <2>1. Len(k) \in DOMAIN k /\ k[Len(k)] \in Kinds
    BY <1>1, <1>3
  <2>2. k[Len(k)] \in {"output", "status", "done"}
    BY <2>1 DEF Kinds
  <2>3. CASE k[Len(k)] = "output"
    <3>1. Len(k) <= MaxOutput
      BY <2>1, <2>3 DEF Shaped
    <3> QED
      BY <1>1, <3>1
  <2>4. CASE k[Len(k)] = "status"
    <3>1. Len(k) <= MaxOutput + 1
      BY <2>1, <2>4 DEF Shaped
    <3>2. ~Outputs(k)
      BY <2>1, <2>4 DEF Outputs
    <3> QED
      BY <1>1, <3>1, <3>2
  <2>5. CASE k[Len(k)] = "done"
    <3>1. Len(k) > 1 /\ k[Len(k) - 1] = "status"
      BY <2>1, <2>5 DEF Shaped
    <3>2. Len(k) - 1 \in DOMAIN k
      BY <1>1, <3>1
    <3>3. Len(k) - 1 <= MaxOutput + 1
      BY <3>1, <3>2 DEF Shaped
    <3> QED
      BY <1>1, <2>1, <2>5, <3>3 DEF Outputs
  <2> QED
    BY <2>2, <2>3, <2>4, <2>5
<1> QED
  BY <1>2, <1>3

LEMMA ShapedOutput ==
  ASSUME NEW k, Shaped(k), Outputs(k), Len(k) < MaxOutput
  PROVE  /\ Shaped(Append(k, "output")) /\ Outputs(Append(k, "output"))
         /\ Len(Append(k, "output")) = Len(k) + 1
         /\ \A i \in DOMAIN k : Append(k, "output")[i] = k[i]
<1> DEFINE t == Append(k, "output")
<1>1. k \in Seq(Kinds) /\ Len(k) \in Nat /\ DOMAIN k = 1..Len(k) /\ MaxOutput \in Nat
  BY Bounds DEF Shaped
<1>2. /\ t \in Seq(Kinds) /\ Len(t) = Len(k) + 1 /\ DOMAIN t = 1..(Len(k) + 1)
      /\ \A i \in 1..Len(k) : t[i] = k[i]
      /\ t[Len(k) + 1] = "output"
  BY <1>1, KindsFacts
<1> HIDE DEF t
<1>3. \A i \in DOMAIN t : t[i] = "output" /\ i <= MaxOutput
  BY <1>1, <1>2 DEF Outputs
<1> QED
  BY <1>1, <1>2, <1>3 DEF Shaped, Outputs, t

LEMMA ShapedPair ==
  ASSUME NEW k, Shaped(k), Outputs(k)
  PROVE  /\ Shaped(k \o Pair) /\ Complete(k \o Pair) /\ Len(k \o Pair) = Len(k) + 2
         /\ \A i \in DOMAIN k : (k \o Pair)[i] = k[i]
         /\ (k \o Pair)[Len(k) + 1] = "status"
<1> DEFINE t == k \o Pair
<1>1. /\ k \in Seq(Kinds) /\ Len(k) \in Nat /\ DOMAIN k = 1..Len(k) /\ MaxOutput \in Nat
      /\ Len(k) <= MaxOutput
  BY Bounds, ShapedLength DEF Shaped
<1>2. Pair \in Seq(Kinds) /\ Len(Pair) = 2 /\ Pair[1] = "status" /\ Pair[2] = "done"
  BY KindsFacts DEF Pair
<1>3. /\ t \in Seq(Kinds) /\ Len(t) = Len(k) + 2 /\ DOMAIN t = 1..(Len(k) + 2)
      /\ \A i \in 1..Len(k) : t[i] = k[i]
      /\ t[Len(k) + 1] = "status" /\ t[Len(k) + 2] = "done"
  <2> HIDE DEF Pair
  <2>1. t \in Seq(Kinds) /\ Len(t) = Len(k) + 2 /\ DOMAIN t = 1..(Len(k) + 2)
    <3>1. t \in Seq(Kinds) /\ Len(t) = Len(k) + Len(Pair) /\ DOMAIN t = 1..(Len(k) + Len(Pair))
      BY <1>1, <1>2, ConcatFacts
    <3>2. Len(k) + Len(Pair) = Len(k) + 2
      BY <1>2
    <3> HIDE DEF t
    <3> QED
      BY <3>1, <3>2
  <2>2. \A i \in 1..(Len(k) + 2) : t[i] = IF i <= Len(k) THEN k[i] ELSE Pair[i - Len(k)]
    BY <1>1, <1>2, ConcatFacts
  <2>3. t[Len(k) + 1] = Pair[1] /\ t[Len(k) + 2] = Pair[2]
    <3>1. \A n \in Nat : /\ n + 1 \in 1..(n + 2) /\ n + 2 \in 1..(n + 2)
                         /\ ~(n + 1 <= n) /\ ~(n + 2 <= n)
                         /\ (n + 1) - n = 1 /\ (n + 2) - n = 2
      OBVIOUS
    <3> HIDE DEF t
    <3> QED
      BY <1>1, <2>2, <3>1
  <2> QED
    BY <1>1, <1>2, <2>1, <2>2, <2>3
<1> HIDE DEF t
<1>4. \A i \in DOMAIN t : \/ i \in DOMAIN k /\ t[i] = "output" /\ i <= MaxOutput
                          \/ i = Len(k) + 1 /\ t[i] = "status"
                          \/ i = Len(k) + 2 /\ t[i] = "done"
  BY <1>1, <1>3 DEF Outputs
<1>5. Shaped(t)
  BY <1>1, <1>3, <1>4 DEF Shaped
<1>6. Complete(t)
  <2>1. Len(k) + 2 \in DOMAIN t
    BY <1>1, <1>3
  <2> QED
    BY <1>3, <2>1 DEF Complete
<1> QED
  BY <1>1, <1>3, <1>5, <1>6 DEF t

LEMMA ShapedDone ==
  ASSUME NEW k, Shaped(k), (\E i \in DOMAIN k : k[i] = "status"), ~Complete(k)
  PROVE  Shaped(Append(k, "done"))
<1> DEFINE t == Append(k, "done")
<1>1. k \in Seq(Kinds) /\ Len(k) \in Nat /\ DOMAIN k = 1..Len(k) /\ MaxOutput \in Nat
  BY Bounds DEF Shaped
<1>2. /\ t \in Seq(Kinds) /\ Len(t) = Len(k) + 1 /\ DOMAIN t = 1..(Len(k) + 1)
      /\ \A i \in 1..Len(k) : t[i] = k[i]
      /\ t[Len(k) + 1] = "done"
  BY <1>1, KindsFacts
<1> HIDE DEF t
<1>3. PICK i \in DOMAIN k : k[i] = "status"
  OBVIOUS
<1>4. \A j \in DOMAIN k : k[j] # "done"
  BY DEF Complete
<1>5. i = Len(k)
  <2>1. SUFFICES ASSUME i # Len(k) PROVE FALSE
    OBVIOUS
  <2>2. Len(k) \in DOMAIN k /\ i < Len(k)
    BY <1>1, <2>1
  <2>3. k[Len(k)] = "done"
    BY <1>3, <2>2 DEF Shaped
  <2> QED
    BY <1>4, <2>2, <2>3
<1>6. \A j \in DOMAIN k : j < Len(k) => k[j] = "output"
  BY <1>1, <1>3, <1>4, <1>5 DEF Shaped
<1>7. Len(k) >= 1 /\ k[Len(k)] = "status"
  BY <1>1, <1>3, <1>5
<1>8. ASSUME NEW j \in DOMAIN t
      PROVE  /\ t[j] = "output" => j <= MaxOutput
             /\ t[j] = "status" => j <= MaxOutput + 1
             /\ t[j] = "done" => j > 1 /\ t[j - 1] = "status"
             /\ \A l \in DOMAIN t : l < j => t[l] = "output" \/ (t[l] = "status" /\ t[j] = "done")
  <2>1. CASE j \in DOMAIN k
    <3>1. t[j] = k[j] /\ (j > 1 => j - 1 \in DOMAIN k /\ t[j - 1] = k[j - 1])
      BY <1>1, <1>2, <2>1
    <3>2. \A l \in DOMAIN t : l < j => l \in DOMAIN k /\ t[l] = k[l]
      BY <1>1, <1>2, <2>1
    <3> QED
      BY <2>1, <3>1, <3>2 DEF Shaped
  <2>2. CASE j = Len(k) + 1
    <3>1. \A l \in DOMAIN t : l < j => l \in DOMAIN k /\ t[l] = k[l]
      BY <1>1, <1>2, <2>2
    <3>2. j > 1 /\ j - 1 = Len(k) /\ t[j - 1] = "status"
      BY <1>1, <1>2, <1>7, <2>2
    <3> QED
      BY <1>1, <1>2, <1>6, <1>7, <2>2, <3>1, <3>2
  <2> QED
    BY <1>1, <1>2, <2>1, <2>2
<1> QED
  BY <1>2, <1>8 DEF Shaped, t

\* append_terminal keeps the shape, and what is there.
LEMMA TerminatedFacts ==
  ASSUME NEW k, Shaped(k)
  PROVE  /\ Shaped(Terminated(k)) /\ Len(k) <= Len(Terminated(k))
         /\ \A i \in DOMAIN k : Terminated(k)[i] = k[i]
<1>1. k \in Seq(Kinds) /\ Len(k) \in Nat /\ DOMAIN k = 1..Len(k)
  BY DEF Shaped
<1>2. CASE \E i \in DOMAIN k : k[i] = "done"
  BY <1>1, <1>2 DEF Terminated
<1>3. CASE /\ \A i \in DOMAIN k : k[i] # "done"
           /\ \E i \in DOMAIN k : k[i] = "status"
  <2>1. Terminated(k) = Append(k, "done")
    BY <1>3 DEF Terminated
  <2>2. Shaped(Append(k, "done"))
    BY <1>3, ShapedDone DEF Complete
  <2>3. Len(Append(k, "done")) = Len(k) + 1 /\ \A i \in DOMAIN k : Append(k, "done")[i] = k[i]
    BY <1>1
  <2> QED
    BY <1>1, <2>1, <2>2, <2>3
<1>4. CASE \A i \in DOMAIN k : k[i] # "done" /\ k[i] # "status"
  <2>1. Outputs(k)
    BY <1>1, <1>4 DEF Outputs, Kinds
  <2>2. Terminated(k) = k \o Pair
    BY <1>4 DEF Terminated
  <2> QED
    BY <1>1, <2>1, <2>2, ShapedPair
<1> QED
  BY <1>2, <1>3, <1>4

\* One more event of the bus in the log
LEMMA ShapedPrefix ==
  ASSUME NEW k, NEW p, Shaped(k), Shaped(p), Len(k) < Len(p),
         \A i \in DOMAIN k : k[i] = p[i]
  PROVE  LET t == Append(k, p[Len(k) + 1])
         IN  /\ Shaped(t) /\ Len(t) = Len(k) + 1
             /\ \A i \in DOMAIN t : t[i] = p[i]
             /\ \A i \in DOMAIN k : t[i] = k[i]
<1> DEFINE t == Append(k, p[Len(k) + 1])
<1>1. /\ k \in Seq(Kinds) /\ Len(k) \in Nat /\ DOMAIN k = 1..Len(k)
      /\ p \in Seq(Kinds) /\ Len(p) \in Nat /\ DOMAIN p = 1..Len(p)
  BY DEF Shaped
<1>2. Len(k) + 1 \in DOMAIN p /\ p[Len(k) + 1] \in Kinds
  BY <1>1
<1>3. /\ t \in Seq(Kinds) /\ Len(t) = Len(k) + 1 /\ DOMAIN t = 1..(Len(k) + 1)
      /\ \A i \in 1..Len(k) : t[i] = k[i]
      /\ t[Len(k) + 1] = p[Len(k) + 1]
  BY <1>1, <1>2
<1> HIDE DEF t
<1>4. \A i \in DOMAIN t : i \in DOMAIN p /\ t[i] = p[i]
  BY <1>1, <1>3
<1>5. \A i \in DOMAIN t : i > 1 => i - 1 \in DOMAIN t
  BY <1>3
<1>6. Shaped(t)
  BY <1>3, <1>4, <1>5 DEF Shaped
<1> QED
  BY <1>1, <1>3, <1>4, <1>6 DEF t

-----------------------------------------------------------------------------
(* The worker, the log, a crash and a restart *)

\* What a step does to the plan
PlanKept == DOMAIN plan' = DOMAIN plan /\ plan'.skips = plan.skips /\ plan'.run = plan.run

LEMMA SpendKeeps ==
  ASSUME DOMAIN plan = {"run", "skips", "left"}
  PROVE  /\ \A kind : Spend(kind) => PlanKept
         /\ UNCHANGED plan => PlanKept
  BY DEF Spend, PlanKept

LEMMA ProducerSame ==
  ASSUME Producer, UNCHANGED <<command, execution>>, PlanKept
  PROVE  Producer'
  BY DEF Producer, ProducerType, Stories, WorkerSees, command, execution, PlanKept, Written

LEMMA RowFacts ==
  ASSUME Producer
  PROVE  /\ row.attempt \in 1..MaxAttempts /\ row.attempt \in Nat
         /\ Written = log[row.attempt] /\ Written \in Seq(Kinds) /\ Shaped(Written)
         /\ Len(Written) \in Nat /\ DOMAIN Written = 1..Len(Written)
         /\ published \in Seq(Kinds) /\ Len(published) \in Nat /\ DOMAIN published = 1..Len(published)
<1>1. row.attempt \in 1..MaxAttempts
  BY DEF Producer, ProducerType
<1>2. Shaped(log[row.attempt]) /\ Shaped(published)
  BY <1>1 DEF Producer, Stories
<1>3. \A k : Shaped(k) => k \in Seq(Kinds) /\ Len(k) \in Nat /\ DOMAIN k = 1..Len(k)
  BY DEF Shaped
<1> QED
  BY <1>1, <1>2, <1>3, Bounds DEF Written

\* Steps that neither publish nor write an event
LEMMA QuietSafe ==
  ASSUME Producer, Claim \/ WriteSidecar \/ WriteRow \/ RemoveSidecar \/ CancelQueued \/ PersistResult
  PROVE  Producer' /\ PlanKept
<1> USE DEF Producer, ProducerType, Stories, WorkerSees, Written, PlanKept
<1>0. PlanKept
  BY SpendKeeps DEF Claim, WriteSidecar, WriteRow, RemoveSidecar, CancelQueued, PersistResult
<1>1. CASE Claim
  BY <1>0, <1>1 DEF Claim
<1>2. CASE WriteSidecar
  BY <1>0, <1>2 DEF WriteSidecar
<1>3. CASE WriteRow
  BY <1>0, <1>3 DEF WriteRow
<1>4. CASE RemoveSidecar
  BY <1>0, <1>4 DEF RemoveSidecar
<1>5. CASE CancelQueued
  BY <1>0, <1>5 DEF CancelQueued
<1>6. CASE PersistResult
  BY <1>0, <1>6 DEF PersistResult
<1> QED
  BY <1>0, <1>1, <1>2, <1>3, <1>4, <1>5, <1>6

LEMMA OpenBusSafe == ASSUME Producer, OpenBus PROVE Producer' /\ PlanKept
<1> USE DEF Producer, ProducerType, Stories, WorkerSees, Written, command
<1>1. PlanKept
  BY SpendKeeps DEF OpenBus
<1>2. published = <<>> /\ Written = <<>>
  BY DEF OpenBus
<1>3. writes' \in BOOLEAN
  BY Zenon DEF OpenBus
<1>4. ProducerType'
  BY <1>1, <1>3 DEF OpenBus, PlanKept
<1>5. Stories'
  BY <1>2 DEF OpenBus
<1>6. WorkerSees'
  BY <1>2, ShapedEmpty, Bounds DEF OpenBus
<1> QED
  BY <1>1, <1>4, <1>5, <1>6

LEMMA EmitSafe == ASSUME Producer, Emit PROVE Producer' /\ PlanKept
<1> USE DEF Producer, ProducerType, Stories, WorkerSees, Written, command
<1>1. PlanKept
  BY SpendKeeps DEF Emit
<1>2. Shaped(published) /\ Outputs(published) /\ Len(published) < MaxOutput
  BY DEF Emit
<1> DEFINE t == Append(published, "output")
<1>3. /\ Shaped(t) /\ Outputs(t) /\ Len(t) = Len(published) + 1
      /\ \A i \in DOMAIN published : t[i] = published[i]
  BY <1>2, ShapedOutput
<1> HIDE DEF t
<1>4. published' = t
  BY DEF Emit, t
<1>5. Len(published) \in Nat /\ DOMAIN published = 1..Len(published)
  BY RowFacts
<1>6. DOMAIN Written \subseteq DOMAIN published
  BY <1>5, RowFacts DEF Emit
<1>7. Len(t) <= MaxOutput /\ Len(Written) <= Len(t)
  BY <1>2, <1>3, <1>5, RowFacts, Bounds DEF Emit
<1>8. ProducerType'
  BY <1>1 DEF Emit, PlanKept
<1>9. Stories'
  <2>1. \A i \in DOMAIN Written : Written[i] = t[i]
    BY <1>3, <1>6 DEF Emit
  <2> QED
    BY <1>3, <1>4, <1>7, <2>1 DEF Emit
<1>10. WorkerSees'
  BY <1>3, <1>4, <1>7 DEF Emit
<1> QED
  BY <1>1, <1>8, <1>9, <1>10

LEMMA FinishSafe == ASSUME Producer, Finish PROVE Producer' /\ PlanKept
<1> USE DEF Producer, ProducerType, Stories, WorkerSees, Written, command
<1>1. PlanKept
  BY SpendKeeps DEF Finish
<1> DEFINE t == published \o Pair
<1>2. /\ Shaped(t) /\ Complete(t) /\ Len(t) = Len(published) + 2
      /\ \A i \in DOMAIN published : t[i] = published[i]
  BY ShapedPair DEF Finish
<1> HIDE DEF t
<1>3. published' = t
  BY DEF Finish, t
<1>4. Len(published) \in Nat /\ DOMAIN published = 1..Len(published)
  BY RowFacts
<1>5. DOMAIN Written \subseteq DOMAIN published
  BY <1>4, RowFacts DEF Finish
<1> QED
  BY <1>1, <1>2, <1>3, <1>4, <1>5, RowFacts DEF Finish, PlanKept

LEMMA DropBusSafe == ASSUME Producer, DropBus PROVE Producer' /\ PlanKept
<1>1. PlanKept
  BY SpendKeeps DEF DropBus, Producer, ProducerType
<1> QED
  BY <1>1 DEF DropBus, Producer, ProducerType, Stories, WorkerSees, Written, command, PlanKept

LEMMA WriteEventSafe == ASSUME Producer, WriteEvent PROVE Producer' /\ PlanKept
<1> USE DEF Producer, ProducerType, Stories, WorkerSees
<1>1. PlanKept
  BY SpendKeeps DEF WriteEvent
<1> DEFINE t == Append(Written, published[Len(Written) + 1])
<1>2. /\ bus # "none" /\ Len(Written) < Len(published)
      /\ \A i \in DOMAIN Written : Written[i] = published[i]
  BY DEF WriteEvent
<1>3. /\ Shaped(t) /\ Len(t) = Len(Written) + 1
      /\ \A i \in DOMAIN t : t[i] = published[i]
  <2>1. Shaped(Written) /\ Shaped(published)
    BY RowFacts
  <2> HIDE DEF Written, Producer, ProducerType, Stories, WorkerSees
  <2> QED
    BY <1>2, <2>1, ShapedPrefix
<1>4. log' = [log EXCEPT ![row.attempt] = t]
  BY DEF WriteEvent, Written
<1> HIDE DEF t
<1>5. t \in Seq(Kinds)
  BY <1>3 DEF Shaped
<1>6. log' \in [1..MaxAttempts -> Seq(Kinds)] /\ Written' = t
  BY <1>4, <1>5, RowFacts DEF WriteEvent, Written
<1>7. \A a \in 1..MaxAttempts : log'[a] = IF a = row.attempt THEN t ELSE log[a]
  BY <1>4
<1>8. Len(t) <= Len(published)
  BY <1>2, <1>3, RowFacts
<1>9. ProducerType'
  BY <1>1, <1>6 DEF WriteEvent, execution, PlanKept
<1>10. Stories'
  BY <1>2, <1>3, <1>6, <1>7, <1>8 DEF WriteEvent, execution
<1>11. WorkerSees'
  BY <1>2, <1>6 DEF WriteEvent, execution
<1> QED
  BY <1>1, <1>9, <1>10, <1>11

\* The pair is appended to the log of an attempt without a bus.
LEMMA AppendTerminalFacts ==
  ASSUME Producer, AppendTerminal
  PROVE  /\ log' \in [1..MaxAttempts -> Seq(Kinds)]
         /\ \A a \in 1..MaxAttempts : Shaped(log'[a]) /\ (a # row.attempt => log'[a] = log[a])
         /\ log'[row.attempt] = Terminated(Written)
<1>1. Shaped(Terminated(Written))
  BY RowFacts, TerminatedFacts
<1>2. Terminated(Written) \in Seq(Kinds)
  BY <1>1 DEF Shaped
<1>3. log \in [1..MaxAttempts -> Seq(Kinds)] /\ \A a \in 1..MaxAttempts : Shaped(log[a])
  BY DEF Producer, ProducerType, Stories
<1>4. log' = [log EXCEPT ![row.attempt] = Terminated(Written)]
  BY DEF AppendTerminal, Written
<1> QED
  BY <1>1, <1>2, <1>3, <1>4, RowFacts

LEMMA FinalizeSafe == ASSUME Producer, FinalizeUnowned PROVE Producer' /\ PlanKept
<1> USE DEF Producer, ProducerType, Stories, WorkerSees
<1>1. PlanKept
  BY SpendKeeps DEF FinalizeUnowned
<1>2. AppendTerminal
  BY DEF FinalizeUnowned
<1> QED
  BY <1>1, <1>2, AppendTerminalFacts, RowFacts DEF FinalizeUnowned, PlanKept

LEMMA CrashSafe == ASSUME Producer, Crash PROVE Producer' /\ PlanKept
<1>1. PlanKept
  BY SpendKeeps DEF Crash, Producer, ProducerType
<1> QED
  BY <1>1, ShapedEmpty DEF Crash, command, Producer, ProducerType, Stories, WorkerSees, Written, PlanKept

LEMMA BootSafe == ASSUME Producer, Boot PROVE Producer' /\ PlanKept
<1> USE DEF Producer, ProducerType, Stories, WorkerSees
<1>1. PlanKept
  BY SpendKeeps DEF Boot
<1>2. bus = "none" /\ bus' = "none" /\ published' = <<>> /\ published = <<>>
  BY DEF Boot
<1>3. ASSUME AppendTerminal, row' = [row EXCEPT !.status = "terminal", !.structured = TRUE]
      PROVE  Producer'
  <2>1. row'.attempt = row.attempt /\ row'.status = "terminal" /\ worker' = "over"
    BY <1>3 DEF Boot
  <2>2. ProducerType'
    BY <1>1, <1>3, <2>1, AppendTerminalFacts DEF Boot, PlanKept
  <2>3. Stories'
    BY <1>2, <1>3, <2>1, AppendTerminalFacts DEF Boot
  <2>4. WorkerSees'
    BY <1>2, <2>1 DEF Boot
  <2> QED
    BY <2>2, <2>3, <2>4
<1>4. CASE row.status = "running" /\ sidecar # row.attempt
  <2>1. /\ row' = [row EXCEPT !.status = "queued", !.attempt = @ + 1] /\ log' = log
        /\ row.attempt < MaxAttempts
    BY <1>4 DEF Boot
  <2>2. row'.attempt \in 1..MaxAttempts /\ row'.attempt > row.attempt
    BY <2>1, RowFacts, Bounds
  <2>3. Written' = <<>>
    BY <2>1, <2>2 DEF Written
  <2>4. \A a \in 1..MaxAttempts : a > row'.attempt => a > row.attempt
    BY <2>2, RowFacts
  <2> QED
    BY <1>1, <1>2, <1>4, <2>1, <2>2, <2>3, <2>4, RowFacts DEF Boot, PlanKept
<1>5. CASE row.status = "terminal" /\ AppendTerminal /\ row' = [row EXCEPT !.structured = TRUE]
  <2>1. row' = [row EXCEPT !.status = "terminal", !.structured = TRUE]
    BY <1>5
  <2> QED
    BY <1>1, <1>3, <1>5, <2>1
<1>6. CASE row.status \in {"queued", "terminal"} /\ UNCHANGED <<row, log>>
  BY <1>1, <1>2, <1>6 DEF Boot, PlanKept, Written
<1> QED
  BY <1>1, <1>3, <1>4, <1>5, <1>6 DEF Boot

-----------------------------------------------------------------------------
(* What is there of an attempt only grows *)

\* Every event has a position, and each position one event.
EventsAre ==
  /\ \A e : e \in Logged <=>
       \E a \in 1..MaxAttempts : \E i \in DOMAIN log[a] : e = Event(a, i - 1, log[a][i])
  /\ \A e : e \in Events <=>
       \E a \in 1..MaxAttempts : \E i \in DOMAIN Story(a) : e = Event(a, i - 1, Story(a)[i])
  /\ Logged \subseteq Events
  /\ \A a \in 1..MaxAttempts :
       /\ Shaped(Story(a)) /\ Story(a) \in Seq(Kinds)
       /\ Len(Story(a)) \in 0..(MaxOutput + 2) /\ DOMAIN Story(a) = 1..Len(Story(a))
  /\ \A a \in 1..MaxAttempts : \A i \in DOMAIN log[a] : i \in DOMAIN Story(a) /\ log[a][i] = Story(a)[i]

LEMMA StoryEvents == Producer => EventsAre
<1> SUFFICES ASSUME Producer PROVE EventsAre
  OBVIOUS
<1>1. log \in [1..MaxAttempts -> Seq(Kinds)] /\ \A a \in 1..MaxAttempts : Shaped(log[a])
  BY DEF Producer, ProducerType, Stories
<1>2. ASSUME NEW e
      PROVE  e \in Logged <=>
               \E a \in 1..MaxAttempts : \E i \in DOMAIN log[a] : e = Event(a, i - 1, log[a][i])
  <2>1. e \in Logged <=> \E a \in 1..MaxAttempts : e \in EventsOf(a, log[a])
    <3>1. DOMAIN log = 1..MaxAttempts
      BY <1>1
    <3> HIDE DEF EventsOf
    <3> QED
      BY <3>1 DEF Logged
  <2>2. ASSUME NEW a \in 1..MaxAttempts
        PROVE  e \in EventsOf(a, log[a]) <=>
                 \E i \in DOMAIN log[a] : e = Event(a, i - 1, log[a][i])
    BY DEF EventsOf
  <2> QED
    BY <2>1, <2>2
<1>3. ASSUME NEW e
      PROVE  e \in EventsOf(row.attempt, published) <=>
               \E i \in DOMAIN published : e = Event(row.attempt, i - 1, published[i])
  BY DEF EventsOf
<1>4. \A a \in 1..MaxAttempts : Shaped(Story(a)) /\ Story(a) \in Seq(Kinds)
  <2>1. Shaped(published) /\ published \in Seq(Kinds)
    BY RowFacts DEF Producer, Stories
  <2>2. \A a \in 1..MaxAttempts : log[a] \in Seq(Kinds) /\ Shaped(log[a])
    BY <1>1
  <2> QED
    BY ONLY <2>1, <2>2 DEF Story
<1>5. \A a \in 1..MaxAttempts :
        Len(Story(a)) \in 0..(MaxOutput + 2) /\ DOMAIN Story(a) = 1..Len(Story(a))
  BY <1>4, ShapedLength
<1>6. ASSUME NEW a \in 1..MaxAttempts, NEW i \in DOMAIN log[a]
      PROVE  i \in DOMAIN Story(a) /\ log[a][i] = Story(a)[i]
  <2>1. CASE a = row.attempt /\ bus # "none"
    <3>1. i \in DOMAIN Written /\ Written[i] = published[i] /\ Len(Written) <= Len(published)
      BY <2>1 DEF Producer, Stories, Written
    <3>2. i \in DOMAIN published
      BY <3>1, RowFacts
    <3> QED
      BY <2>1, <3>1, <3>2 DEF Story, Written
  <2>2. CASE ~(a = row.attempt /\ bus # "none")
    BY <2>2 DEF Story
  <2> QED
    BY <2>1, <2>2
<1>7. ASSUME NEW e
      PROVE  e \in Events <=>
               \E a \in 1..MaxAttempts : \E i \in DOMAIN Story(a) : e = Event(a, i - 1, Story(a)[i])
  <2>1. ASSUME e \in Logged
        PROVE \E a \in 1..MaxAttempts : \E i \in DOMAIN Story(a) : e = Event(a, i - 1, Story(a)[i])
    <3>1. PICK a \in 1..MaxAttempts : \E i \in DOMAIN log[a] : e = Event(a, i - 1, log[a][i])
      BY <1>2, <2>1
    <3>2. PICK i \in DOMAIN log[a] : e = Event(a, i - 1, log[a][i])
      BY <3>1
    <3> QED
      BY <1>6, <3>2
  <2>2. ASSUME e \in EventsOf(row.attempt, published)
        PROVE \E a \in 1..MaxAttempts : \E i \in DOMAIN Story(a) : e = Event(a, i - 1, Story(a)[i])
    <3>1. PICK i \in DOMAIN published : e = Event(row.attempt, i - 1, published[i])
      BY <1>3, <2>2
    <3>2. bus # "none"
      BY <3>1, ShapedEmpty DEF Producer, Stories
    <3>3. Story(row.attempt) = published
      BY <3>2 DEF Story
    <3> QED
      BY <3>1, <3>3, RowFacts
  <2>3. ASSUME NEW a \in 1..MaxAttempts, NEW i \in DOMAIN Story(a), e = Event(a, i - 1, Story(a)[i])
        PROVE  e \in Events
    <3>1. CASE a = row.attempt /\ bus # "none"
      BY <1>3, <2>3, <3>1 DEF Story, Events
    <3>2. CASE ~(a = row.attempt /\ bus # "none")
      <4>1. Story(a) = log[a]
        BY <3>2 DEF Story
      <4> QED
        BY <1>2, <2>3, <4>1 DEF Events
    <3> QED
      BY <3>1, <3>2
  <2> QED
    BY <2>1, <2>2, <2>3 DEF Events
<1>8. Logged \subseteq Events
  BY DEF Events
<1> QED
  BY <1>2, <1>4, <1>5, <1>6, <1>7, <1>8 DEF EventsAre

LEMMA StoryEventsNext == Producer' => EventsAre'
  BY StoryEvents, PTL

LEMMA EventFacts ==
  ASSUME Producer
  PROVE  /\ \A e \in Events :
              /\ e.at \in Positions /\ e.at \in Pos /\ e.kind \in Kinds /\ e = [at |-> e.at, kind |-> e.kind]
              /\ e.at[1] \in 1..MaxAttempts /\ e.at[1] <= row.attempt /\ e.at # Nowhere
              /\ e.at[2] + 1 \in DOMAIN Story(e.at[1]) /\ e.kind = Story(e.at[1])[e.at[2] + 1]
              /\ e.at[2] < Len(Story(e.at[1]))
         /\ \A e \in Events : \A f \in Events : e.at = f.at => e = f
         /\ \A a \in 1..MaxAttempts : \A i \in DOMAIN Story(a) : Event(a, i - 1, Story(a)[i]) \in Events
<1>1. EventsAre
  BY StoryEvents
<1>2. ASSUME NEW e \in Events
      PROVE  /\ e.at \in Positions /\ e.at \in Pos /\ e.kind \in Kinds /\ e = [at |-> e.at, kind |-> e.kind]
             /\ e.at[1] \in 1..MaxAttempts /\ e.at[1] <= row.attempt /\ e.at # Nowhere
             /\ e.at[2] + 1 \in DOMAIN Story(e.at[1]) /\ e.kind = Story(e.at[1])[e.at[2] + 1]
             /\ e.at[2] < Len(Story(e.at[1]))
  <2>1. PICK a \in 1..MaxAttempts : \E i \in DOMAIN Story(a) : e = Event(a, i - 1, Story(a)[i])
    BY <1>1 DEF EventsAre
  <2>2. PICK i \in DOMAIN Story(a) : e = Event(a, i - 1, Story(a)[i])
    BY <2>1
  <2>3. /\ Story(a) \in Seq(Kinds) /\ Len(Story(a)) \in 0..(MaxOutput + 2)
        /\ DOMAIN Story(a) = 1..Len(Story(a))
    BY <1>1 DEF EventsAre
  <2>4. /\ i \in Nat /\ i >= 1 /\ i <= Len(Story(a)) /\ i <= MaxOutput + 2
        /\ i - 1 \in 0..(MaxOutput + 3) /\ (i - 1) + 1 = i /\ i - 1 < Len(Story(a))
    BY <2>3, Bounds
  <2>5. e.at = <<a, i - 1>> /\ e.kind = Story(a)[i] /\ e.at[1] = a /\ e.at[2] = i - 1
    BY <2>2 DEF Event
  <2>6. Story(a)[i] \in Kinds
    BY <2>3
  <2>7. a <= row.attempt
    <3>1. SUFFICES ASSUME a > row.attempt PROVE FALSE
      BY RowFacts
    <3>2. Story(a) = log[a] /\ log[a] = <<>>
      BY <3>1, RowFacts DEF Producer, Stories, Story
    <3> QED
      BY <3>2, ShapedEmpty, <2>3
  <2>8. e.at \in Positions
    BY <2>4, <2>5, Bounds DEF Positions
  <2>9. e.at # Nowhere
    BY <2>5 DEF Nowhere
  <2>10. e = [at |-> e.at, kind |-> e.kind]
    BY <2>2 DEF Event
  <2> HIDE DEF Story
  <2> QED
    BY <2>4, <2>5, <2>6, <2>7, <2>8, <2>9, <2>10, PositionsPos
<1>3. ASSUME NEW e \in Events, NEW f \in Events, e.at = f.at PROVE e = f
  BY <1>2, <1>3
<1>4. ASSUME NEW a \in 1..MaxAttempts, NEW i \in DOMAIN Story(a)
      PROVE  Event(a, i - 1, Story(a)[i]) \in Events
  BY <1>1 DEF EventsAre
<1> QED
  BY <1>2, <1>3, <1>4

EventsPlaced ==
  /\ \A e \in Events : e.at \in Positions /\ e.at \in Pos /\ e.at[1] <= row.attempt
  /\ \A e \in Events : \A f \in Events : e.at = f.at => e = f

LEMMA EventFactsNext == Producer' => EventsPlaced'
<1>1. Producer => EventsPlaced
  BY EventFacts DEF EventsPlaced
<1> QED
  BY <1>1, PTL

\* Done has the final status before it.
LEMMA DoneAfterStatus ==
  ASSUME Producer, NEW e \in Events, e.kind = "done"
  PROVE  /\ <<e.at[1], e.at[2] - 1>> \in Pos
         /\ e.at[2] - 1 < Len(Story(e.at[1])) /\ Event(e.at[1], e.at[2] - 1, "status") \in Events
<1> DEFINE a == e.at[1]
           i == e.at[2] + 1
<1>1. /\ e.at \in Pos /\ a \in 1..MaxAttempts /\ i \in DOMAIN Story(a)
      /\ Story(a)[i] = "done" /\ e.at[2] < Len(Story(a))
  BY EventFacts
<1>2. Shaped(Story(a)) /\ Len(Story(a)) \in Nat /\ DOMAIN Story(a) = 1..Len(Story(a))
  BY <1>1, StoryEvents DEF EventsAre
<1>3. e.at[1] \in Nat /\ e.at[2] \in Nat
  BY <1>1 DEF Pos
<1> HIDE DEF Story
<1>4. i > 1 /\ Story(a)[i - 1] = "status"
  BY <1>1, <1>2 DEF Shaped
<1>5. i - 1 \in DOMAIN Story(a) /\ (i - 1) - 1 = e.at[2] - 1 /\ e.at[2] - 1 \in Nat
  BY <1>1, <1>2, <1>3, <1>4
<1>6. Event(a, (i - 1) - 1, Story(a)[i - 1]) \in Events
  BY <1>1, <1>5, EventFacts
<1>7. e.at[2] - 1 < Len(Story(a))
  BY <1>1, <1>2, <1>3
<1> QED
  BY <1>3, <1>4, <1>5, <1>6, <1>7 DEF Pos

-----------------------------------------------------------------------------
(* A step of the daemon between two crashes *)

Begins(s, t) == Len(s) <= Len(t) /\ \A i \in DOMAIN s : t[i] = s[i]

\* Events are added at the end of the current attempt, while it is unfinished.
Grows ==
  /\ row'.attempt = row.attempt /\ daemon' = daemon /\ PlanKept
  /\ Events \subseteq Events' /\ Logged \subseteq Logged'
  /\ \A e \in Events' : \/ e \in Events
                        \/ Unfinished /\ e.at[1] = row.attempt /\ e.at[2] >= Len(Story(row.attempt))
  /\ \A e \in Logged' : e \in Logged \/ e.at[1] = row.attempt
  /\ Begins(Story(row.attempt), Story(row.attempt)')
  /\ Unfinished' => Unfinished
  /\ bus # "none" => bus' # "none"
  /\ row.status = "terminal" => row'.status = "terminal"
  /\ Projected.status = "terminal" => Projected'.status = "terminal"

LEMMA GrowSets ==
  ASSUME Producer, Producer', row'.attempt = row.attempt,
         \A a \in 1..MaxAttempts : a # row.attempt => log'[a] = log[a],
         Begins(Written, Written'), Begins(Story(row.attempt), Story(row.attempt)'),
         Unfinished \/ Story(row.attempt)' = Story(row.attempt)
  PROVE  /\ Events \subseteq Events' /\ Logged \subseteq Logged'
         /\ \A e \in Events' :
              \/ e \in Events
              \/ Unfinished /\ e.at[1] = row.attempt /\ e.at[2] >= Len(Story(row.attempt))
         /\ \A e \in Logged' : e \in Logged \/ e.at[1] = row.attempt
<1>1. EventsAre /\ EventsAre'
  BY StoryEvents, StoryEventsNext
<1>2. \A a \in 1..MaxAttempts : a # row.attempt => Story(a) = log[a] /\ Story(a)' = log'[a]
  BY DEF Story
<1>3. \A a \in 1..MaxAttempts :
        /\ DOMAIN Story(a) = 1..Len(Story(a)) /\ Len(Story(a)) \in Nat
        /\ DOMAIN Story(a)' = 1..Len(Story(a)') /\ Len(Story(a)') \in Nat
  BY <1>1 DEF EventsAre
<1>4. ASSUME NEW a \in 1..MaxAttempts, NEW i \in DOMAIN Story(a)
      PROVE  i \in DOMAIN Story(a)' /\ Story(a)'[i] = Story(a)[i]
  <2>1. CASE a = row.attempt
    BY <1>3, <2>1 DEF Begins
  <2>2. CASE a # row.attempt
    BY <1>2, <2>2
  <2> QED
    BY <2>1, <2>2
<1>5. ASSUME NEW a \in 1..MaxAttempts, NEW i \in DOMAIN log[a]
      PROVE  i \in DOMAIN log'[a] /\ log'[a][i] = log[a][i]
  <2>1. CASE a = row.attempt
    <3>1. /\ DOMAIN log[a] = 1..Len(log[a]) /\ Len(log[a]) \in Nat
          /\ DOMAIN log'[a] = 1..Len(log'[a]) /\ Len(log'[a]) \in Nat
      BY DEF Producer, Stories, Shaped
    <3> QED
      BY <2>1, <3>1 DEF Begins, Written
  <2>2. CASE a # row.attempt
    BY <2>2
  <2> QED
    BY <2>1, <2>2
<1> HIDE DEF Story
<1>6. ASSUME NEW e \in Events PROVE e \in Events'
  <2>1. PICK a \in 1..MaxAttempts : \E i \in DOMAIN Story(a) : e = Event(a, i - 1, Story(a)[i])
    BY <1>1 DEF EventsAre
  <2>2. PICK i \in DOMAIN Story(a) : e = Event(a, i - 1, Story(a)[i])
    BY <2>1
  <2>3. i \in DOMAIN Story(a)' /\ e = Event(a, i - 1, Story(a)'[i])
    BY <1>4, <2>2
  <2> QED
    BY <1>1, <2>3 DEF EventsAre
<1>7. ASSUME NEW e \in Logged PROVE e \in Logged'
  <2>1. PICK a \in 1..MaxAttempts : \E i \in DOMAIN log[a] : e = Event(a, i - 1, log[a][i])
    BY <1>1 DEF EventsAre
  <2>2. PICK i \in DOMAIN log[a] : e = Event(a, i - 1, log[a][i])
    BY <2>1
  <2>3. i \in DOMAIN log'[a] /\ e = Event(a, i - 1, log'[a][i])
    BY <1>5, <2>2
  <2> QED
    BY <1>1, <2>3 DEF EventsAre
<1>8. ASSUME NEW e \in Events', e \notin Events
      PROVE  Unfinished /\ e.at[1] = row.attempt /\ e.at[2] >= Len(Story(row.attempt))
  <2>1. PICK a \in 1..MaxAttempts : \E i \in DOMAIN Story(a)' : e = Event(a, i - 1, Story(a)'[i])
    BY <1>1 DEF EventsAre
  <2>2. PICK i \in DOMAIN Story(a)' : e = Event(a, i - 1, Story(a)'[i])
    BY <2>1
  <2>3. i \notin DOMAIN Story(a)
    <3>1. SUFFICES ASSUME i \in DOMAIN Story(a) PROVE FALSE
      OBVIOUS
    <3>2. e = Event(a, i - 1, Story(a)[i])
      BY <1>4, <2>2, <3>1
    <3>3. e \in Events
      BY <1>1, <3>1, <3>2 DEF EventsAre
    <3> QED
      BY <1>8, <3>3
  <2>4. a = row.attempt
    BY <1>2, <2>2, <2>3
  <2>5. Unfinished
    BY <2>2, <2>3, <2>4
  <2>6. i \in Nat /\ i > Len(Story(a)) /\ i - 1 >= Len(Story(a))
    BY <1>3, <2>2, <2>3
  <2> QED
    BY <2>2, <2>4, <2>5, <2>6 DEF Event
<1>9. ASSUME NEW e \in Logged', e \notin Logged PROVE e.at[1] = row.attempt
  <2>1. PICK a \in 1..MaxAttempts : \E i \in DOMAIN log'[a] : e = Event(a, i - 1, log'[a][i])
    BY <1>1 DEF EventsAre
  <2>2. PICK i \in DOMAIN log'[a] : e = Event(a, i - 1, log'[a][i])
    BY <2>1
  <2>3. SUFFICES ASSUME a # row.attempt PROVE FALSE
    BY <2>2 DEF Event
  <2>4. log'[a] = log[a]
    BY <2>3
  <2>5. e \in Logged
    BY <1>1, <2>2, <2>4 DEF EventsAre
  <2> QED
    BY <1>9, <2>5
<1> QED
  BY <1>6, <1>7, <1>8, <1>9

LEMMA BeginsSame == ASSUME NEW k, k \in Seq(Kinds) PROVE Begins(k, k)
  BY DEF Begins

\* Nothing is published or written.
LEMMA StillGrows ==
  ASSUME Producer, PlanKept, UNCHANGED <<log, daemon, bus, published>>, row'.attempt = row.attempt,
         Unfinished' => Unfinished, row.status = "terminal" => row'.status = "terminal",
         Projected.status = "terminal" => Projected'.status = "terminal"
  PROVE  Grows /\ Events' = Events /\ Logged' = Logged
<1>1. Events' = Events /\ Logged' = Logged
  BY DEF Events, Logged
<1>2. Story(row.attempt)' = Story(row.attempt)
  BY DEF Story
<1>3. Begins(Story(row.attempt), Story(row.attempt))
  BY StoryEvents, BeginsSame, RowFacts DEF EventsAre
<1> QED
  BY <1>1, <1>2, <1>3 DEF Grows

LEMMA QuietGrows ==
  ASSUME Producer, Claim \/ WriteSidecar \/ WriteRow \/ RemoveSidecar \/ CancelQueued \/ PersistResult
  PROVE  Grows
<1>0. PlanKept
  BY QuietSafe
<1> USE DEF Unfinished, Projected, Producer, ProducerType, WorkerSees
<1>1. CASE Claim
  BY <1>0, <1>1, StillGrows DEF Claim
<1>2. CASE WriteSidecar
  BY <1>0, <1>2, StillGrows DEF WriteSidecar
<1>3. CASE WriteRow
  BY <1>0, <1>3, StillGrows DEF WriteRow
<1>4. CASE RemoveSidecar
  BY <1>0, <1>4, StillGrows DEF RemoveSidecar
<1>5. CASE CancelQueued
  BY <1>0, <1>5, StillGrows DEF CancelQueued
<1>6. CASE PersistResult
  BY <1>0, <1>6, StillGrows DEF PersistResult
<1> QED
  BY <1>1, <1>2, <1>3, <1>4, <1>5, <1>6

LEMMA OpenBusGrows == ASSUME Producer, OpenBus PROVE Grows
<1>1. Producer' /\ PlanKept
  BY OpenBusSafe
<1>2. /\ row' = row /\ log' = log /\ sidecar' = sidecar /\ daemon' = daemon /\ published' = published
      /\ bus' = "open" /\ bus = "none" /\ Written = <<>> /\ published = <<>> /\ worker = "claimed"
  BY DEF OpenBus, command, Producer, WorkerSees, Stories
<1>3. Story(row.attempt) = <<>> /\ Story(row.attempt)' = <<>> /\ Written' = <<>>
  BY <1>2 DEF Story, Written
<1>4. Begins(<<>>, <<>>)
  BY DEF Begins
<1>5. Unfinished
  BY <1>2 DEF Unfinished
<1>6. /\ Events \subseteq Events' /\ Logged \subseteq Logged'
      /\ \A e \in Events' :
              \/ e \in Events
              \/ Unfinished /\ e.at[1] = row.attempt /\ e.at[2] >= Len(Story(row.attempt))
      /\ \A e \in Logged' : e \in Logged \/ e.at[1] = row.attempt
  BY <1>1, <1>2, <1>3, <1>4, GrowSets
<1> QED
  BY <1>1, <1>2, <1>3, <1>4, <1>5, <1>6 DEF Grows, Projected

LEMMA PublishGrows ==
  ASSUME Producer, Producer', PlanKept, UNCHANGED <<row, sidecar, log, daemon, bus>>, bus = "open",
         Begins(published, published')
  PROVE  Grows
<1>1. Story(row.attempt) = published /\ Story(row.attempt)' = published' /\ Written' = Written
  BY DEF Story, Written
<1>2. Begins(Written, Written)
  BY BeginsSame, RowFacts
<1>3. Unfinished
  BY DEF Unfinished
<1>4. /\ Events \subseteq Events' /\ Logged \subseteq Logged'
      /\ \A e \in Events' :
              \/ e \in Events
              \/ Unfinished /\ e.at[1] = row.attempt /\ e.at[2] >= Len(Story(row.attempt))
      /\ \A e \in Logged' : e \in Logged \/ e.at[1] = row.attempt
  BY <1>1, <1>2, <1>3, GrowSets
<1> QED
  BY <1>1, <1>3, <1>4 DEF Grows, Projected

LEMMA EmitGrows == ASSUME Producer, Emit PROVE Grows
<1>1. Producer' /\ PlanKept
  BY EmitSafe
<1>2. /\ Shaped(published) /\ Outputs(published) /\ Len(published) < MaxOutput /\ bus = "open"
      /\ published' = Append(published, "output")
  BY DEF Emit, Producer, Stories, WorkerSees
<1>3. Begins(published, published')
  BY <1>2, ShapedOutput, RowFacts DEF Begins
<1> QED
  BY <1>1, <1>2, <1>3, PublishGrows DEF Emit, command

LEMMA FinishGrows == ASSUME Producer, Finish PROVE Grows
<1>1. Producer' /\ PlanKept
  BY FinishSafe
<1>2. Shaped(published) /\ Outputs(published) /\ bus = "open" /\ published' = published \o Pair
  BY DEF Finish, Producer, Stories, WorkerSees
<1> DEFINE t == published \o Pair
<1>3. Len(t) = Len(published) + 2 /\ \A i \in DOMAIN published : t[i] = published[i]
  BY <1>2, ShapedPair
<1> HIDE DEF t
<1>4. published' = t
  BY <1>2 DEF t
<1>5. Begins(published, published')
  BY <1>3, <1>4, RowFacts DEF Begins
<1> QED
  BY <1>1, <1>2, <1>5, PublishGrows DEF Finish, command

LEMMA DropBusGrows == ASSUME Producer, DropBus PROVE Grows
<1>1. Producer' /\ PlanKept
  BY DropBusSafe
<1>2. /\ row' = row /\ log' = log /\ sidecar' = sidecar /\ daemon' = daemon /\ published' = published
      /\ bus = "open" /\ bus' = "gone"
  BY DEF DropBus, command, Producer, WorkerSees
<1>3. Story(row.attempt) = published /\ Story(row.attempt)' = published
  BY <1>2 DEF Story
<1>4. Events' = Events /\ Logged' = Logged
  BY <1>2 DEF Events, Logged
<1>5. Begins(published, published) /\ Unfinished
  BY <1>2, BeginsSame, RowFacts DEF Unfinished
<1> QED
  BY <1>1, <1>2, <1>3, <1>4, <1>5 DEF Grows, Projected

LEMMA WriteEventGrows == ASSUME Producer, WriteEvent PROVE Grows
<1>1. Producer' /\ PlanKept
  BY WriteEventSafe
<1>2. /\ row' = row /\ sidecar' = sidecar /\ daemon' = daemon /\ published' = published
      /\ bus' = bus /\ bus # "none" /\ worker' = worker
      /\ log' = [log EXCEPT ![row.attempt] = Append(Written, published[Len(Written) + 1])]
  BY DEF WriteEvent, execution, Written
<1>3. Story(row.attempt) = published /\ Story(row.attempt)' = published
  BY <1>2 DEF Story
<1>4. Begins(published, published) /\ Unfinished
  BY <1>2, BeginsSame, RowFacts DEF Unfinished
<1> DEFINE t == Append(Written, published[Len(Written) + 1])
<1>5. Len(t) = Len(Written) + 1 /\ \A i \in DOMAIN Written : t[i] = Written[i]
  BY RowFacts
<1>6. log' = [log EXCEPT ![row.attempt] = t] /\ log \in [1..MaxAttempts -> Seq(Kinds)]
  BY <1>2 DEF Producer, ProducerType
<1> HIDE DEF t
<1>7. Written' = t /\ \A a \in 1..MaxAttempts : a # row.attempt => log'[a] = log[a]
  BY <1>2, <1>6, RowFacts DEF Written
<1>8. Begins(Written, Written')
  BY <1>5, <1>7, RowFacts DEF Begins
<1>9. /\ Events \subseteq Events' /\ Logged \subseteq Logged'
      /\ \A e \in Events' :
              \/ e \in Events
              \/ Unfinished /\ e.at[1] = row.attempt /\ e.at[2] >= Len(Story(row.attempt))
      /\ \A e \in Logged' : e \in Logged \/ e.at[1] = row.attempt
  BY <1>1, <1>2, <1>3, <1>4, <1>7, <1>8, GrowSets
<1> QED
  BY <1>1, <1>2, <1>3, <1>4, <1>9 DEF Grows, Projected, Unfinished

LEMMA FinalizeGrows == ASSUME Producer, FinalizeUnowned PROVE Grows
<1>1. Producer' /\ PlanKept
  BY FinalizeSafe
<1>2. /\ row' = row /\ sidecar' = sidecar /\ daemon' = daemon /\ published' = published
      /\ bus' = bus /\ bus = "none" /\ worker = "finalizing" /\ row.status = "terminal"
      /\ Written = <<>>
  BY DEF FinalizeUnowned, Producer, WorkerSees
<1>3. Story(row.attempt) = <<>> /\ Story(row.attempt)' = Written'
  BY <1>2 DEF Story, Written
<1>4. \A a \in 1..MaxAttempts : a # row.attempt => log'[a] = log[a]
  BY AppendTerminalFacts DEF FinalizeUnowned
<1>5. Begins(<<>>, Written')
  <2>0. Shaped(log'[row.attempt])
    BY RowFacts, AppendTerminalFacts DEF FinalizeUnowned
  <2>1. Len(Written') \in Nat
    BY <1>2, <2>0 DEF Shaped, Written
  <2> QED
    BY <2>1 DEF Begins
<1>6. Unfinished
  BY <1>2 DEF Unfinished
<1>7. /\ Events \subseteq Events' /\ Logged \subseteq Logged'
      /\ \A e \in Events' :
              \/ e \in Events
              \/ Unfinished /\ e.at[1] = row.attempt /\ e.at[2] >= Len(Story(row.attempt))
      /\ \A e \in Logged' : e \in Logged \/ e.at[1] = row.attempt
  BY <1>1, <1>2, <1>3, <1>4, <1>5, <1>6, GrowSets
<1> QED
  BY <1>1, <1>2, <1>3, <1>5, <1>6, <1>7 DEF Grows, Projected

Producing ==
  \/ Claim \/ WriteSidecar \/ WriteRow \/ RemoveSidecar \/ CancelQueued \/ PersistResult
  \/ OpenBus \/ Emit \/ Finish \/ DropBus \/ WriteEvent \/ FinalizeUnowned

LEMMA ProducingGrows == ASSUME Producer, Producing PROVE Producer' /\ Grows
<1>1. CASE Claim \/ WriteSidecar \/ WriteRow \/ RemoveSidecar \/ CancelQueued \/ PersistResult
  BY <1>1, QuietSafe, QuietGrows
<1>2. CASE OpenBus
  BY <1>2, OpenBusSafe, OpenBusGrows
<1>3. CASE Emit
  BY <1>3, EmitSafe, EmitGrows
<1>4. CASE Finish
  BY <1>4, FinishSafe, FinishGrows
<1>5. CASE DropBus
  BY <1>5, DropBusSafe, DropBusGrows
<1>6. CASE WriteEvent
  BY <1>6, WriteEventSafe, WriteEventGrows
<1>7. CASE FinalizeUnowned
  BY <1>7, FinalizeSafe, FinalizeGrows
<1> QED
  BY <1>1, <1>2, <1>3, <1>4, <1>5, <1>6, <1>7 DEF Producing

\* What a client has been told stays true while events are added.
LEMMA LengthsKnown ==
  ASSUME Producer, Producer', Grows
  PROVE  /\ Len(Story(row.attempt)) \in Nat /\ Len(Story(row.attempt)') \in Nat
         /\ DOMAIN Story(row.attempt) = 1..Len(Story(row.attempt))
         /\ DOMAIN Story(row.attempt)' = 1..Len(Story(row.attempt)')
         /\ Len(Story(row.attempt)) <= Len(Story(row.attempt)')
         /\ \A i \in DOMAIN Story(row.attempt) : Story(row.attempt)'[i] = Story(row.attempt)[i]
<1>1. EventsAre /\ EventsAre'
  BY StoryEvents, StoryEventsNext
<1>2. row.attempt \in 1..MaxAttempts /\ row'.attempt = row.attempt
  BY RowFacts DEF Grows
<1>3. \A a \in 1..MaxAttempts :
        /\ DOMAIN Story(a) = 1..Len(Story(a)) /\ Len(Story(a)) \in Nat
        /\ DOMAIN Story(a)' = 1..Len(Story(a)') /\ Len(Story(a)') \in Nat
  BY <1>1 DEF EventsAre
<1>4. Begins(Story(row.attempt), Story(row.attempt)')
  BY DEF Grows
<1> QED
  BY <1>2, <1>3, <1>4 DEF Begins

LEMMA KnownGrows ==
  ASSUME Producer, Producer', Grows
  PROVE  \A p \in Pos : Known(p) => Known(p)'
<1>1. /\ Len(Story(row.attempt)) \in Nat /\ Len(Story(row.attempt)') \in Nat
      /\ Len(Story(row.attempt)) <= Len(Story(row.attempt)')
  BY LengthsKnown
<1>2. row'.attempt = row.attempt /\ (Unfinished' => Unfinished)
  BY DEF Grows
<1>3. \A p \in Pos : p[1] \in Nat /\ p[2] \in Nat
  BY DEF Pos
<1> QED
  BY <1>1, <1>2, <1>3 DEF Known

LEMMA VisibleGrows ==
  ASSUME Producer, Producer', Grows, NEW c \in Cursors, Known(c.last)
  PROVE  /\ Visible(c) \subseteq Visible(c)'
         /\ \A e \in Visible(c)' : e \in Visible(c) \/ Before(c.last, e.at)
<1>1. Events \subseteq Events'
  BY DEF Grows
<1>2. ASSUME NEW e \in Events', e \notin Events PROVE Before(c.last, e.at)
  <2>1. Unfinished /\ e.at[1] = row.attempt /\ e.at[2] >= Len(Story(row.attempt))
    BY <1>2 DEF Grows
  <2>2. c.last[1] <= row.attempt /\ (c.last[1] = row.attempt => c.last[2] < Len(Story(row.attempt)))
    BY <2>1 DEF Known
  <2>3. c.last[1] \in Nat /\ c.last[2] \in Nat
    BY PositionsPos DEF Cursors, Pos
  <2>4. Len(Story(row.attempt)) \in Nat
    BY LengthsKnown
  <2>5. e.at[2] \in Nat
    <3>1. \A f \in Events' : f.at \in Pos
      BY EventFactsNext DEF EventsPlaced
    <3> QED
      BY <3>1, <1>2 DEF Pos
  <2> QED
    BY <2>1, <2>2, <2>3, <2>4, <2>5, RowFacts DEF Before
<1> QED
  BY <1>1, <1>2 DEF Visible

LEMMA ToldGrows ==
  ASSUME Producer, Producer', Grows, client' = client
  PROVE  \A c : \A w : Told(c, w) => Told(c, w)'
<1> SUFFICES ASSUME NEW c, NEW w, Told(c, w) PROVE Told(c, w)'
  OBVIOUS
<1>1. c \in Cursors /\ Known(c.last) /\ c.last \in Pos
  BY PositionsPos DEF Told, CursorOwn, InStep, Cursors
<1>2. /\ Visible(c) \subseteq Visible(c)'
      /\ \A e \in Visible(c)' : e \in Visible(c) \/ Before(c.last, e.at)
  BY <1>1, VisibleGrows
<1>3. Known(c.last)'
  BY <1>1, KnownGrows
<1>4. Base(c)' = Base(c)
  BY DEF Base
<1>5. row'.attempt = row.attempt /\ plan'.skips = plan.skips /\ Events \subseteq Events'
  BY DEF Grows, PlanKept
<1>6. CursorOwn(c)'
  BY <1>5 DEF Told, CursorOwn
<1>7. EndSeen(c)'
  BY <1>5 DEF Told, EndSeen
<1>8. InStep(c, w)'
  BY <1>2, <1>3, <1>4 DEF Told, InStep
<1> QED
  BY <1>6, <1>7, <1>8 DEF Told

LEMMA OlderGrows ==
  ASSUME Producer, Producer', Grows
  PROVE  \A c : Older(c) => Older(c)'
<1>1. row'.attempt = row.attempt /\ \A e \in Logged' : e \in Logged \/ e.at[1] = row.attempt
  BY DEF Grows
<1>2. row.attempt \in Nat
  BY RowFacts
<1> QED
  BY <1>1, <1>2 DEF Older

LEMMA FramesPlaced ==
  ASSUME StreamType
  PROVE  \A i \in DOMAIN wire : wire[i] \in Frames /\ wire[i].at \in Positions
<1>1. wire \in Seq(Frames)
  BY DEF StreamType
<1>2. \A i \in DOMAIN wire : wire[i] \in Frames
  BY <1>1
<1> QED
  BY <1>2 DEF Frames

\* A step of the producers tells the client nothing.
LEMMA ConnectionSame ==
  ASSUME Safe, Producer', Grows, UNCHANGED connection
  PROVE  StreamType' /\ Subscribed' /\ EndsTrue' /\ Behind'
<1>0. stream' = stream /\ wire' = wire /\ client' = client
  BY DEF connection
<1>1. Producer /\ StreamType /\ Subscribed /\ EndsTrue /\ Behind
  BY DEF Safe
<1>2. StreamType'
  BY <1>0, <1>1 DEF StreamType
<1>3. Subscribed'
  <2>1. Told(stream.cursor, wire) => Told(stream.cursor, wire)'
    <3>1. Told(stream.cursor, wire) => Told(stream'.cursor, wire')
      BY <1>0
    <3> QED
      BY <1>0, <1>1, ToldGrows
  <2>2. Older(stream.cursor) => Older(stream.cursor)'
    BY <1>0, <1>1, OlderGrows
  <2>3. row'.attempt = row.attempt /\ daemon' = daemon
        /\ (row.status = "terminal" => row'.status = "terminal")
    BY DEF Grows
  <2> QED
    BY <1>0, <1>1, <2>1, <2>2, <2>3 DEF Subscribed, Delivering
<1>4. EndsTrue'
  <2>1. Projected.status = "terminal" => Projected'.status = "terminal"
    BY DEF Grows
  <2> QED
    BY <1>0, <1>1, <2>1 DEF EndsTrue, HasDone
<1>5. Behind'
  <2>1. ASSUME ~client.done PROVE Known(client.last)'
    BY <1>0, <1>1, <2>1, KnownGrows, PositionsPos DEF Behind, StreamType
  <2>2. ASSUME NEW i \in Ids(wire) PROVE Known(wire[i].at)'
    <3>1. wire[i].at \in Pos
      BY <1>1, FramesPlaced, PositionsPos DEF Ids
    <3>2. Known(wire[i].at)
      BY <1>1 DEF Behind
    <3> QED
      BY <1>0, <1>1, <3>1, <3>2, KnownGrows
  <2>3. bus' # "none" => Story(row.attempt)' = published' /\ Unfinished' /\ row'.attempt = row.attempt
    BY DEF Grows, Story, Unfinished
  <2>4. /\ Len(Story(row.attempt)) \in Nat
        /\ DOMAIN Story(row.attempt) = 1..Len(Story(row.attempt))
        /\ DOMAIN Story(row.attempt)' = 1..Len(Story(row.attempt)')
        /\ Len(Story(row.attempt)') \in Nat
        /\ \A i \in DOMAIN Story(row.attempt) : Story(row.attempt)'[i] = Story(row.attempt)[i]
    BY <1>1, LengthsKnown
  <2>5. bus' # "none" => Unfinished
    BY <2>3 DEF Grows
  <2>6. bus = "none" /\ Unfinished => Story(row.attempt) = <<>>
    BY <1>1 DEF Unfinished, Producer, WorkerSees, Story, Written
  <2>7. bus # "none" => Story(row.attempt) = published
    BY DEF Story
  <2>8. ASSUME bus' # "none", NEW i \in Ids(wire), wire[i].at[1] = row.attempt
        PROVE  wire[i].kind = published'[wire[i].at[2] + 1]
    <3>1. wire[i].at \in Pos /\ Known(wire[i].at)
      BY <1>1, FramesPlaced, PositionsPos DEF Ids, Behind
    <3>2. wire[i].at[2] \in Nat /\ wire[i].at[2] < Len(Story(row.attempt))
      BY <2>5, <2>8, <3>1 DEF Known, Pos
    <3>3. wire[i].at[2] + 1 \in DOMAIN Story(row.attempt)
      BY <2>4, <3>2
    <3>4. bus # "none"
      BY <2>4, <2>5, <2>6, <2>8, <3>2
    <3>5. wire[i].kind = Story(row.attempt)[wire[i].at[2] + 1]
      BY <1>1, <2>7, <2>8, <3>4 DEF Behind
    <3> QED
      BY <2>3, <2>4, <2>8, <3>3, <3>5
  <2>9. ASSUME ~client.done, bus' # "none", NEW i \in DOMAIN published',
               published'[i] = "status", ~Before(client.last, <<row.attempt, i - 1>>)
        PROVE  client.status
    <3>1. client.last \in Pos /\ Known(client.last)
      BY <1>1, <2>9, PositionsPos DEF StreamType, Behind
    <3>2. i \in Nat /\ i >= 1
      BY <2>3, <2>4, <2>9
    <3>3. client.last[1] \in Nat /\ client.last[2] \in Nat /\ client.last[1] <= row.attempt
          /\ (client.last[1] = row.attempt => client.last[2] < Len(Story(row.attempt)))
      BY <2>5, <2>9, <3>1 DEF Known, Pos
    <3>4. ~(client.last[1] < row.attempt)
          /\ ~(client.last[1] = row.attempt /\ client.last[2] < i - 1)
      BY <2>9 DEF Before
    <3>5. i \in DOMAIN Story(row.attempt)
      BY <2>4, <3>2, <3>3, <3>4, RowFacts, <1>1
    <3>6. Story(row.attempt)[i] = "status"
      BY <2>3, <2>4, <2>9, <3>5
    <3>7. bus # "none"
      BY <2>4, <2>5, <2>6, <2>9, <3>5, ShapedEmpty
    <3> QED
      BY <1>1, <2>7, <2>9, <3>5, <3>6, <3>7 DEF Behind
  <2> QED
    BY <1>0, <2>1, <2>2, <2>3, <2>8, <2>9 DEF Behind, Ids
<1> QED
  BY <1>2, <1>3, <1>4, <1>5

LEMMA ProducingSafe == ASSUME Safe, Producing PROVE Safe'
<1>1. Producer
  BY DEF Safe
<1>2. Producer' /\ Grows
  BY <1>1, ProducingGrows
<1>3. UNCHANGED connection
  BY DEF Producing, Claim, WriteSidecar, WriteRow, RemoveSidecar, CancelQueued, PersistResult, OpenBus,
         Emit, Finish, DropBus, WriteEvent, FinalizeUnowned
<1> QED
  BY <1>2, <1>3, ConnectionSame DEF Safe

-----------------------------------------------------------------------------
(* Forwarding events of the log or the bus *)

\* What forwarding does to a cursor
LEMMA AdvancedFacts ==
  ASSUME Producer, NEW c, CursorOwn(c), NEW S \in SUBSET Events
  PROVE  LET d == Advanced(c, S) IN
         /\ d \in Cursors /\ d.only = c.only /\ d.attempt = c.attempt /\ d.skips = c.skips
         /\ ~Before(d.last, c.last)
         /\ d.last = c.last \/ \E f \in Forwarded(c, S) : d.last = f.at
         /\ \A e \in Forwarded(c, S) : ~Before(d.last, e.at)
         /\ d.status => c.status \/ \E e \in S : e.at[1] = row.attempt /\ e.kind = "status"
         /\ d.done # Nowhere => c.done # Nowhere \/ \E e \in S : e.at[1] = row.attempt /\ e.kind = "done"
<1> DEFINE own == {e \in S : e.at[1] = c.attempt}
           dones == {e.at : e \in {f \in own : f.kind = "done"}}
           ends == {e.at[2] + 1 : e \in own} \cup {c.next}
           seen == {c.last} \cup {e.at : e \in Forwarded(c, S)}
           last == Latest(seen)
           next == CHOOSE n \in ends : \A m \in ends : m <= n
           done == IF dones = {} THEN c.done ELSE Latest(dones)
           status == c.status \/ \E e \in own : e.kind = "status"
<1>1. Advanced(c, S) = [c EXCEPT !.last = last, !.next = next, !.done = done, !.status = status]
  BY DEF Advanced
<1>2. c \in Cursors /\ c.attempt = row.attempt
  BY DEF CursorOwn
<1>3. \A e \in S : e.at \in Positions /\ e.at[1] \in 1..MaxAttempts /\ e.at[2] < Len(Story(e.at[1]))
  BY EventFacts
<1>4. seen \in SUBSET Positions /\ seen # {}
  BY <1>2, <1>3 DEF Forwarded, Cursors
<1>5. last \in seen /\ \A q \in seen : ~Before(last, q)
  <2> HIDE DEF seen
  <2> QED
    BY <1>4, LatestFacts
<1>6. next \in 0..MaxOutput + 2
  <2>1. ends \in SUBSET (0..(MaxOutput + 2))
    <3>1. c.next \in 0..MaxOutput + 2
      BY <1>2 DEF Cursors
    <3>2. ASSUME NEW e \in S PROVE e.at[2] + 1 \in 0..(MaxOutput + 2)
      <4>1. Len(Story(e.at[1])) \in 0..(MaxOutput + 2)
        BY <1>3, StoryEvents DEF EventsAre
      <4>2. e.at[2] \in Nat /\ e.at[2] < Len(Story(e.at[1]))
        BY <1>3, PositionsPos DEF Pos
      <4> QED
        BY <4>1, <4>2, Bounds
    <3> QED
      BY <3>1, <3>2
  <2>2. ends # {} /\ MaxOutput + 2 \in Nat
    BY Bounds
  <2> HIDE DEF ends
  <2>3. \E n \in ends : \A m \in ends : m <= n
    BY <2>1, <2>2, GreatestNat
  <2>4. next \in ends
    BY <2>3
  <2> QED
    BY <2>1, <2>4
<1>7. done \in Positions
  <2>1. CASE dones = {}
    BY <1>2, <2>1 DEF Cursors
  <2>2. CASE dones # {}
    <3>1. dones \in SUBSET Positions
      BY <1>3
    <3> HIDE DEF dones
    <3>2. Latest(dones) \in dones
      BY <2>2, <3>1, LatestFacts
    <3> QED
      BY <2>2, <3>1, <3>2
  <2> QED
    BY <2>1, <2>2
<1>8. status \in BOOLEAN
  BY <1>2 DEF Cursors
<1>9. last \in Positions
  BY <1>4, <1>5
<1>10. done # Nowhere => c.done # Nowhere \/ \E e \in S : e.at[1] = row.attempt /\ e.kind = "done"
  BY <1>2
<1>11. status => c.status \/ \E e \in S : e.at[1] = row.attempt /\ e.kind = "status"
  BY <1>2
<1>12. last = c.last \/ \E f \in Forwarded(c, S) : last = f.at
  BY <1>5
<1>13. ~Before(last, c.last) /\ \A e \in Forwarded(c, S) : ~Before(last, e.at)
  BY <1>5
<1> HIDE DEF last, next, done, status
<1> DEFINE d == Advanced(c, S)
<1>14. /\ d \in Cursors /\ d.only = c.only /\ d.attempt = c.attempt /\ d.skips = c.skips
       /\ d.last = last /\ d.done = done /\ d.status = status
  BY <1>1, <1>2, <1>6, <1>7, <1>8, <1>9 DEF Cursors
<1> HIDE DEF d
<1>15. /\ ~Before(d.last, c.last)
       /\ d.last = c.last \/ \E f \in Forwarded(c, S) : d.last = f.at
       /\ \A e \in Forwarded(c, S) : ~Before(d.last, e.at)
  BY <1>12, <1>13, <1>14
<1>16. d.status => c.status \/ \E e \in S : e.at[1] = row.attempt /\ e.kind = "status"
  BY <1>11, <1>14
<1>17. d.done # Nowhere => c.done # Nowhere \/ \E e \in S : e.at[1] = row.attempt /\ e.kind = "done"
  BY <1>10, <1>14
<1> QED
  BY <1>14, <1>15, <1>16, <1>17 DEF d

\* What is sent is what the client is to see of the events after the cursor, in order.
LEMMA SentFacts ==
  ASSUME Producer, NEW c, NEW S \in SUBSET Events
  PROVE  LET s == Sent(c, S) IN
         /\ s \in Seq(Events) /\ s \in Seq(Frames)
         /\ \A i \in DOMAIN s : s[i] \in Visible(c) /\ s[i] \in S /\ Before(c.last, s[i].at)
         /\ \A e \in Visible(c) : e \in S /\ Before(c.last, e.at) => \E i \in DOMAIN s : s[i] = e
         /\ \A i \in DOMAIN s : \A j \in DOMAIN s : i < j => Before(s[i].at, s[j].at)
<1> DEFINE V == {e \in Forwarded(c, S) : MatchesStep(c, e)}
           s == InOrder(V)
<1>1. V \subseteq Events /\ Sent(c, S) = s
  BY DEF Forwarded, Sent
<1>2. Placed(V)
  BY <1>1, EventFacts DEF Placed
<1>3. \A e : e \in V <=> e \in Visible(c) /\ e \in S /\ Before(c.last, e.at)
  BY DEF Forwarded, MatchesStep, Visible
<1> HIDE DEF V
<1>4. /\ s \in Seq(V)
      /\ \A e \in V : \E i \in DOMAIN s : s[i] = e
      /\ \A i \in DOMAIN s : \A j \in DOMAIN s : i < j => Before(s[i].at, s[j].at)
  BY <1>2, InOrderFacts
<1> HIDE DEF s
<1>5. V \subseteq Frames
  <2>1. \A e \in Events : e.at \in Positions /\ e.kind \in Kinds /\ e = [at |-> e.at, kind |-> e.kind]
    BY EventFacts
  <2> QED
    BY <1>1, <2>1 DEF Frames
<1>6. s \in Seq(Events) /\ s \in Seq(Frames) /\ \A i \in DOMAIN s : s[i] \in V
  BY <1>1, <1>4, <1>5
<1> QED
  BY <1>1, <1>3, <1>4, <1>6

LEMMA BaseFacts ==
  ASSUME client.last \in Positions, NEW c
  PROVE  Base(c) \in Pos
  BY PositionsPos DEF Base

\* Forwarding a set of events that leaves no gap keeps the frames in step.
LEMMA Forwarding ==
  ASSUME Producer, client.last \in Positions, NEW c, NEW w \in Seq(Frames), Told(c, w),
         NEW S \in SUBSET Events,
         \A e \in Visible(c) : Before(c.last, e.at) /\ ~Before(Advanced(c, S).last, e.at) => e \in S,
         \A e \in S : e.kind = "done" /\ e.at[1] = row.attempt =>
                        ~Before(Advanced(c, S).last, <<row.attempt, e.at[2] - 1>>)
  PROVE  Told(Advanced(c, S), w \o Sent(c, S))
<1> DEFINE d == Advanced(c, S)
           s == Sent(c, S)
           t == w \o s
<1>1. CursorOwn(c) /\ InStep(c, w) /\ EndSeen(c)
  BY DEF Told
<1>2. /\ d \in Cursors /\ d.only = c.only /\ d.attempt = c.attempt /\ d.skips = c.skips
      /\ ~Before(d.last, c.last)
      /\ d.last = c.last \/ \E f \in Forwarded(c, S) : d.last = f.at
      /\ \A e \in Forwarded(c, S) : ~Before(d.last, e.at)
      /\ d.status => c.status \/ \E e \in S : e.at[1] = row.attempt /\ e.kind = "status"
      /\ d.done # Nowhere => c.done # Nowhere \/ \E e \in S : e.at[1] = row.attempt /\ e.kind = "done"
  BY <1>1, AdvancedFacts
<1>3. /\ s \in Seq(Events) /\ s \in Seq(Frames)
      /\ \A i \in DOMAIN s : s[i] \in Visible(c) /\ s[i] \in S /\ Before(c.last, s[i].at)
      /\ \A e \in Visible(c) : e \in S /\ Before(c.last, e.at) => \E i \in DOMAIN s : s[i] = e
      /\ \A i \in DOMAIN s : \A j \in DOMAIN s : i < j => Before(s[i].at, s[j].at)
  BY SentFacts
<1>4. \A e \in Visible(c) : Before(c.last, e.at) /\ ~Before(d.last, e.at) => e \in S
  OBVIOUS
<1>5. \A e \in S : e.kind = "done" /\ e.at[1] = row.attempt => ~Before(d.last, <<row.attempt, e.at[2] - 1>>)
  OBVIOUS
<1> HIDE DEF d, s
<1>6. /\ t \in Seq(Frames) /\ DOMAIN t = 1..(Len(w) + Len(s))
      /\ \A i \in 1..(Len(w) + Len(s)) : t[i] = IF i <= Len(w) THEN w[i] ELSE s[i - Len(w)]
  BY <1>3, ConcatFacts
<1> HIDE DEF t
<1>7. Len(w) \in Nat /\ Len(s) \in Nat /\ DOMAIN w = 1..Len(w) /\ DOMAIN s = 1..Len(s)
  BY <1>3
<1>8. \A i \in DOMAIN w : i \in DOMAIN t /\ t[i] = w[i]
  BY <1>6, <1>7
<1>9. \A i \in DOMAIN s : i + Len(w) \in DOMAIN t /\ t[i + Len(w)] = s[i] /\ i + Len(w) > Len(w)
  BY <1>6, <1>7
<1>10. \A i \in DOMAIN t : \/ i \in DOMAIN w /\ t[i] = w[i]
                           \/ i > Len(w) /\ i - Len(w) \in DOMAIN s /\ t[i] = s[i - Len(w)]
  BY <1>6, <1>7
<1>11. Visible(d) = Visible(c) /\ Base(d) = Base(c)
  BY <1>2 DEF Visible, Base
<1>12. Base(c) \in Pos /\ c.last \in Pos /\ d.last \in Pos /\ c.last \in Positions /\ d.last \in Positions
  BY <1>1, <1>2, BaseFacts, PositionsPos DEF CursorOwn, Cursors
<1>13. \A e \in Events : e.at \in Pos /\ e.at # Nowhere
  BY EventFacts
<1>14. \A e \in Visible(c) : e \in Events /\ e.kind \in {"output", "status"}
  BY EventFacts DEF Visible, Kinds
<1>15. \A p \in Pos : ~Before(c.last, p) => ~Before(d.last, p)
  BY <1>2, <1>12, BeforeOrder
<1>16. CursorOwn(d)
  BY <1>1, <1>2 DEF CursorOwn
<1>17. EndSeen(d)
  <2>1. ASSUME d.status
        PROVE \E e \in Events : e.at[1] = row.attempt /\ e.kind = "status" /\ ~Before(d.last, e.at)
    <3>1. CASE c.status
      BY <1>1, <1>13, <1>15, <3>1 DEF EndSeen
    <3>2. CASE \E e \in S : e.at[1] = row.attempt /\ e.kind = "status"
      <4>1. PICK e \in S : e.at[1] = row.attempt /\ e.kind = "status"
        BY <3>2
      <4>2. CASE Before(c.last, e.at)
        <5>1. e \in Forwarded(c, S)
          BY <1>1, <4>1, <4>2 DEF Forwarded, CursorOwn
        <5> QED
          BY <1>2, <4>1, <5>1
      <4>3. CASE ~Before(c.last, e.at)
        BY <1>13, <1>15, <4>1, <4>3
      <4> QED
        BY <4>2, <4>3
    <3> QED
      BY <1>2, <2>1, <3>1, <3>2
  <2>2. ASSUME d.done # Nowhere
        PROVE \E e \in Events : /\ e.at[1] = row.attempt /\ e.kind = "done"
                                /\ ~Before(d.last, <<row.attempt, e.at[2] - 1>>)
    <3>1. CASE c.done # Nowhere
      <4>1. PICK e \in Events : /\ e.at[1] = row.attempt /\ e.kind = "done"
                                /\ ~Before(c.last, <<row.attempt, e.at[2] - 1>>)
        BY <1>1, <3>1 DEF EndSeen
      <4>2. <<row.attempt, e.at[2] - 1>> \in Pos
        BY <4>1, DoneAfterStatus
      <4> QED
        BY <1>15, <4>1, <4>2
    <3>2. CASE \E e \in S : e.at[1] = row.attempt /\ e.kind = "done"
      BY <1>5, <3>2
    <3> QED
      BY <1>2, <2>2, <3>1, <3>2
  <2> QED
    BY <2>1, <2>2 DEF EndSeen
<1>18. InStep(d, t)
  <2>1. IF d.only = 0 THEN t # <<>> => t[1].kind # "restart"
        ELSE t # <<>> /\ t[1] = Event(d.only, 0, "restart")
    <3>1. CASE w = <<>>
      <4>1. c.only = 0
        BY <1>1, <3>1 DEF InStep
      <4>2. ASSUME t # <<>> PROVE t[1].kind # "restart"
        <5>1. Len(w) = 0 /\ 1 \in DOMAIN t
          BY <1>6, <3>1, <4>2
        <5>2. 1 \in DOMAIN s /\ t[1] = s[1]
          BY <1>6, <1>7, <5>1
        <5> QED
          BY <1>3, <1>14, <5>2
      <4> QED
        BY <1>2, <4>1, <4>2
    <3>2. CASE w # <<>>
      <4>1. 1 \in DOMAIN w
        BY <1>7, <3>2
      <4>2. t[1] = w[1] /\ t # <<>>
        BY <1>8, <4>1
      <4> QED
        BY <1>1, <1>2, <3>2, <4>2 DEF InStep
    <3> QED
      BY <3>1, <3>2
  <2>2. \A i \in Ids(t) : \/ i \in Ids(w) /\ t[i] = w[i]
                          \/ i > Len(w) /\ i - Len(w) \in DOMAIN s /\ t[i] = s[i - Len(w)]
    BY <1>10 DEF Ids
  <2>3. ASSUME NEW i \in Ids(t)
        PROVE  t[i] \in Visible(d) /\ Before(Base(d), t[i].at) /\ ~Before(d.last, t[i].at)
    <3>1. CASE i \in Ids(w) /\ t[i] = w[i]
      <4>1. w[i] \in Visible(c) /\ Before(Base(c), w[i].at) /\ ~Before(c.last, w[i].at)
        BY <1>1, <3>1 DEF InStep
      <4> QED
        BY <1>11, <1>13, <1>14, <1>15, <3>1, <4>1
    <3>2. CASE i - Len(w) \in DOMAIN s /\ t[i] = s[i - Len(w)]
      <4>1. t[i] \in Visible(c) /\ t[i] \in S /\ Before(c.last, t[i].at)
        BY <1>3, <3>2
      <4>2. t[i] \in Forwarded(c, S)
        BY <4>1 DEF Forwarded, Visible
      <4>3. ~Before(c.last, Base(c))
        BY <1>1 DEF InStep
      <4>4. Before(Base(c), t[i].at)
        BY <1>12, <1>13, <1>14, <4>1, <4>3, BeforeOrder
      <4> QED
        BY <1>2, <1>11, <4>1, <4>2, <4>4
    <3> QED
      BY <2>2, <3>1, <3>2
  <2>4. ASSUME NEW i \in Ids(t), NEW j \in Ids(t), i < j PROVE Before(t[i].at, t[j].at)
    <3>1. CASE /\ i \in Ids(w) /\ t[i] = w[i]
               /\ j \in Ids(w) /\ t[j] = w[j]
      BY <1>1, <2>4, <3>1 DEF InStep
    <3>2. CASE /\ i \in Ids(w) /\ t[i] = w[i]
               /\ j > Len(w) /\ j - Len(w) \in DOMAIN s /\ t[j] = s[j - Len(w)]
      <4>1. w[i] \in Visible(c) /\ ~Before(c.last, w[i].at)
        BY <1>1, <3>2 DEF InStep
      <4>2. t[j] \in Visible(c) /\ Before(c.last, t[j].at)
        BY <1>3, <3>2
      <4> QED
        BY <1>12, <1>13, <1>14, <3>2, <4>1, <4>2, BeforeOrder
    <3>3. CASE /\ i > Len(w) /\ i - Len(w) \in DOMAIN s /\ t[i] = s[i - Len(w)]
               /\ j \in Ids(w)
      <4>1. j \in 1..Len(w) /\ i \in 1..(Len(w) + Len(s))
        BY <1>6, <1>7, <3>3 DEF Ids
      <4> QED
        BY <1>7, <2>4, <3>3, <4>1
    <3>4. CASE /\ i > Len(w) /\ i - Len(w) \in DOMAIN s /\ t[i] = s[i - Len(w)]
               /\ j > Len(w) /\ j - Len(w) \in DOMAIN s /\ t[j] = s[j - Len(w)]
      <4>1. i \in 1..(Len(w) + Len(s)) /\ j \in 1..(Len(w) + Len(s))
        BY <1>6 DEF Ids
      <4>2. i - Len(w) < j - Len(w)
        BY <1>7, <2>4, <4>1
      <4> QED
        BY <1>3, <3>4, <4>2
    <3> QED
      BY <2>2, <3>1, <3>2, <3>3, <3>4
  <2>5. ASSUME NEW e \in Visible(d), Before(Base(d), e.at), ~Before(d.last, e.at)
        PROVE  \E i \in Ids(t) : t[i] = e
    <3>0. e \in Visible(c) /\ e \in Events /\ e.kind \in {"output", "status"} /\ e.at # Nowhere
      BY <1>11, <1>13, <1>14
    <3>1. CASE Before(c.last, e.at)
      <4>1. e \in S
        BY <1>4, <2>5, <3>0, <3>1
      <4>2. PICK i \in DOMAIN s : s[i] = e
        BY <1>3, <3>0, <3>1, <4>1
      <4>3. i + Len(w) \in DOMAIN t /\ t[i + Len(w)] = e
        BY <1>9, <4>2
      <4>4. i + Len(w) \in Ids(t)
        BY <3>0, <4>3 DEF Ids
      <4> QED
        BY <4>3, <4>4
    <3>2. CASE ~Before(c.last, e.at)
      <4>1. PICK i \in Ids(w) : w[i] = e
        BY <1>1, <1>11, <2>5, <3>0, <3>2 DEF InStep
      <4>2. i \in DOMAIN t /\ t[i] = e
        BY <1>8, <4>1 DEF Ids
      <4>3. i \in Ids(t)
        BY <3>0, <4>2 DEF Ids
      <4> QED
        BY <4>2, <4>3
    <3> QED
      BY <3>1, <3>2
  <2>6. ~Before(d.last, Base(d))
    BY <1>1, <1>11, <1>12, <1>15 DEF InStep
  <2>7. Known(d.last)
    <3>1. CASE d.last = c.last
      BY <1>1, <3>1 DEF InStep
    <3>2. CASE \E f \in Forwarded(c, S) : d.last = f.at
      <4>1. PICK f \in Events : d.last = f.at
        BY <3>2 DEF Forwarded
      <4>2. f.at[1] <= row.attempt /\ f.at[2] < Len(Story(f.at[1]))
        BY EventFacts
      <4> QED
        BY <4>1, <4>2 DEF Known
    <3> QED
      BY <1>2, <3>1, <3>2
  <2> QED
    BY <2>1, <2>3, <2>4, <2>5, <2>6, <2>7 DEF InStep
<1>19. Told(d, t)
  BY <1>16, <1>17, <1>18 DEF Told
<1> QED
  BY <1>19 DEF d, s, t

-----------------------------------------------------------------------------
(* The ways of forwarding *)

LEMMA LoggedFacts ==
  ASSUME Producer
  PROVE  /\ \A e \in Logged : /\ e \in Events /\ e.at[1] \in 1..MaxAttempts
                              /\ e.at[2] + 1 \in DOMAIN log[e.at[1]]
         /\ \A a \in 1..MaxAttempts : \A i \in DOMAIN log[a] : Event(a, i - 1, log[a][i]) \in Logged
         /\ \A a \in 1..MaxAttempts : DOMAIN log[a] = 1..Len(log[a]) /\ Len(log[a]) \in Nat
<1>1. EventsAre
  BY StoryEvents
<1>2. \A a \in 1..MaxAttempts : DOMAIN log[a] = 1..Len(log[a]) /\ Len(log[a]) \in Nat
  BY DEF Producer, Stories, Shaped
<1>3. ASSUME NEW e \in Logged
      PROVE  /\ e \in Events /\ e.at[1] \in 1..MaxAttempts
             /\ e.at[2] + 1 \in DOMAIN log[e.at[1]]
  <2>1. PICK a \in 1..MaxAttempts : \E i \in DOMAIN log[a] : e = Event(a, i - 1, log[a][i])
    BY <1>1 DEF EventsAre
  <2>2. PICK i \in DOMAIN log[a] : e = Event(a, i - 1, log[a][i])
    BY <2>1
  <2>3. e.at = <<a, i - 1>> /\ (i - 1) + 1 = i
    BY <1>2, <2>2 DEF Event
  <2> QED
    BY <1>1, <2>2, <2>3 DEF EventsAre
<1> QED
  BY <1>1, <1>2, <1>3 DEF EventsAre

\* What is at or before an event of the log is in the log.
LEMMA LoggedFirst ==
  ASSUME Producer, NEW e \in Events, NEW f \in Logged, ~Before(f.at, e.at)
  PROVE  e \in Logged
<1> DEFINE a == e.at[1]
           i == e.at[2] + 1
<1>1. /\ e.at \in Pos /\ a \in 1..MaxAttempts /\ a <= row.attempt
      /\ i \in DOMAIN Story(a) /\ e.kind = Story(a)[i] /\ e = [at |-> e.at, kind |-> e.kind]
  BY EventFacts
<1>2. e.at = <<a, i - 1>> /\ a \in Nat /\ e.at[2] \in Nat /\ i - 1 = e.at[2]
  BY <1>1 DEF Pos
<1>3. e = Event(a, i - 1, Story(a)[i])
  BY <1>1, <1>2 DEF Event
<1>4. CASE a = row.attempt /\ bus # "none"
  <2>1. f \in Events /\ f.at \in Pos /\ f.at[1] <= row.attempt /\ f.at[1] \in 1..MaxAttempts
    BY LoggedFacts, EventFacts
  <2>2. f.at[1] \in Nat /\ f.at[2] \in Nat
    BY <2>1 DEF Pos
  <2>3. ~(f.at[1] < a) /\ ~(f.at[1] = a /\ f.at[2] < e.at[2])
    BY DEF Before
  <2>4. f.at[1] = a /\ f.at[2] >= e.at[2]
    BY <1>2, <1>4, <2>1, <2>2, <2>3, RowFacts
  <2>5. f.at[2] + 1 \in DOMAIN log[a]
    BY <2>4, LoggedFacts
  <2>6. i \in DOMAIN log[a]
    <3>1. DOMAIN log[a] = 1..Len(log[a]) /\ Len(log[a]) \in Nat
      BY <1>1, LoggedFacts
    <3> QED
      BY <1>2, <2>2, <2>4, <2>5, <3>1
  <2>7. log[a][i] = Story(a)[i]
    BY <1>1, <2>6, StoryEvents DEF EventsAre
  <2> HIDE DEF a, i
  <2> QED
    BY <1>1, <1>3, <2>6, <2>7, LoggedFacts
<1>5. CASE ~(a = row.attempt /\ bus # "none")
  <2>1. Story(a) = log[a]
    BY <1>5 DEF Story
  <2> HIDE DEF a, i
  <2> QED
    BY <1>1, <1>3, <2>1, LoggedFacts
<1> QED
  BY <1>4, <1>5

\* The log is forwarded: a replay, a catch-up, a gap made good, the last read.
LEMMA ForwardLogged ==
  ASSUME Producer, client.last \in Positions, NEW c, NEW w \in Seq(Frames), Told(c, w)
  PROVE  /\ Told(Advanced(c, Logged), w \o Sent(c, Logged))
         /\ Older(Advanced(c, Logged))
<1> DEFINE d == Advanced(c, Logged)
<1>1. CursorOwn(c) /\ Logged \in SUBSET Events
  BY DEF Told, Events
<1>2. /\ d \in Cursors /\ d.only = c.only /\ ~Before(d.last, c.last)
      /\ d.last = c.last \/ \E f \in Forwarded(c, Logged) : d.last = f.at
      /\ \A e \in Forwarded(c, Logged) : ~Before(d.last, e.at)
  BY <1>1, AdvancedFacts
<1> HIDE DEF d
<1>3. c.last \in Pos /\ d.last \in Pos /\ c.only \in {0, row.attempt}
  BY <1>1, <1>2, PositionsPos DEF CursorOwn, Cursors
<1>4. \A e \in Events : e.at \in Pos
  BY EventFacts
<1>5. ASSUME NEW e \in Visible(c), Before(c.last, e.at), ~Before(d.last, e.at) PROVE e \in Logged
  <2>1. e \in Events
    BY DEF Visible
  <2>2. PICK f \in Logged : d.last = f.at
    BY <1>2, <1>5 DEF Forwarded
  <2> QED
    BY <1>5, <2>1, <2>2, LoggedFirst
<1>6. ASSUME NEW e \in Logged, e.kind # "done", c.only = 0 \/ e.at[1] = c.only
      PROVE  ~Before(d.last, e.at)
  <2>1. CASE Before(c.last, e.at)
    <3>1. e \in Forwarded(c, Logged)
      BY <1>6, <2>1 DEF Forwarded
    <3> QED
      BY <1>2, <3>1
  <2>2. CASE ~Before(c.last, e.at)
    BY <1>1, <1>2, <1>3, <1>4, <2>2, BeforeOrder
  <2> QED
    BY <2>1, <2>2
<1>7. ASSUME NEW e \in Logged, e.kind = "done", e.at[1] = row.attempt
      PROVE  ~Before(d.last, <<row.attempt, e.at[2] - 1>>)
  <2> DEFINE g == Event(row.attempt, e.at[2] - 1, "status")
  <2>1. e \in Events
    BY <1>1
  <2>2. g \in Events
    BY <1>7, <2>1, DoneAfterStatus
  <2>3. g.at = <<row.attempt, e.at[2] - 1>> /\ g.kind = "status" /\ g.at[1] = row.attempt
    BY DEF Event
  <2>4. ~Before(e.at, g.at)
    <3>1. e.at[2] \in Nat /\ e.at[1] \in Nat
      BY <1>4, <2>1 DEF Pos
    <3>2. ~(e.at[2] < e.at[2] - 1)
      BY <3>1
    <3> QED
      BY <1>7, <2>3, <3>1, <3>2, RowFacts DEF Before
  <2> HIDE DEF g
  <2>5. g \in Logged
    BY <2>2, <2>4, LoggedFirst
  <2> QED
    BY <1>3, <1>6, <2>3, <2>5
<1>8. Told(Advanced(c, Logged), w \o Sent(c, Logged))
  BY <1>1, <1>5, <1>7, Forwarding DEF d
<1>9. Older(d)
  BY <1>2, <1>6 DEF Older
<1> QED
  BY <1>8, <1>9 DEF d

\* One event of the bus is forwarded, before which nothing is missing.
LEMMA ForwardOne ==
  ASSUME Producer, client.last \in Positions, NEW c, NEW w \in Seq(Frames), Told(c, w), Older(c),
         NEW e \in Events, e.at[1] = row.attempt, ~MissingBefore(c, e)
  PROVE  /\ Told(Advanced(c, {e}), w \o Sent(c, {e}))
         /\ Older(Advanced(c, {e}))
<1> DEFINE one == {e}
           d == Advanced(c, one)
<1>1. CursorOwn(c) /\ one \in SUBSET Events /\ Known(c.last)
  BY DEF Told, InStep
<1>one. one = {e}
  OBVIOUS
<1> HIDE DEF one
<1>2. /\ d \in Cursors /\ d.only = c.only /\ ~Before(d.last, c.last)
      /\ d.last = c.last \/ \E f \in Forwarded(c, one) : d.last = f.at
  BY <1>1, AdvancedFacts
<1> HIDE DEF d
<1>3. c.last \in Pos /\ d.last \in Pos /\ c.only \in {0, row.attempt}
  BY <1>1, <1>2, PositionsPos DEF CursorOwn, Cursors
<1>4. \A f \in Events : f.at \in Pos /\ f.at[1] <= row.attempt
  BY EventFacts
<1>5. /\ e.at[1] \in Nat /\ e.at[2] \in Nat /\ c.last[1] \in Nat /\ c.last[2] \in Nat
      /\ c.last[1] <= row.attempt /\ row.attempt \in Nat
  BY <1>1, <1>3, <1>4, RowFacts DEF Pos, Known
<1>6. \/ c.last[1] = row.attempt /\ e.at[2] <= c.last[2] + 1
      \/ c.last[1] < row.attempt /\ e.at[2] = 0
  BY <1>5 DEF MissingBefore
<1>7. ASSUME NEW f \in Visible(c), Before(c.last, f.at), ~Before(d.last, f.at) PROVE f \in one
  <2>1. /\ f \in Events /\ f.kind # "done" /\ f.at \in Pos /\ f.at[1] <= row.attempt
        /\ (c.only = 0 \/ f.at[1] = c.only)
    BY <1>4 DEF Visible
  <2>2. d.last = e.at
    BY <1>one, <1>2, <1>7 DEF Forwarded
  <2>3. f.at[1] \in Nat /\ f.at[2] \in Nat
    BY <2>1 DEF Pos
  <2>4. f.at[1] = row.attempt
    <3>1. SUFFICES ASSUME f.at[1] < row.attempt PROVE FALSE
      BY <1>5, <2>1, <2>3
    <3>2. c.only = 0
      BY <1>3, <2>1, <2>3, <3>1, <1>5
    <3>3. f \in Logged
      BY <2>1, <3>1, <1>5 DEF Events, EventsOf, Event
    <3> QED
      BY <1>7, <2>1, <3>1, <3>2, <3>3 DEF Older
  <2>5. ~(e.at[2] < f.at[2])
    BY <1>7, <2>2, <2>4 DEF Before
  <2>6. c.last[1] < row.attempt \/ (c.last[1] = row.attempt /\ c.last[2] < f.at[2])
    BY <1>7, <2>4 DEF Before
  <2>7. f.at[2] = e.at[2]
    BY <1>5, <1>6, <2>3, <2>5, <2>6
  <2>8. f.at = e.at
    <3>1. f.at = <<f.at[1], f.at[2]>> /\ e.at = <<e.at[1], e.at[2]>>
      BY <1>4, <2>1 DEF Pos
    <3> QED
      BY <2>4, <2>7, <3>1
  <2> QED
    BY <1>one, <2>1, <2>8, EventFacts
<1>8. ASSUME e.kind = "done" PROVE ~Before(d.last, <<row.attempt, e.at[2] - 1>>)
  <2>1. <<row.attempt, e.at[2] - 1>> \in Pos
    BY <1>8, DoneAfterStatus
  <2>2. e.at[2] - 1 \in Nat
    BY <2>1 DEF Pos
  <2>3. c.last[1] = row.attempt /\ ~(c.last[2] < e.at[2] - 1)
    BY <1>5, <1>6, <2>2
  <2>4. ~Before(c.last, <<row.attempt, e.at[2] - 1>>)
    BY <1>5, <2>3 DEF Before
  <2> QED
    BY <1>2, <1>3, <2>1, <2>4, BeforeOrder
<1>9. Told(Advanced(c, one), w \o Sent(c, one))
  BY <1>one, <1>1, <1>7, <1>8, Forwarding DEF d
<1>10. Older(d)
  <2>1. \A f \in Logged : f.at \in Pos
    BY <1>4, LoggedFacts
  <2> QED
    BY <1>2, <1>3, <2>1, BeforeOrder DEF Older
<1> QED
  BY <1>one, <1>9, <1>10 DEF d

LEMMA SentNotDone ==
  ASSUME Producer, NEW c, NEW S \in SUBSET Events, NEW w \in Seq(Frames), ~HasDone(w)
  PROVE  w \o Sent(c, S) \in Seq(Frames) /\ ~HasDone(w \o Sent(c, S))
<1> DEFINE s == Sent(c, S)
<1>1. s \in Seq(Frames) /\ \A i \in DOMAIN s : s[i] \in Visible(c)
  BY SentFacts
<1> HIDE DEF s
<1>2. \A i \in DOMAIN s : s[i].kind # "done"
  BY <1>1 DEF Visible
<1>3. /\ w \o s \in Seq(Frames) /\ DOMAIN (w \o s) = 1..(Len(w) + Len(s))
      /\ \A i \in 1..(Len(w) + Len(s)) : (w \o s)[i] = IF i <= Len(w) THEN w[i] ELSE s[i - Len(w)]
  BY <1>1, ConcatFacts
<1> DEFINE t == w \o s
<1> HIDE DEF t
<1>4. ASSUME NEW i \in DOMAIN t PROVE t[i].kind # "done"
  <2>0. /\ DOMAIN w = 1..Len(w) /\ Len(w) \in Nat /\ DOMAIN s = 1..Len(s) /\ Len(s) \in Nat
        /\ i \in 1..(Len(w) + Len(s)) /\ t[i] = IF i <= Len(w) THEN w[i] ELSE s[i - Len(w)]
    BY <1>1, <1>3 DEF t
  <2>1. CASE i <= Len(w)
    <3>1. i \in DOMAIN w
      BY <2>0, <2>1
    <3> QED
      BY <2>0, <2>1, <3>1 DEF HasDone
  <2>2. CASE ~(i <= Len(w))
    <3>1. i - Len(w) \in DOMAIN s
      BY <2>0, <2>2
    <3> QED
      BY <1>2, <2>0, <2>2, <3>1
  <2> QED
    BY <2>1, <2>2
<1>5. ~HasDone(t)
  BY <1>4 DEF HasDone
<1> QED
  BY <1>3, <1>5 DEF s, t

\* Frames without an id change nothing of what has been delivered.
LEMMA EndFrames ==
  ASSUME NEW c, NEW w \in Seq(Frames), Told(c, w), NEW u \in Seq(Frames),
         \A i \in DOMAIN u : u[i].kind # "restart" /\ (u[i].kind = "done" \/ u[i].at = Nowhere)
  PROVE  Told(c, w \o u)
<1> DEFINE t == w \o u
<1>1. /\ t \in Seq(Frames) /\ DOMAIN t = 1..(Len(w) + Len(u))
      /\ \A i \in 1..(Len(w) + Len(u)) : t[i] = IF i <= Len(w) THEN w[i] ELSE u[i - Len(w)]
  BY ConcatFacts
<1> HIDE DEF t
<1>2. Len(w) \in Nat /\ Len(u) \in Nat /\ DOMAIN w = 1..Len(w) /\ DOMAIN u = 1..Len(u)
  OBVIOUS
<1>3. \A i \in DOMAIN w : i \in DOMAIN t /\ t[i] = w[i]
  BY <1>1, <1>2
<1>4. \A i \in DOMAIN t : \/ i \in DOMAIN w /\ t[i] = w[i]
                          \/ i - Len(w) \in DOMAIN u /\ t[i] = u[i - Len(w)]
  BY <1>1, <1>2
<1>5. \A i : i \in Ids(t) <=> i \in Ids(w)
  BY <1>3, <1>4 DEF Ids
<1>6. \A i \in Ids(w) : t[i] = w[i]
  BY <1>3 DEF Ids
<1>7. Ids(t) = Ids(w)
  BY <1>5
<1>8. IF c.only = 0 THEN t # <<>> => t[1].kind # "restart"
      ELSE t # <<>> /\ t[1] = Event(c.only, 0, "restart")
  <2>1. CASE w = <<>>
    <3>1. c.only = 0
      BY <2>1 DEF Told, InStep
    <3>2. ASSUME t # <<>> PROVE t[1].kind # "restart"
      <4>1. Len(w) = 0 /\ 1 \in DOMAIN t
        BY <1>1, <2>1, <3>2
      <4>2. 1 \in DOMAIN u /\ t[1] = u[1]
        BY <1>1, <1>2, <4>1
      <4> QED
        BY <4>2
    <3> QED
      BY <3>1, <3>2
  <2>2. CASE w # <<>>
    <3>1. 1 \in DOMAIN w
      BY <1>2, <2>2
    <3>2. t[1] = w[1] /\ t # <<>>
      BY <1>3, <3>1
    <3> QED
      BY <2>2, <3>2 DEF Told, InStep
  <2> QED
    BY <2>1, <2>2
<1>9. InStep(c, t)
  BY <1>6, <1>7, <1>8 DEF Told, InStep
<1> QED
  BY <1>9 DEF Told, t

LEMMA OpenedTold ==
  ASSUME Producer, client.last \in Positions, Known(client.last)
  PROVE  LET c == Opened(Logged, row.attempt, client.last, plan.skips)
         IN  Told(c, Restart(c)) /\ Restart(c) \in Seq(Frames) /\ ~HasDone(Restart(c))
<1> DEFINE c == Opened(Logged, row.attempt, client.last, plan.skips)
           kept == Kept(Logged, row.attempt, client.last)
<1>1. /\ c.only = (IF kept THEN 0 ELSE row.attempt)
      /\ c.last = (IF kept THEN client.last ELSE Nowhere)
      /\ c.attempt = row.attempt /\ c.next = 0 /\ c.done = Nowhere /\ c.status = FALSE
      /\ c.skips = plan.skips
      /\ c = [only |-> c.only, last |-> c.last, attempt |-> c.attempt, next |-> c.next,
              done |-> c.done, status |-> c.status, skips |-> c.skips]
  BY DEF Opened
<1> HIDE DEF c, kept
<1>2. /\ row.attempt \in 0..MaxAttempts /\ row.attempt # 0 /\ 0 \in 0..MaxAttempts
      /\ 0 \in 0..MaxOutput + 2 /\ plan.skips \in SUBSET Nat
  <2>1. row.attempt \in 1..MaxAttempts
    BY RowFacts
  <2>2. plan.skips \in SUBSET Nat
    BY DEF Producer, ProducerType
  <2> QED
    BY <2>1, <2>2, Bounds
<1>3. c \in Cursors
  BY <1>1, <1>2, PositionsPos DEF Cursors
<1>4. CursorOwn(c)
  BY <1>1, <1>3 DEF CursorOwn
<1>5. EndSeen(c)
  BY <1>1 DEF EndSeen
<1>6. Base(c) = c.last
  BY <1>1, <1>2 DEF Base
<1>7. c.last \in Pos
  BY <1>1, PositionsPos
<1>8. Known(c.last)
  BY <1>1, <1>2 DEF Known, Nowhere
<1>9. CASE c.only = 0
  <2>1. Restart(c) = <<>>
    BY <1>9 DEF Restart
  <2>2. InStep(c, <<>>)
    BY <1>6, <1>7, <1>8, <1>9, BeforeOrder DEF InStep, Ids
  <2>3. <<>> \in Seq(Frames) /\ ~HasDone(<<>>)
    BY DEF HasDone
  <2> QED
    BY <1>4, <1>5, <2>1, <2>2, <2>3 DEF Told, c
<1>10. CASE c.only # 0
  <2> DEFINE f == Event(c.only, 0, "restart")
  <2>1. Restart(c) = <<f>>
    BY <1>10 DEF Restart
  <2>2. f.kind = "restart" /\ f.at = <<c.only, 0>> /\ f = [at |-> <<c.only, 0>>, kind |-> "restart"]
    BY DEF Event
  <2>3. c.only \in 0..MaxAttempts /\ 0 \in 0..MaxOutput + 3
    BY <1>3, Bounds DEF Cursors
  <2>4. f \in Frames
    BY <2>2, <2>3 DEF Frames, Positions
  <2> HIDE DEF f
  <2>5. <<f>> \in Seq(Frames) /\ DOMAIN <<f>> = {1} /\ <<f>>[1] = f /\ <<f>> # <<>>
    BY <2>4
  <2>6. Ids(<<f>>) = {} /\ ~HasDone(<<f>>)
    BY <2>2, <2>5 DEF Ids, HasDone
  <2>7. InStep(c, <<f>>)
    <3>1. <<f>>[1] = Event(c.only, 0, "restart")
      BY <2>5 DEF f
    <3> QED
      BY <1>6, <1>7, <1>8, <1>10, <2>5, <2>6, <3>1, BeforeOrder DEF InStep
  <2> QED
    BY <1>4, <1>5, <2>1, <2>5, <2>6, <2>7 DEF Told, c
<1> QED
  BY <1>9, <1>10

-----------------------------------------------------------------------------
(* The steps of the subscription *)

LEMMA SameFacts ==
  ASSUME Producer, UNCHANGED <<command, execution>>, PlanKept
  PROVE  Producer' /\ Grows /\ Events' = Events /\ Projected' = Projected
<1>1. /\ row' = row /\ sidecar' = sidecar /\ log' = log /\ daemon' = daemon /\ worker' = worker
      /\ bus' = bus /\ published' = published /\ writes' = writes
  BY DEF command, execution
<1>2. Producer'
  BY ProducerSame
<1>3. Projected' = Projected /\ (Unfinished' <=> Unfinished)
  BY <1>1 DEF Projected, Unfinished
<1>4. Grows /\ Events' = Events
  BY <1>1, <1>3, StillGrows
<1> QED
  BY <1>2, <1>3, <1>4

\* What holds while there is a subscription
LEMMA Live ==
  ASSUME Safe, stream.pc \notin {"offline", "lost", "closed"}
  PROVE  /\ Producer /\ daemon = "up" /\ ~client.done /\ ~HasDone(wire)
         /\ client.last \in Positions /\ Known(client.last)
         /\ wire \in Seq(Frames) /\ stream \in Streams /\ stream.cursor \in Cursors
         /\ stream.cursor.attempt = row.attempt
         /\ stream.pc \notin {"subscribe", "replay"} =>
              /\ Told(stream.cursor, wire) /\ Older(stream.cursor)
              /\ UpdateAttempt(stream.cursor, row.attempt) = stream.cursor
         /\ stream.pc \in {"end", "finish", "await"} \/ (stream.pc = "gap" /\ stream.back = "finish") =>
              Projected.status = "terminal"
<1>1. Producer /\ StreamType /\ Subscribed /\ EndsTrue /\ Behind
  BY DEF Safe
<1>2. daemon = "up" /\ ~client.done
  BY <1>1 DEF Subscribed
<1>3. ~HasDone(wire)
  BY <1>1 DEF EndsTrue
<1>4. /\ client.last \in Positions /\ Known(client.last)
      /\ wire \in Seq(Frames) /\ stream \in Streams /\ stream.cursor \in Cursors
  BY <1>1, <1>2 DEF StreamType, Streams, Behind
<1>5. stream.pc \notin {"subscribe", "replay"} => Told(stream.cursor, wire) /\ Older(stream.cursor)
  BY <1>1 DEF Subscribed, Delivering
<1>6. stream.cursor.attempt = row.attempt
  BY <1>1, <1>5 DEF Subscribed, Told, CursorOwn
<1>7. row.attempt \in Nat
  BY <1>1, RowFacts
<1>8. UpdateAttempt(stream.cursor, row.attempt) = stream.cursor
  BY <1>6, <1>7 DEF UpdateAttempt
<1>9. stream.pc \in {"end", "finish", "await"} \/ (stream.pc = "gap" /\ stream.back = "finish") =>
        Projected.status = "terminal"
  BY <1>1 DEF EndsTrue
<1> QED
  BY <1>1, <1>2, <1>3, <1>4, <1>5, <1>6, <1>8, <1>9

\* The frames of a stream that is in step are of events, which the client may resume from.
LEMMA FramesBehind ==
  ASSUME Producer, NEW c, NEW w, InStep(c, w), NEW i \in Ids(w)
  PROVE  /\ Known(w[i].at)
         /\ bus # "none" /\ w[i].at[1] = row.attempt => w[i].kind = published[w[i].at[2] + 1]
<1>1. w[i] \in Events
  BY DEF InStep, Visible
<1>2. /\ w[i].at[1] <= row.attempt /\ w[i].at[2] < Len(Story(w[i].at[1]))
      /\ w[i].kind = Story(w[i].at[1])[w[i].at[2] + 1]
  BY <1>1, EventFacts
<1> QED
  BY <1>2 DEF Known, Story

\* A step to a cursor and frames that are in step with what there is
LEMMA Follows ==
  ASSUME Safe, UNCHANGED <<command, execution, client>>, PlanKept,
         stream.pc \notin {"offline", "lost", "closed"},
         NEW C, NEW W \in Seq(Frames), Told(C, W), Older(C), stream'.cursor = C, wire' = W,
         stream' \in Streams, stream'.pc \notin {"offline", "lost", "subscribe", "replay"}, EndsTrue'
  PROVE  Safe'
<1>1. Producer /\ StreamType /\ Subscribed /\ EndsTrue /\ Behind
  BY DEF Safe
<1>2. daemon = "up" /\ ~client.done /\ daemon' = "up" /\ client' = client
  BY Live DEF execution
<1>3. UNCHANGED <<command, execution>>
  OBVIOUS
<1>4. Producer' /\ Grows
  BY <1>1, <1>3, SameFacts
<1>5. StreamType'
  BY <1>1, <1>2 DEF StreamType
<1>6. Told(C, W)' /\ Older(C)'
  BY <1>1, <1>2, <1>4, ToldGrows, OlderGrows
<1>7. Subscribed'
  BY <1>2, <1>6 DEF Subscribed, Delivering
<1>8. Behind'
  <2>1. Known(client.last)' /\ Unfinished' = Unfinished
    <3>1. Known(client.last)
      BY Live
    <3>2. row' = row /\ bus' = bus /\ worker' = worker /\ published' = published /\ log' = log
      BY <1>3 DEF command, execution
    <3> QED
      BY <1>2, <3>1, <3>2 DEF Known, Unfinished, Story
  <2>2. ASSUME NEW i \in Ids(W)
        PROVE  /\ Known(W[i].at)'
               /\ bus' # "none" /\ W[i].at[1] = row'.attempt => W[i].kind = published'[W[i].at[2] + 1]
    <3>1. /\ Known(W[i].at)
          /\ bus # "none" /\ W[i].at[1] = row.attempt => W[i].kind = published[W[i].at[2] + 1]
      BY <1>1, <2>2, FramesBehind DEF Told
    <3>2. row' = row /\ bus' = bus /\ worker' = worker /\ published' = published /\ log' = log
      BY <1>3 DEF command, execution
    <3> QED
      BY <3>1, <3>2 DEF Known, Unfinished, Story
  <2>3. /\ ~client'.done /\ bus' # "none" =>
             \A i \in DOMAIN published' :
               published'[i] = "status" /\ ~Before(client'.last, <<row'.attempt, i - 1>>) => client'.status
    <3>1. row' = row /\ bus' = bus /\ published' = published
      BY <1>3 DEF command, execution
    <3> QED
      BY <1>1, <1>2, <3>1 DEF Behind
  <2> QED
    BY <2>1, <2>2, <2>3 DEF Behind, Ids
<1> QED
  BY <1>4, <1>5, <1>7, <1>8 DEF Safe

\* ... that sends no Done
LEMMA Forwards ==
  ASSUME Safe, UNCHANGED <<command, execution, client>>, PlanKept,
         stream.pc \notin {"offline", "lost", "closed"},
         NEW C, NEW W \in Seq(Frames), Told(C, W), Older(C), stream'.cursor = C, wire' = W, ~HasDone(W),
         stream' \in Streams, stream'.pc \notin {"offline", "lost", "subscribe", "replay"},
         \/ stream'.pc \in {"end", "finish", "await"}
         \/ stream'.pc = "gap" /\ stream'.back = "finish"
         => Projected.status = "terminal"
  PROVE  Safe'
<1>1. Producer /\ UNCHANGED <<command, execution>>
  BY DEF Safe
<1>2. Projected' = Projected
  BY <1>1, SameFacts
<1>3. ~HasDone(wire')
  OBVIOUS
<1>4. EndsTrue'
  BY <1>2, <1>3 DEF EndsTrue, HasDone
<1> QED
  BY <1>4, Follows

\* ... that sends nothing
LEMMA Stays ==
  ASSUME Safe, UNCHANGED <<command, execution, wire, client>>, PlanKept,
         stream.pc \notin {"offline", "lost", "closed", "subscribe", "replay"},
         stream'.cursor = stream.cursor,
         stream' \in Streams, stream'.pc \notin {"offline", "lost", "subscribe", "replay"},
         \/ stream'.pc \in {"end", "finish", "await"}
         \/ stream'.pc = "gap" /\ stream'.back = "finish"
         => Projected.status = "terminal"
  PROVE  Safe'
<1>1. wire \in Seq(Frames) /\ Told(stream.cursor, wire) /\ Older(stream.cursor) /\ ~HasDone(wire)
  BY Live
<1> QED
  BY <1>1, Forwards

\* A connection without an answer yet, or without a subscription any more
LEMMA Silent ==
  ASSUME Safe, UNCHANGED <<command, execution, client>>, PlanKept,
         \/ /\ stream'.pc \in {"subscribe", "replay"} /\ daemon = "up" /\ wire' = <<>>
            /\ stream'.cursor.attempt = row.attempt
            /\ stream'.terminal => row.status = "terminal"
         \/ stream'.pc = "lost" /\ wire' = wire /\ ~HasDone(wire),
         ~client.done, stream' \in Streams
  PROVE  Safe'
<1>1. Producer /\ StreamType /\ Subscribed /\ EndsTrue /\ Behind
  BY DEF Safe
<1>2. UNCHANGED <<command, execution>> /\ client' = client
  OBVIOUS
<1>3. Producer' /\ Projected' = Projected
  BY <1>1, <1>2, SameFacts
<1>4. /\ row' = row /\ bus' = bus /\ worker' = worker /\ published' = published /\ log' = log
      /\ daemon' = daemon
  BY <1>2 DEF command, execution
<1>5. wire' \in Seq(Frames) /\ ~HasDone(wire') /\ Ids(wire') \subseteq Ids(wire)
      /\ (wire' = <<>> \/ wire' = wire)
  <2>1. CASE wire' = wire /\ ~HasDone(wire)
    BY <1>1, <2>1 DEF StreamType
  <2>2. CASE wire' = <<>>
    <3>1. DOMAIN <<>> = {} /\ <<>> \in Seq(Frames)
      OBVIOUS
    <3>2. ~HasDone(<<>>) /\ Ids(<<>>) = {}
      BY <3>1 DEF HasDone, Ids
    <3> QED
      BY <2>2, <3>1, <3>2
  <2> QED
    BY <2>1, <2>2
<1>6. StreamType'
  BY <1>1, <1>2, <1>5 DEF StreamType
<1>7. Subscribed'
  BY <1>1, <1>2, <1>4 DEF Subscribed, Delivering
<1>8. EndsTrue'
  BY <1>3, <1>5 DEF EndsTrue, HasDone
<1>9. Behind'
  <2>1. CASE wire' = wire
    BY <1>1, <1>2, <1>4, <2>1 DEF Behind, Ids, Known, Unfinished, Story
  <2>2. CASE wire' = <<>>
    <3>1. Ids(wire)' = {}
      BY <2>2 DEF Ids
    <3> QED
      BY <1>1, <1>2, <1>4, <3>1 DEF Behind, Known, Unfinished, Story
  <2> QED
    BY <1>5, <2>1, <2>2
<1> QED
  BY <1>3, <1>6, <1>7, <1>8, <1>9 DEF Safe

LEMMA OfflineFacts ==
  /\ Offline \in Streams /\ Offline.pc = "offline" /\ Offline.terminal = FALSE
  /\ Offline.held \in [at : Positions, kind : Kinds] /\ Offline.position \in 0..NoPosition
<1> DEFINE o == Opened({}, 1, Nowhere, {})
<1>1. o = [only |-> 0, last |-> Nowhere, attempt |-> 1, next |-> 0, done |-> Nowhere,
           status |-> FALSE, skips |-> {}]
  BY DEF Opened, Kept
<1>2. 1 \in 0..MaxAttempts /\ 0 \in 0..MaxAttempts /\ 0 \in 0..MaxOutput + 2 /\ NoPosition \in 0..NoPosition
  BY Bounds DEF NoPosition
<1> HIDE DEF o
<1>3. o \in Cursors
  BY <1>1, <1>2, PositionsPos DEF Cursors
<1>4. Event(0, 0, "done") \in [at : Positions, kind : Kinds]
  BY PositionsPos, KindsFacts DEF Event, Nowhere
<1>5. Offline = [pc |-> "offline", cursor |-> o, position |-> NoPosition,
                 held |-> Event(0, 0, "done"), back |-> "live", terminal |-> FALSE]
  BY DEF Offline, o
<1> QED
  BY <1>2, <1>3, <1>4, <1>5 DEF Streams

\* What one step leaves of the plan
LEMMA PlanSpent ==
  ASSUME Safe
  PROVE  /\ \A kind : Spend(kind) => PlanKept
         /\ UNCHANGED plan => PlanKept
         /\ TimesOut => PlanKept
<1>1. DOMAIN plan = {"run", "skips", "left"}
  BY DEF Safe, Producer, ProducerType
<1> QED
  BY <1>1, SpendKeeps DEF TimesOut

LEMMA StreamFields ==
  ASSUME Safe
  PROVE  /\ stream \in Streams /\ stream.position \in 0..NoPosition /\ stream.position \in Nat
         /\ stream.cursor \in Cursors /\ stream.back \in {"live", "finish"}
         /\ stream.terminal \in BOOLEAN /\ stream.held \in [at : Positions, kind : Kinds]
<1>1. stream \in Streams
  BY DEF Safe, StreamType
<1>2. NoPosition \in Nat
  BY Bounds DEF NoPosition
<1> QED
  BY <1>1, <1>2 DEF Streams

\* The bus has no more events than there are places in it.
LEMMA PublishedBound ==
  ASSUME Safe
  PROVE  Len(published) \in 0..NoPosition /\ Len(published) < NoPosition
<1>1. Shaped(published)
  BY DEF Safe, Producer, Stories
<1>2. Len(published) \in 0..(MaxOutput + 2)
  BY <1>1, ShapedLength
<1> QED
  BY <1>2, Bounds DEF NoPosition

LEMMA ConnectSafe == ASSUME Safe, Connect PROVE Safe'
<1>1. PlanKept /\ UNCHANGED <<command, execution, client>> /\ wire' = <<>> /\ ~client.done /\ daemon = "up"
  BY PlanSpent DEF Connect
<1> DEFINE c == Opened({}, row.attempt, Nowhere, plan.skips)
           t == (row.status = "terminal")
<1>2. stream' = [Offline EXCEPT !.pc = "subscribe", !.terminal = t, !.cursor = c]
  BY DEF Connect
<1>3. /\ row.attempt \in 0..MaxAttempts /\ 0 \in 0..MaxAttempts /\ 0 \in 0..MaxOutput + 2
      /\ plan.skips \in SUBSET Nat
  <2>1. row.attempt \in 1..MaxAttempts
    BY RowFacts DEF Safe
  <2>2. plan.skips \in SUBSET Nat
    BY DEF Safe, Producer, ProducerType
  <2> QED
    BY <2>1, <2>2, Bounds
<1>4. c = [only |-> 0, last |-> Nowhere, attempt |-> row.attempt, next |-> 0, done |-> Nowhere,
           status |-> FALSE, skips |-> plan.skips]
  BY DEF Opened, Kept
<1> HIDE DEF c
<1>5. c \in Cursors /\ c.attempt = row.attempt
  BY <1>3, <1>4, PositionsPos DEF Cursors
<1>6. t \in BOOLEAN
  OBVIOUS
<1> HIDE DEF t
<1>7. stream' \in Streams /\ stream'.pc = "subscribe" /\ stream'.cursor = c /\ stream'.terminal = t
  BY <1>2, <1>5, <1>6, OfflineFacts DEF Streams
<1>8. t => row.status = "terminal"
  BY DEF t
<1> QED
  BY <1>1, <1>5, <1>7, <1>8, Silent

LEMMA SubscribeSafe == ASSUME Safe, Subscribe PROVE Safe'
<1>1. PlanKept /\ UNCHANGED <<command, execution, client>> /\ wire' = wire /\ stream.pc = "subscribe"
  BY PlanSpent DEF Subscribe, At
<1>2. daemon = "up" /\ ~client.done
  BY <1>1, Live
<1>3. wire = <<>> /\ stream.cursor.attempt = row.attempt /\ (stream.terminal => row.status = "terminal")
  BY <1>1 DEF Safe, Subscribed
<1> DEFINE p == IF bus = "open" THEN Len(published) ELSE NoPosition
<1>4. p \in 0..NoPosition
  BY PublishedBound, Bounds DEF NoPosition
<1>5. stream' = [stream EXCEPT !.pc = "replay", !.position = p]
  BY DEF Subscribe
<1> HIDE DEF p
<1>6. stream' \in Streams /\ stream'.pc = "replay" /\ stream'.cursor = stream.cursor
      /\ stream'.terminal = stream.terminal
  BY <1>4, <1>5, StreamFields DEF Streams
<1> QED
  BY <1>1, <1>2, <1>3, <1>6, Silent

LEMMA ReplaySafe == ASSUME Safe, Replay PROVE Safe'
<1>1. PlanKept /\ UNCHANGED <<command, execution, client>> /\ stream.pc = "replay"
  BY PlanSpent DEF Replay, At
<1>2. Producer /\ ~client.done /\ client.last \in Positions /\ Known(client.last)
  BY <1>1, Live
<1>3. stream.cursor.attempt = row.attempt /\ (stream.terminal => row.status = "terminal")
  BY <1>1 DEF Safe, Subscribed
<1> DEFINE c == Opened(Logged, row.attempt, client.last, plan.skips)
           C == Advanced(c, Logged)
           W == Restart(c) \o Sent(c, Logged)
           p == CASE stream.terminal -> "end"
                  [] ~stream.terminal /\ stream.position # NoPosition -> "live"
                  [] OTHER -> "wait"
<1>4. stream' = [stream EXCEPT !.cursor = C, !.pc = p] /\ wire' = W
  BY <1>3 DEF Replay
<1>5. Told(c, Restart(c)) /\ Restart(c) \in Seq(Frames) /\ ~HasDone(Restart(c))
  BY <1>2, OpenedTold
<1> HIDE DEF c
<1>6. Told(C, W) /\ Older(C)
  BY <1>2, <1>5, ForwardLogged
<1>7. W \in Seq(Frames) /\ ~HasDone(W)
  <2>1. Logged \in SUBSET Events
    BY DEF Events
  <2> QED
    BY <1>2, <1>5, <2>1, SentNotDone
<1>8. p \in {"end", "live", "wait"} /\ (p = "end" => stream.terminal)
  BY StreamFields
<1> HIDE DEF C, W, p
<1>9. C \in Cursors
  BY <1>6 DEF Told, CursorOwn
<1>10. stream' \in Streams /\ stream'.pc = p /\ stream'.cursor = C
  BY <1>4, <1>8, <1>9, StreamFields DEF Streams
<1>11. row.status = "terminal" => Projected.status = "terminal"
  BY DEF Projected
<1> QED
  BY <1>1, <1>3, <1>4, <1>6, <1>7, <1>8, <1>10, <1>11, Forwards

\* Steps that poll the row
LEMMA PollSafe ==
  ASSUME Safe, NEW q \in {"lookup", "behind"}, PollRow(q), UNCHANGED <<command, execution, wire, client>>,
         PlanKept, stream.pc \in {"wait", "live"}
  PROVE  Safe'
<1> DEFINE p == IF Projected.status = "terminal" THEN "end" ELSE q
<1>1. UpdateAttempt(stream.cursor, row.attempt) = stream.cursor
  BY Live
<1>2. stream' = [stream EXCEPT !.cursor = stream.cursor, !.pc = p]
  BY <1>1 DEF PollRow
<1>3. p \in {"end", "lookup", "behind"} /\ (p = "end" => Projected.status = "terminal")
  OBVIOUS
<1> HIDE DEF p
<1>4. stream' \in Streams /\ stream'.pc = p /\ stream'.cursor = stream.cursor
  BY <1>2, <1>3, StreamFields DEF Streams
<1> QED
  BY <1>3, <1>4, Stays

LEMMA LookUpBusSafe == ASSUME Safe, LookUpBus PROVE Safe'
<1>1. PlanKept /\ UNCHANGED <<command, execution, wire, client>> /\ stream.pc = "lookup"
  BY PlanSpent DEF LookUpBus, At
<1>2. CASE bus = "open"
  <2>1. stream' = [stream EXCEPT !.pc = "catchup", !.position = Len(published)]
    BY <1>2 DEF LookUpBus
  <2>2. stream' \in Streams /\ stream'.pc = "catchup" /\ stream'.cursor = stream.cursor
    BY <2>1, StreamFields, PublishedBound DEF Streams
  <2> QED
    BY <1>1, <2>2, Stays
<1>3. CASE bus # "open"
  <2>1. stream' = [stream EXCEPT !.pc = "wait"]
    BY <1>3 DEF LookUpBus
  <2>2. stream' \in Streams /\ stream'.pc = "wait" /\ stream'.cursor = stream.cursor
    BY <2>1, StreamFields DEF Streams
  <2> QED
    BY <1>1, <2>2, Stays
<1> QED
  BY <1>2, <1>3

\* The log is forwarded with the cursor there is.
LEMMA DeliversSafe ==
  ASSUME Safe, UNCHANGED <<command, execution, client>>, PlanKept,
         stream.pc \notin {"offline", "lost", "closed", "subscribe", "replay"},
         wire' = wire \o Sent(stream.cursor, Logged), stream'.cursor = Advanced(stream.cursor, Logged),
         NEW p, stream'.pc = p, NEW n \in 0..NoPosition, NEW h \in [at : Positions, kind : Kinds],
         p \in {"live", "finish"}, p = "finish" => Projected.status = "terminal",
         stream' = [stream EXCEPT !.cursor = Advanced(stream.cursor, Logged), !.pc = p,
                      !.position = n, !.held = h, !.back = stream'.back],
         stream'.back \in {"live", "finish"}
  PROVE  Safe'
<1> DEFINE C == Advanced(stream.cursor, Logged)
           W == wire \o Sent(stream.cursor, Logged)
<1>1. /\ Producer /\ client.last \in Positions /\ wire \in Seq(Frames) /\ ~HasDone(wire)
      /\ Told(stream.cursor, wire)
  BY Live
<1>2. Told(C, W) /\ Older(C)
  BY <1>1, ForwardLogged
<1>3. W \in Seq(Frames) /\ ~HasDone(W)
  <2>1. Logged \in SUBSET Events
    BY DEF Events
  <2> QED
    BY <1>1, <2>1, SentNotDone
<1>4. wire' = W /\ stream'.cursor = C
  OBVIOUS
<1>5. C \in Cursors
  BY <1>2 DEF Told, CursorOwn
<1> DEFINE b == stream'.back
<1>6. stream' = [stream EXCEPT !.cursor = C, !.pc = p, !.position = n, !.held = h, !.back = b]
      /\ b \in {"live", "finish"}
  OBVIOUS
<1> HIDE DEF C, W, b
<1>7. stream' \in Streams
  BY <1>5, <1>6, StreamFields DEF Streams
<1> QED
  BY <1>2, <1>3, <1>4, <1>7, Forwards

LEMMA CatchUpSafe == ASSUME Safe, CatchUp PROVE Safe'
<1>1. PlanKept /\ UNCHANGED <<command, execution, client>> /\ stream.pc = "catchup"
  BY PlanSpent DEF CatchUp, At
<1>2. /\ wire' = wire \o Sent(stream.cursor, Logged)
      /\ stream' = [stream EXCEPT !.cursor = Advanced(stream.cursor, Logged), !.pc = "live"]
  BY DEF CatchUp, Delivers
<1> DEFINE C == Advanced(stream.cursor, Logged)
<1> HIDE DEF C
<1>3. /\ stream' = [stream EXCEPT !.cursor = C, !.pc = "live", !.position = stream.position,
                      !.held = stream.held, !.back = stream'.back]
      /\ stream'.back \in {"live", "finish"} /\ stream'.cursor = C /\ stream'.pc = "live"
  BY <1>2, StreamFields DEF Streams, C
<1> QED
  BY <1>1, <1>2, <1>3, StreamFields, DeliversSafe DEF C

LEMMA ReadBehindSafe == ASSUME Safe, ReadBehind PROVE Safe'
<1>1. PlanKept /\ UNCHANGED <<command, execution, client>> /\ stream.pc = "behind"
  BY PlanSpent DEF ReadBehind, At
<1>2. CASE IsBehind
  <2>2. /\ wire' = wire \o Sent(stream.cursor, Logged)
        /\ stream' = [stream EXCEPT !.cursor = Advanced(stream.cursor, Logged), !.pc = "live"]
    BY <1>2 DEF ReadBehind, Delivers
  <2> DEFINE C == Advanced(stream.cursor, Logged)
  <2> HIDE DEF C
  <2>3. /\ stream' = [stream EXCEPT !.cursor = C, !.pc = "live", !.position = stream.position,
                        !.held = stream.held, !.back = stream'.back]
        /\ stream'.back \in {"live", "finish"} /\ stream'.cursor = C /\ stream'.pc = "live"
    BY <2>2, StreamFields DEF Streams, C
  <2> QED
    BY <1>1, <2>2, <2>3, StreamFields, DeliversSafe DEF C
<1>3. CASE ~IsBehind
  <2>1. stream' = [stream EXCEPT !.pc = "live"] /\ wire' = wire
    BY <1>3 DEF ReadBehind, Moves
  <2>2. stream' \in Streams /\ stream'.pc = "live" /\ stream'.cursor = stream.cursor
    BY <2>1, StreamFields DEF Streams
  <2> QED
    BY <1>1, <2>1, <2>2, Stays
<1> QED
  BY <1>2, <1>3

LEMMA ConcatTail ==
  ASSUME NEW S, NEW s \in Seq(S), NEW t \in Seq(S)
  PROVE  /\ \A i \in DOMAIN t : i + Len(s) \in DOMAIN (s \o t) /\ (s \o t)[i + Len(s)] = t[i]
         /\ t # <<>> => (s \o t)[Len(s \o t)] = t[Len(t)]
<1> DEFINE W == s \o t
<1>1. /\ Len(W) = Len(s) + Len(t) /\ DOMAIN W = 1..(Len(s) + Len(t))
      /\ \A i \in 1..(Len(s) + Len(t)) : W[i] = IF i <= Len(s) THEN s[i] ELSE t[i - Len(s)]
  BY ConcatFacts
<1>2. Len(s) \in Nat /\ Len(t) \in Nat /\ DOMAIN t = 1..Len(t) /\ (t # <<>> => Len(t) >= 1)
  OBVIOUS
<1> HIDE DEF W
<1>3. \A n \in Nat : \A m \in Nat : \A i \in 1..m :
        i + n \in 1..(n + m) /\ ~(i + n <= n) /\ (i + n) - n = i
  OBVIOUS
<1>4. \A i \in DOMAIN t : i + Len(s) \in DOMAIN W /\ W[i + Len(s)] = t[i]
  BY <1>1, <1>2, <1>3
<1>5. t # <<>> => W[Len(W)] = t[Len(t)]
  <2>1. t # <<>> => Len(t) \in DOMAIN t /\ Len(t) + Len(s) = Len(W)
    BY <1>1, <1>2
  <2> QED
    BY <1>4, <2>1
<1> QED
  BY <1>4, <1>5 DEF W

LEMMA PairFacts ==
  ASSUME NEW S, NEW w \in Seq(S), NEW a \in S, NEW b \in S
  PROVE  <<a>> \o <<b>> = <<a, b>> /\ (w \o <<a>>) \o <<b>> = w \o <<a, b>>
<1>1. <<a>> \in Seq(S) /\ <<b>> \in Seq(S) /\ <<a, b>> \in Seq(S)
  OBVIOUS
<1>2. Len(<<a>>) = 1 /\ Len(<<b>>) = 1 /\ Len(<<a, b>>) = 2 /\ Len(w) \in Nat
  OBVIOUS
<1>3. <<a>> \o <<b>> = <<a, b>>
  <2> DEFINE l == <<a>> \o <<b>>
  <2>1. l \in Seq(S) /\ DOMAIN l = 1..2 /\ \A i \in 1..2 : l[i] = IF i <= 1 THEN <<a>>[i] ELSE <<b>>[i - 1]
    BY <1>1, <1>2, ConcatFacts
  <2> HIDE DEF l
  <2> DEFINE r == <<a, b>>
  <2>2. l[1] = a /\ l[2] = b
    BY <2>1
  <2>3. r \in Seq(S) /\ DOMAIN r = 1..2 /\ r[1] = a /\ r[2] = b
    OBVIOUS
  <2> HIDE DEF r
  <2>4. \A i \in 1..2 : l[i] = r[i]
    BY <2>2, <2>3
  <2>5. l = r
    BY <2>1, <2>3, <2>4
  <2> QED
    BY <2>5 DEF l, r
<1>4. (w \o <<a>>) \o <<b>> = w \o <<a, b>>
  <2> DEFINE m == w \o <<a>>
             l == m \o <<b>>
             r == w \o <<a, b>>
  <2>1. /\ m \in Seq(S) /\ Len(m) = Len(w) + 1
        /\ \A i \in 1..(Len(w) + 1) : m[i] = IF i <= Len(w) THEN w[i] ELSE <<a>>[i - Len(w)]
    BY <1>1, <1>2, ConcatFacts
  <2> HIDE DEF m
  <2>2. /\ l \in Seq(S) /\ Len(l) = Len(m) + 1 /\ DOMAIN l = 1..(Len(m) + 1)
        /\ \A i \in 1..(Len(m) + 1) : l[i] = IF i <= Len(m) THEN m[i] ELSE <<b>>[i - Len(m)]
    BY <1>1, <1>2, <2>1, ConcatFacts
  <2>3. /\ r \in Seq(S) /\ Len(r) = Len(w) + 2 /\ DOMAIN r = 1..(Len(w) + 2)
        /\ \A i \in 1..(Len(w) + 2) : r[i] = IF i <= Len(w) THEN w[i] ELSE <<a, b>>[i - Len(w)]
    BY <1>1, <1>2, ConcatFacts
  <2> HIDE DEF l, r
  <2>4. \A n \in Nat : \A i \in 1..(n + 2) :
          \/ i <= n /\ i <= n + 1 /\ i \in 1..(n + 1)
          \/ i = n + 1 /\ ~(i <= n) /\ i <= n + 1 /\ i - n = 1 /\ i \in 1..(n + 1)
          \/ i = n + 2 /\ ~(i <= n) /\ ~(i <= n + 1) /\ i - n = 2 /\ i - (n + 1) = 1
    OBVIOUS
  <2>5. Len(m) + 1 = Len(w) + 2
    BY <1>2, <2>1
  <2>6. <<a>>[1] = a /\ <<b>>[1] = b /\ <<a, b>>[1] = a /\ <<a, b>>[2] = b
    OBVIOUS
  <2>7. DOMAIN l = DOMAIN r
    BY <2>2, <2>3, <2>5
  <2>8. ASSUME NEW i \in 1..(Len(w) + 2) PROVE l[i] = r[i]
    <3>1. /\ l[i] = IF i <= Len(w) + 1 THEN m[i] ELSE <<b>>[i - (Len(w) + 1)]
          /\ r[i] = IF i <= Len(w) THEN w[i] ELSE <<a, b>>[i - Len(w)]
      BY <2>1, <2>2, <2>3, <2>5
    <3>2. CASE i <= Len(w) /\ i <= Len(w) + 1 /\ i \in 1..(Len(w) + 1)
      BY <2>1, <3>1, <3>2
    <3>3. CASE i = Len(w) + 1 /\ ~(i <= Len(w)) /\ i <= Len(w) + 1 /\ i - Len(w) = 1 /\ i \in 1..(Len(w) + 1)
      BY <2>1, <2>6, <3>1, <3>3
    <3>4. CASE i = Len(w) + 2 /\ ~(i <= Len(w)) /\ ~(i <= Len(w) + 1) /\ i - Len(w) = 2 /\ i - (Len(w) + 1) = 1
      BY <2>6, <3>1, <3>4
    <3> QED
      BY <1>2, <2>4, <3>2, <3>3, <3>4
  <2>9. l = r
    BY <2>2, <2>3, <2>5, <2>7, <2>8
  <2> QED
    BY <2>9 DEF l, r, m
<1> QED
  BY <1>3, <1>4

LEMMA RecvLaggedSafe == ASSUME Safe, RecvLagged PROVE Safe'
<1>1. /\ PlanKept /\ UNCHANGED <<command, execution, wire, client>>
      /\ stream.pc \in {"live", "await"}
  BY PlanSpent DEF RecvLagged, Receiving, At
<1> DEFINE p == Len(published) - Capacity
<1>2. stream' = [stream EXCEPT !.position = p, !.pc = NextPc] /\ Lagging
  BY DEF RecvLagged
<1>3. p \in 0..NoPosition
  <2>1. Len(published) \in 0..NoPosition /\ stream.position \in Nat /\ Capacity \in Nat
    BY PublishedBound, StreamFields, Bounds
  <2>2. Len(published) - stream.position > Capacity
    BY <1>2 DEF Lagging
  <2> QED
    BY <2>1, <2>2, Bounds DEF NoPosition
<1> HIDE DEF p
<1>4. NextPc \in {"live", "finish"} /\ (NextPc = "finish" => stream.pc = "await")
  BY <1>1 DEF NextPc
<1>5. stream' \in Streams /\ stream'.pc = NextPc /\ stream'.cursor = stream.cursor
  BY <1>2, <1>3, <1>4, StreamFields DEF Streams
<1>6. NextPc = "finish" => Projected.status = "terminal"
  BY <1>1, <1>4, Live
<1> QED
  BY <1>1, <1>4, <1>5, <1>6, Stays

LEMMA RecvEventSafe == ASSUME Safe, RecvEvent PROVE Safe'
<1>1. /\ PlanKept /\ UNCHANGED <<command, execution, client>>
      /\ stream.pc \in {"live", "await"} /\ stream.position < Len(published)
  BY PlanSpent DEF RecvEvent, Receiving, At
<1>2. /\ Producer /\ client.last \in Positions /\ wire \in Seq(Frames) /\ ~HasDone(wire)
      /\ Told(stream.cursor, wire) /\ Older(stream.cursor)
      /\ UpdateAttempt(stream.cursor, row.attempt) = stream.cursor
  BY <1>1, Live
<1> DEFINE n == stream.position + 1
           e == Event(row.attempt, stream.position, published[n])
           C == Advanced(stream.cursor, {e})
           W == wire \o Sent(stream.cursor, {e})
<1>3. n \in 0..NoPosition /\ n \in DOMAIN published /\ n - 1 = stream.position
  <2>1. /\ stream.position \in Nat /\ Len(published) \in 0..NoPosition
        /\ DOMAIN published = 1..Len(published)
    BY <1>2, StreamFields, PublishedBound, RowFacts
  <2> QED
    BY <1>1, <2>1, Bounds DEF NoPosition
<1>4. e \in Events /\ e.at[1] = row.attempt
  <2>1. e = Event(row.attempt, n - 1, published[n])
    BY <1>3
  <2>2. e \in EventsOf(row.attempt, published)
    BY <1>3, <2>1 DEF EventsOf
  <2> QED
    BY <2>2 DEF Events, Event
<1>5. IF MissingBefore(stream.cursor, e)
      THEN /\ stream' = [stream EXCEPT !.position = n, !.pc = "gap", !.held = e,
                           !.back = NextPc, !.cursor = stream.cursor]
           /\ wire' = wire
      ELSE /\ wire' = W /\ stream' = [stream EXCEPT !.position = n, !.pc = NextPc, !.cursor = C]
  BY <1>2 DEF RecvEvent
<1>6. e \in [at : Positions, kind : Kinds]
  <2>1. e.at \in Positions /\ e.kind \in Kinds /\ e = [at |-> e.at, kind |-> e.kind]
    BY <1>2, <1>4, EventFacts
  <2> HIDE DEF e
  <2> QED
    BY <2>1
<1>7. NextPc \in {"live", "finish"} /\ (NextPc = "finish" => stream.pc = "await")
  BY <1>1 DEF NextPc
<1>8. NextPc = "finish" => Projected.status = "terminal"
  BY <1>1, <1>7, Live
<1> HIDE DEF n, e, C, W
<1>9. CASE MissingBefore(stream.cursor, e)
  <2>1. wire' = wire
        /\ stream' = [stream EXCEPT !.position = n, !.pc = "gap", !.held = e,
                        !.back = NextPc, !.cursor = stream.cursor]
    BY <1>5, <1>9
  <2>2. /\ stream' \in Streams /\ stream'.pc = "gap" /\ stream'.back = NextPc
        /\ stream'.cursor = stream.cursor
    BY <1>3, <1>6, <1>7, <2>1, StreamFields DEF Streams
  <2> QED
    BY <1>1, <1>7, <1>8, <2>1, <2>2, Stays
<1>10. CASE ~MissingBefore(stream.cursor, e)
  <2>1. wire' = W /\ stream' = [stream EXCEPT !.position = n, !.pc = NextPc, !.cursor = C]
    BY <1>5, <1>10
  <2>2. Told(C, W) /\ Older(C)
    BY <1>2, <1>4, <1>10, ForwardOne DEF C, W
  <2>3. W \in Seq(Frames) /\ ~HasDone(W)
    <3>1. {e} \in SUBSET Events
      BY <1>4
    <3> QED
      BY <1>2, <3>1, SentNotDone DEF W
  <2>4. C \in Cursors
    BY <2>2 DEF Told, CursorOwn
  <2>5. stream' \in Streams /\ stream'.pc = NextPc /\ stream'.cursor = C
    BY <1>3, <1>7, <2>1, <2>4, StreamFields DEF Streams
  <2> QED
    BY <1>1, <1>7, <1>8, <2>1, <2>2, <2>3, <2>5, Forwards
<1> QED
  BY <1>9, <1>10

LEMMA RecoverGapSafe == ASSUME Safe, RecoverGap PROVE Safe'
<1>1. PlanKept /\ UNCHANGED <<command, execution, client>> /\ stream.pc = "gap"
  BY PlanSpent DEF RecoverGap, At
<1> DEFINE C == Advanced(stream.cursor, Logged)
<1>2. /\ wire' = wire \o Sent(stream.cursor, Logged)
      /\ stream' = [stream EXCEPT !.cursor = C, !.pc = stream.back, !.held = Offline.held,
                      !.back = "live"]
  BY DEF RecoverGap
<1> HIDE DEF C
<1>3. /\ stream' = [stream EXCEPT !.cursor = C, !.pc = stream.back, !.position = stream.position,
                      !.held = Offline.held, !.back = stream'.back]
      /\ stream'.back = "live" /\ stream'.cursor = C /\ stream'.pc = stream.back
  BY <1>2, StreamFields DEF Streams
<1>4. stream.back \in {"live", "finish"} /\ (stream.back = "finish" => Projected.status = "terminal")
  BY <1>1, Live, StreamFields
<1> QED
  BY <1>1, <1>2, <1>3, <1>4, StreamFields, OfflineFacts, DeliversSafe DEF C

LEMMA GapTimesOutSafe == ASSUME Safe, GapTimesOut PROVE Safe'
<1>1. PlanKept /\ UNCHANGED <<command, execution, wire, client>> /\ stream.pc = "gap"
      /\ stream' = [stream EXCEPT !.pc = "closed"]
  BY PlanSpent DEF GapTimesOut, At, Moves
<1>2. stream' \in Streams /\ stream'.pc = "closed" /\ stream'.cursor = stream.cursor
  BY <1>1, StreamFields DEF Streams
<1> QED
  BY <1>1, <1>2, Stays

LEMMA RecvClosedSafe == ASSUME Safe, RecvClosed PROVE Safe'
<1>1. PlanKept /\ UNCHANGED <<command, execution, wire, client>> /\ stream.pc = "live"
  BY PlanSpent DEF RecvClosed, At
<1> DEFINE p == IF Projected.status = "terminal" THEN "end" ELSE "wait"
<1>2. UpdateAttempt(stream.cursor, row.attempt) = stream.cursor
  BY <1>1, Live
<1>3. stream' = [stream EXCEPT !.position = NoPosition, !.cursor = stream.cursor, !.pc = p]
  BY <1>2 DEF RecvClosed
<1>4. p \in {"end", "wait"} /\ (p = "end" => Projected.status = "terminal")
  OBVIOUS
<1>5. NoPosition \in 0..NoPosition
  BY Bounds DEF NoPosition
<1> HIDE DEF p
<1>6. stream' \in Streams /\ stream'.pc = p /\ stream'.cursor = stream.cursor
  BY <1>3, <1>4, <1>5, StreamFields DEF Streams
<1> QED
  BY <1>1, <1>4, <1>6, Stays

LEMMA ReadTerminalRowSafe == ASSUME Safe, ReadTerminalRow PROVE Safe'
<1>1. PlanKept /\ UNCHANGED <<command, execution, wire, client>> /\ stream.pc = "end"
      /\ stream' = [stream EXCEPT !.pc = "finish", !.terminal = Projected.structured]
  BY PlanSpent DEF ReadTerminalRow, At
<1>2. Projected.structured \in BOOLEAN
  BY DEF Safe, Producer, ProducerType, Projected
<1>3. stream' \in Streams /\ stream'.pc = "finish" /\ stream'.cursor = stream.cursor
  BY <1>1, <1>2, StreamFields DEF Streams
<1>4. Projected.status = "terminal"
  BY <1>1, Live
<1> QED
  BY <1>1, <1>3, <1>4, Stays

LEMMA ReadAgainSafe == ASSUME Safe, ReadAgain PROVE Safe'
<1>1. PlanKept /\ UNCHANGED <<command, execution, wire, client>> /\ stream.pc = "await"
      /\ stream' = [stream EXCEPT !.pc = "finish"]
  BY PlanSpent DEF ReadAgain, At, Moves
<1>2. stream' \in Streams /\ stream'.pc = "finish" /\ stream'.cursor = stream.cursor
  BY <1>1, StreamFields DEF Streams
<1>3. Projected.status = "terminal"
  BY <1>1, Live
<1> QED
  BY <1>1, <1>2, <1>3, Stays

LEMMA DropSafe == ASSUME Safe, Drop PROVE Safe'
<1>1. PlanKept /\ UNCHANGED <<command, execution, wire, client>>
      /\ stream.pc \notin {"offline", "closed", "lost"}
      /\ stream' = [stream EXCEPT !.pc = "lost"]
  BY PlanSpent DEF Drop, Connected, Moves
<1>2. stream' \in Streams /\ stream'.pc = "lost"
  BY <1>1, StreamFields DEF Streams
<1>3. ~client.done /\ ~HasDone(wire)
  BY <1>1, Live
<1> QED
  BY <1>1, <1>2, <1>3, Silent

\* The stream ends: frames that are not events are the last.
LEMMA EndsSafe ==
  ASSUME Safe, UNCHANGED <<command, execution, client>>, PlanKept, stream.pc \in {"finish", "await"},
         NEW C, NEW w \in Seq(Frames), Told(C, w), Older(C), NEW u \in Seq(Frames),
         \A i \in DOMAIN u : u[i].kind # "restart" /\ (u[i].kind = "done" \/ u[i].at = Nowhere),
         u # <<>>,
         wire' = w \o u, stream' = [stream EXCEPT !.cursor = C, !.pc = "closed"],
         stream.terminal => \/ C.done # Nowhere \/ C.status
                            \/ \E i \in DOMAIN u : u[i].kind = "status",
         stream.terminal /\ u[Len(u)].at # Nowhere => C.done # Nowhere
  PROVE  Safe'
<1> DEFINE W == w \o u
<1>1. Told(C, W)
  BY EndFrames
<1>2. /\ W \in Seq(Frames) /\ Len(W) = Len(w) + Len(u) /\ DOMAIN W = 1..(Len(w) + Len(u))
      /\ \A i \in 1..(Len(w) + Len(u)) : W[i] = IF i <= Len(w) THEN w[i] ELSE u[i - Len(w)]
  BY ConcatFacts
<1>3. Len(w) \in Nat /\ Len(u) \in Nat /\ Len(u) >= 1 /\ DOMAIN u = 1..Len(u)
  OBVIOUS
<1> HIDE DEF W
<1>4. \A i \in DOMAIN u : i + Len(w) \in DOMAIN W /\ W[i + Len(w)] = u[i]
  BY ConcatTail DEF W
<1>5. W[Len(W)] = u[Len(u)]
  BY ConcatTail DEF W
<1>6. wire' = W
  BY DEF W
<1>7. C \in Cursors
  BY DEF Told, CursorOwn
<1>8. /\ stream' \in Streams /\ stream'.pc = "closed" /\ stream'.cursor = C
      /\ stream'.terminal = stream.terminal
  BY <1>7, StreamFields DEF Streams
<1>9. EndsTrue'
  <2>1. Projected.status = "terminal" /\ Producer
    BY Live
  <2>2. Projected'.status = "terminal"
    BY <2>1, SameFacts
  <2>3. stream.terminal => \/ C.done # Nowhere \/ C.status
                           \/ \E i \in DOMAIN W : W[i].kind = "status"
    BY <1>4
  <2>4. stream.terminal /\ W[Len(W)].at # Nowhere => C.done # Nowhere
    BY <1>5
  <2> QED
    BY <1>6, <1>8, <2>2, <2>3, <2>4 DEF EndsTrue
<1> QED
  BY <1>1, <1>2, <1>6, <1>8, <1>9, Follows

LEMMA FinishLogSafe == ASSUME Safe, FinishLog PROVE Safe'
<1>1. PlanKept /\ UNCHANGED <<command, execution, client>> /\ stream.pc = "finish"
  BY PlanSpent DEF FinishLog, At
<1> DEFINE C == Advanced(stream.cursor, Logged)
           w == wire \o Sent(stream.cursor, Logged)
<1>2. /\ Producer /\ client.last \in Positions /\ wire \in Seq(Frames) /\ ~HasDone(wire)
      /\ Told(stream.cursor, wire) /\ Projected.status = "terminal"
  BY <1>1, Live
<1>3. Told(C, w) /\ Older(C)
  BY <1>2, ForwardLogged
<1>4. w \in Seq(Frames) /\ ~HasDone(w)
  <2>1. Logged \in SUBSET Events
    BY DEF Events
  <2> QED
    BY <1>2, <2>1, SentNotDone
<1>5. /\ wire' = IF EndsNow(C) THEN Append(w, FinalDone(C)) ELSE w
      /\ stream' = [stream EXCEPT !.cursor = C, !.pc = IF EndsNow(C) THEN "closed" ELSE "await"]
  BY DEF FinishLog
<1> HIDE DEF C, w
<1>6. C \in Cursors
  BY <1>3 DEF Told, CursorOwn
<1>7. CASE EndsNow(C)
  <2> DEFINE f == FinalDone(C)
             u == <<f>>
  <2>1. f \in Frames /\ f.kind = "done"
    <3>1. C.done \in Positions /\ C.attempt \in 0..MaxAttempts /\ C.next \in 0..MaxOutput + 2
      BY <1>6 DEF Cursors
    <3>2. C.next \in 0..MaxOutput + 3
      BY <3>1, Bounds
    <3>3. <<C.attempt, C.next>> \in Positions
      BY <3>1, <3>2 DEF Positions
    <3> QED
      BY <3>1, <3>3, KindsFacts DEF FinalDone, Frames
  <2> HIDE DEF f
  <2>2. u \in Seq(Frames) /\ u # <<>> /\ Len(u) = 1 /\ DOMAIN u = {1} /\ u[1] = f
    BY <2>1
  <2>3. wire' = w \o u
    BY <1>4, <1>5, <1>7, <2>1 DEF f
  <2>4. stream' = [stream EXCEPT !.cursor = C, !.pc = "closed"]
    BY <1>5, <1>7
  <2>5. stream.terminal => C.done # Nowhere
    BY <1>7 DEF EndsNow
  <2>6. \A i \in DOMAIN u : u[i].kind # "restart" /\ (u[i].kind = "done" \/ u[i].at = Nowhere)
    BY <2>1, <2>2
  <2> HIDE DEF u
  <2> QED
    BY <1>1, <1>3, <1>4, <2>2, <2>3, <2>4, <2>5, <2>6, EndsSafe
<1>8. CASE ~EndsNow(C)
  <2>1. wire' = w /\ stream' = [stream EXCEPT !.cursor = C, !.pc = "await"]
    BY <1>5, <1>8
  <2>2. stream' \in Streams /\ stream'.pc = "await" /\ stream'.cursor = C
    BY <1>6, <2>1, StreamFields DEF Streams
  <2> QED
    BY <1>1, <1>2, <1>3, <1>4, <2>1, <2>2, Forwards
<1> QED
  BY <1>7, <1>8

LEMMA LogDeadlineSafe == ASSUME Safe, LogDeadline PROVE Safe'
<1>1. PlanKept /\ UNCHANGED <<command, execution, client>> /\ stream.pc = "await"
      /\ stream' = [stream EXCEPT !.pc = "closed"]
  BY PlanSpent DEF LogDeadline, At, Moves
<1>2. /\ wire \in Seq(Frames) /\ Told(stream.cursor, wire) /\ Older(stream.cursor)
  BY <1>1, Live
<1> DEFINE s == Event(0, 0, "status")
           f == Event(0, 0, "done")
           u == (IF stream.cursor.status THEN <<>> ELSE <<s>>) \o <<f>>
<1>3. /\ s \in Frames /\ s.kind = "status" /\ s.at = Nowhere
      /\ f \in Frames /\ f.kind = "done" /\ f.at = Nowhere
  BY PositionsPos, KindsFacts DEF Event, Nowhere, Frames
<1> HIDE DEF s, f
<1>4. /\ u \in Seq(Frames) /\ u # <<>> /\ u[Len(u)] = f
      /\ \A i \in DOMAIN u : u[i] \in {s, f}
      /\ ~stream.cursor.status => 1 \in DOMAIN u /\ u[1] = s
  <2>1. CASE stream.cursor.status
    <3>1. u = <<f>>
      BY <1>3, <2>1
    <3> QED
      BY <1>3, <2>1, <3>1
  <2>2. CASE ~stream.cursor.status
    <3>1. u = <<s, f>>
      BY <1>2, <1>3, <2>2, PairFacts
    <3> HIDE DEF u
    <3> QED
      BY <1>3, <2>2, <3>1
  <2> QED
    BY <2>1, <2>2
<1>5. wire' = wire \o u
  <2>1. wire' = (wire \o (IF stream.cursor.status THEN <<>> ELSE <<s>>)) \o <<f>>
    BY DEF LogDeadline, s, f
  <2>2. CASE stream.cursor.status
    <3>1. u = <<f>>
      BY <1>3, <2>2
    <3>2. wire \o <<>> = wire
      BY <1>2
    <3> QED
      BY <2>1, <2>2, <3>1, <3>2
  <2>3. CASE ~stream.cursor.status
    <3>1. u = <<s, f>>
      BY <1>2, <1>3, <2>3, PairFacts
    <3>2. (wire \o <<s>>) \o <<f>> = wire \o <<s, f>>
      <4>1. wire \in Seq(Frames) /\ s \in Frames /\ f \in Frames
        BY <1>2, <1>3
      <4> QED
        BY ONLY <4>1, PairFacts
    <3> QED
      BY <2>1, <2>3, <3>1, <3>2
  <2> QED
    BY <2>2, <2>3
<1> HIDE DEF u
<1>6. stream' = [stream EXCEPT !.cursor = stream.cursor, !.pc = "closed"]
  BY <1>1, StreamFields DEF Streams
<1>7. \A i \in DOMAIN u : u[i].kind # "restart" /\ (u[i].kind = "done" \/ u[i].at = Nowhere)
  BY <1>3, <1>4
<1>8. stream.cursor.status \/ \E i \in DOMAIN u : u[i].kind = "status"
  BY <1>3, <1>4
<1>9. u[Len(u)].at = Nowhere
  BY <1>3, <1>4
<1> QED
  BY <1>1, <1>2, <1>4, <1>5, <1>6, <1>7, <1>8, <1>9, EndsSafe

-----------------------------------------------------------------------------
(* The client has what came through; a crash and a restart *)

\* Of the frames that came through, the last with an id is where the client resumes.
LEMMA ReceivedFacts ==
  ASSUME Safe, stream.pc # "offline", NEW n \in 0..Len(wire)
  PROVE  LET r == Received(SubSeq(wire, 1, n)) IN
         /\ r \in [last : Positions, status : BOOLEAN, done : BOOLEAN]
         /\ client.status => r.status
         /\ ~r.done => \/ r.last = client.last
                       \/ \E k \in Ids(wire) : /\ r.last = wire[k].at
                                               /\ wire[k].kind = "status" => r.status
<1> DEFINE f == SubSeq(wire, 1, n)
           ids == {i \in DOMAIN f : f[i].at # Nowhere /\ f[i].kind # "restart"}
           last == IF ids = {} THEN client.last ELSE f[CHOOSE i \in ids : \A j \in ids : j <= i].at
           status == client.status \/ \E i \in DOMAIN f : f[i].kind = "status"
           done == \E i \in DOMAIN f : f[i].kind = "done"
           r == Received(f)
<1>1. /\ wire \in Seq(Frames) /\ client.last \in Positions /\ client.status \in BOOLEAN
      /\ \A i \in DOMAIN wire : wire[i] \in Frames /\ wire[i].at \in Positions
  BY FramesPlaced DEF Safe, StreamType
<1>2. /\ DOMAIN f = 1..n /\ n \in Nat /\ DOMAIN wire = 1..Len(wire) /\ Len(wire) \in Nat
      /\ \A i \in 1..n : f[i] = wire[i] /\ i \in DOMAIN wire
  BY <1>1
<1> HIDE DEF f
<1>0. r = [last |-> last, status |-> status, done |-> done]
  BY DEF Received
<1>3. r.last = last /\ r.status = status /\ r.done = done
      /\ r = [last |-> r.last, status |-> r.status, done |-> r.done]
  <2> HIDE DEF last, status, done, r
  <2> QED
    BY <1>0
<1>4. ids \in SUBSET (0..n)
  BY <1>2
<1>5. ids # {} => \E k \in ids : last = f[k].at
  <2>1. SUFFICES ASSUME ids # {} PROVE \E k \in ids : last = f[k].at
    OBVIOUS
  <2> DEFINE k == CHOOSE i \in ids : \A j \in ids : j <= i
  <2>2. last = f[k].at
    BY <2>1
  <2> HIDE DEF ids, last
  <2>3. \E i \in ids : \A j \in ids : j <= i
    BY <1>2, <1>4, <2>1, GreatestNat
  <2>4. k \in ids
    BY <2>3
  <2> HIDE DEF k
  <2> QED
    BY <2>2, <2>4
<1>6. last \in Positions
  <2>1. CASE ids = {}
    BY <1>1, <2>1
  <2>2. CASE ids # {}
    <3>1. PICK k \in ids : last = f[k].at
      BY <1>5, <2>2
    <3>2. k \in 1..n
      BY <1>2
    <3> HIDE DEF last
    <3> QED
      BY <1>1, <1>2, <3>1, <3>2
  <2> QED
    BY <2>1, <2>2
<1>7. status \in BOOLEAN /\ done \in BOOLEAN
  OBVIOUS
<1>8. client.status => status
  OBVIOUS
<1>9. ASSUME ~done
      PROVE  \/ last = client.last
             \/ \E k \in Ids(wire) : last = wire[k].at /\ (wire[k].kind = "status" => status)
  <2>1. CASE ids = {}
    BY <2>1
  <2>2. CASE ids # {}
    <3>1. PICK k \in ids : last = f[k].at
      BY <1>5, <2>2
    <3>2. k \in 1..n /\ f[k].at # Nowhere /\ f[k].kind # "restart" /\ f[k].kind # "done" /\ k \in DOMAIN f
      BY <1>2, <1>9
    <3>3. f[k] = wire[k] /\ wire[k] \in Frames /\ k \in DOMAIN wire
      BY <1>1, <1>2, <3>2
    <3>4. wire[k].kind \in {"output", "status"}
      BY <3>2, <3>3 DEF Frames, Kinds
    <3>5. k \in Ids(wire)
      BY <3>2, <3>3, <3>4 DEF Ids
    <3>6. wire[k].kind = "status" => status
      BY <3>2, <3>3
    <3> HIDE DEF last, status
    <3> QED
      BY <3>1, <3>3, <3>5, <3>6
  <2> QED
    BY <2>1, <2>2
<1> HIDE DEF last, status, done, r
<1>10. r \in [last : Positions, status : BOOLEAN, done : BOOLEAN]
  BY <1>3, <1>6, <1>7
<1> QED
  BY <1>3, <1>8, <1>9, <1>10 DEF r, f

LEMMA ReceiveSafe == ASSUME Safe, Receive PROVE Safe'
<1>1. Producer /\ StreamType /\ Subscribed /\ EndsTrue /\ Behind
  BY DEF Safe
<1>2. UNCHANGED <<command, execution>> /\ PlanKept /\ stream' = Offline /\ wire' = <<>>
      /\ stream.pc \in {"closed", "lost"}
  BY PlanSpent DEF Receive
<1>3. /\ row' = row /\ bus' = bus /\ worker' = worker /\ published' = published /\ log' = log
      /\ daemon' = daemon
  BY <1>2 DEF command, execution
<1>4. PICK n \in 0..Len(wire) : client' = Received(SubSeq(wire, 1, n))
  BY DEF Receive
<1>5. /\ client' \in [last : Positions, status : BOOLEAN, done : BOOLEAN]
      /\ client.status => client'.status
      /\ ~client'.done =>
           \/ client'.last = client.last
           \/ \E k \in Ids(wire) : /\ client'.last = wire[k].at
                                   /\ wire[k].kind = "status" => client'.status
  BY <1>2, <1>4, ReceivedFacts
<1>6. Producer'
  BY <1>1, <1>2, SameFacts
<1>7. <<>> \in Seq(Frames) /\ ~HasDone(<<>>) /\ Ids(<<>>) = {}
  BY DEF HasDone, Ids
<1>8. StreamType'
  BY <1>2, <1>5, <1>7, OfflineFacts DEF StreamType
<1>9. Subscribed'
  BY <1>2, OfflineFacts DEF Subscribed, Delivering
<1>10. EndsTrue'
  <2>1. ~HasDone(wire') /\ stream'.pc = "offline"
    BY <1>2, <1>7, OfflineFacts
  <2> QED
    BY <2>1 DEF EndsTrue
<1>11. ~client.done /\ Known(client.last)
  BY <1>1, <1>2 DEF Subscribed, Behind
<1>12. ASSUME ~client'.done PROVE Known(client'.last)
  BY <1>1, <1>5, <1>11, <1>12 DEF Behind
<1>13. ASSUME ~client'.done, bus # "none", NEW i \in DOMAIN published, published[i] = "status",
              ~Before(client'.last, <<row.attempt, i - 1>>)
       PROVE  client'.status
  <2>1. CASE client'.last = client.last
    BY <1>1, <1>5, <1>11, <1>13, <2>1 DEF Behind
  <2>2. CASE \E k \in Ids(wire) : /\ client'.last = wire[k].at
                                  /\ wire[k].kind = "status" => client'.status
    <3>1. PICK k \in Ids(wire) : client'.last = wire[k].at /\ (wire[k].kind = "status" => client'.status)
      BY <2>2
    <3>2. /\ Known(wire[k].at)
          /\ wire[k].at[1] = row.attempt => wire[k].kind = published[wire[k].at[2] + 1]
      BY <1>1, <1>13 DEF Behind
    <3>3. wire[k].at \in Pos /\ wire[k].kind \in {"output", "status"}
      BY <1>1, FramesPlaced, PositionsPos DEF Ids
    <3>4. Unfinished /\ Story(row.attempt) = published
      BY <1>13 DEF Unfinished, Story
    <3>5. /\ wire[k].at[1] \in Nat /\ wire[k].at[2] \in Nat /\ wire[k].at[1] <= row.attempt
          /\ (wire[k].at[1] = row.attempt => wire[k].at[2] < Len(published))
      BY <3>2, <3>3, <3>4 DEF Known, Pos
    <3>6. i \in Nat /\ i >= 1 /\ Len(published) \in Nat /\ DOMAIN published = 1..Len(published)
      BY <1>1, <1>13, RowFacts
    <3>7. ~(wire[k].at[1] < row.attempt) /\ ~(wire[k].at[1] = row.attempt /\ wire[k].at[2] < i - 1)
      BY <1>13, <3>1 DEF Before
    <3>8. wire[k].at[1] = row.attempt /\ wire[k].at[2] + 1 >= i /\ wire[k].at[2] + 1 \in DOMAIN published
      <4>1. row.attempt \in Nat
        BY <1>1, RowFacts
      <4>2. wire[k].at[1] = row.attempt
        BY <3>5, <3>7, <4>1
      <4>3. wire[k].at[2] < Len(published) /\ ~(wire[k].at[2] < i - 1)
        BY <3>5, <3>7, <4>2
      <4>4. \A p, l \in Nat : p < l /\ ~(p < i - 1) => p + 1 >= i /\ p + 1 \in 1..l
        BY ONLY <3>6
      <4> QED
        BY ONLY <3>5, <3>6, <4>2, <4>3, <4>4
    <3>9. CASE wire[k].at[2] + 1 = i
      BY <1>13, <3>1, <3>2, <3>8, <3>9
    <3>10. CASE i < wire[k].at[2] + 1
      <4>1. published[wire[k].at[2] + 1] = "done"
        BY <1>1, <1>13, <3>8, <3>10 DEF Producer, Stories, Shaped
      <4> QED
        BY <3>2, <3>3, <3>8, <4>1
    <3> QED
      BY <3>5, <3>6, <3>8, <3>9, <3>10
  <2> QED
    BY <1>5, <1>13, <2>1, <2>2
<1>14. Behind'
  <2>1. Known(client'.last) => Known(client.last)'
    BY <1>3 DEF Known, Unfinished, Story
  <2>2. Ids(wire)' = {}
    BY <1>2, <1>7
  <2> QED
    BY <1>3, <1>12, <1>13, <2>1, <2>2 DEF Behind
<1> QED
  BY <1>6, <1>8, <1>9, <1>10, <1>14 DEF Safe

\* A crash ends nothing that more was to come of, except a queued command's wait.
LEMMA CrashKnown ==
  ASSUME Producer, Crash, NEW p \in Pos, Known(p)
  PROVE  Known(p)'
<1>1. row' = row /\ log' = log /\ worker' = "idle" /\ bus' = "none" /\ daemon = "up"
  BY DEF Crash, command
<1>2. CASE row.status = "queued"
  <2>1. worker = "idle" /\ bus = "none"
    BY <1>1, <1>2 DEF Producer, WorkerSees
  <2>2. Story(row.attempt)' = Story(row.attempt)
    BY <1>1, <2>1 DEF Story
  <2> QED
    BY <1>1, <1>2, <2>2 DEF Known, Unfinished
<1>3. CASE row.status # "queued"
  BY <1>1, <1>3 DEF Known, Unfinished
<1> QED
  BY <1>2, <1>3

LEMMA CrashSafely == ASSUME Safe, Crash PROVE Safe'
<1>1. Producer /\ StreamType /\ Subscribed /\ EndsTrue /\ Behind
  BY DEF Safe
<1>2. /\ row' = row /\ sidecar' = sidecar /\ bus' = "none" /\ wire' = wire /\ client' = client
      /\ stream' = IF stream.pc = "offline" THEN stream ELSE [Offline EXCEPT !.pc = "lost"]
  BY DEF Crash, command
<1>3. Producer'
  BY <1>1, CrashSafe
<1> DEFINE l == [Offline EXCEPT !.pc = "lost"]
<1>4. l \in Streams /\ l.pc = "lost" /\ l.terminal = FALSE
  BY OfflineFacts DEF Streams
<1> HIDE DEF l
<1>5. stream' = IF stream.pc = "offline" THEN stream ELSE l
  BY <1>2 DEF l
<1>6. StreamType'
  BY <1>1, <1>2, <1>4, <1>5 DEF StreamType
<1>7. Subscribed'
  BY <1>1, <1>2, <1>4, <1>5 DEF Subscribed, Delivering
<1>8. Projected' = Projected
  BY <1>2 DEF Projected
<1>9. EndsTrue'
  <2>1. CASE stream.pc = "offline"
    <3>1. stream' = stream
      BY <1>5, <2>1
    <3> QED
      BY <1>1, <1>2, <1>8, <3>1 DEF EndsTrue, HasDone
  <2>2. CASE stream.pc # "offline"
    <3>1. stream' = l
      BY <1>5, <2>2
    <3> QED
      BY <1>1, <1>2, <1>4, <1>8, <3>1 DEF EndsTrue, HasDone
  <2> QED
    BY <2>1, <2>2
<1>10. Behind'
  <2>1. ~client.done => Known(client.last)'
    <3>1. client.last \in Pos
      BY <1>1, PositionsPos DEF StreamType
    <3> QED
      BY <1>1, <1>2, <3>1, CrashKnown DEF Behind
  <2>2. ASSUME NEW i \in Ids(wire) PROVE Known(wire[i].at)'
    <3>1. wire[i].at \in Pos
      BY <1>1, FramesPlaced, PositionsPos DEF Ids
    <3> QED
      BY <1>1, <1>2, <3>1, CrashKnown DEF Behind
  <2> QED
    BY <1>2, <2>1, <2>2 DEF Behind, Ids
<1> QED
  BY <1>3, <1>6, <1>7, <1>9, <1>10 DEF Safe

LEMMA BootKnown ==
  ASSUME Producer, Boot, NEW p \in Pos, Known(p)
  PROVE  Known(p)'
<1>1. bus = "none" /\ bus' = "none" /\ daemon = "down"
  BY DEF Boot, Producer, Stories
<1>2. row'.attempt \in {row.attempt, row.attempt + 1}
      /\ (row'.attempt # row.attempt => row'.status = "queued")
  BY DEF Boot, Producer, ProducerType
<1>3. p[1] \in Nat /\ p[1] <= row.attempt /\ row.attempt \in Nat
  BY RowFacts DEF Pos, Known
<1>4. p[1] <= row'.attempt
  BY <1>2, <1>3
<1>5. ASSUME Unfinished', p[1] = row'.attempt PROVE p[2] < Len(Story(p[1])')
  <2>1. row'.attempt = row.attempt
    BY <1>2, <1>3, <1>5
  <2>2. row'.status = "queued"
    BY <1>1, <1>5 DEF Unfinished, Boot
  <2>3. row.status = "queued" /\ log' = log
    <3>1. row \in [status : {"queued", "running", "terminal"}, attempt : 1..MaxAttempts, structured : BOOLEAN]
      BY DEF Producer, ProducerType
    <3>2. CASE row' = [row EXCEPT !.status = "terminal", !.structured = TRUE]
      BY <2>2, <3>1, <3>2
    <3>3. CASE row' = [row EXCEPT !.status = "queued", !.attempt = @ + 1]
      <4>1. row'.attempt = row.attempt + 1
        BY <3>1, <3>3
      <4> QED
        BY <1>3, <2>1, <4>1
    <3>4. CASE row.status = "terminal" /\ row' = [row EXCEPT !.structured = TRUE]
      BY <2>2, <3>1, <3>4
    <3>5. CASE row.status = "queued" /\ UNCHANGED <<row, log>>
      BY <3>5
    <3>6. CASE row.status = "terminal" /\ UNCHANGED <<row, log>>
      BY <2>2, <3>6
    <3> QED
      BY <3>2, <3>3, <3>4, <3>5, <3>6 DEF Boot
  <2>4. Unfinished
    BY <2>3 DEF Unfinished
  <2>5. Story(p[1])' = Story(p[1])
    BY <1>1, <2>3 DEF Story
  <2> QED
    BY <1>5, <2>1, <2>4, <2>5 DEF Known
<1> QED
  BY <1>4, <1>5 DEF Known

LEMMA BootSafely == ASSUME Safe, Boot PROVE Safe'
<1>1. Producer /\ StreamType /\ Subscribed /\ EndsTrue /\ Behind
  BY DEF Safe
<1>2. /\ bus' = "none" /\ wire' = wire /\ client' = client /\ stream' = stream
      /\ daemon = "down" /\ daemon' = "up"
  BY <1>1 DEF Boot, connection, Producer, Stories
<1>3. Producer'
  BY <1>1, BootSafe
<1>4. StreamType'
  BY <1>1, <1>2 DEF StreamType
<1>5. stream.pc \in {"offline", "lost"}
  BY <1>1, <1>2 DEF Subscribed
<1>6. Subscribed'
  BY <1>1, <1>2, <1>5 DEF Subscribed, Delivering
<1>7. Projected.status = "terminal" => Projected'.status = "terminal"
  BY <1>1 DEF Boot, Projected, Producer, ProducerType
<1>8. EndsTrue'
  BY <1>1, <1>2, <1>7 DEF EndsTrue, HasDone
<1>9. Behind'
  <2>1. ~client.done => Known(client.last)'
    <3>1. client.last \in Pos
      BY <1>1, PositionsPos DEF StreamType
    <3> QED
      BY <1>1, <1>2, <3>1, BootKnown DEF Behind
  <2>2. ASSUME NEW i \in Ids(wire) PROVE Known(wire[i].at)'
    <3>1. wire[i].at \in Pos
      BY <1>1, FramesPlaced, PositionsPos DEF Ids
    <3> QED
      BY <1>1, <1>2, <3>1, BootKnown DEF Behind
  <2> QED
    BY <1>2, <2>1, <2>2 DEF Behind, Ids
<1> QED
  BY <1>3, <1>4, <1>6, <1>8, <1>9 DEF Safe

-----------------------------------------------------------------------------
(* The invariant is inductive *)

LEMMA InitSafe == Init => Safe
<1> SUFFICES ASSUME Init PROVE Safe
  OBVIOUS
<1> USE DEF Init
<1>1. plan \in [run : BOOLEAN, skips : SUBSET Nat, left : [DOMAIN plan.left -> Nat]]
  BY StreamAssumption
<1>2. 1 \in 1..MaxAttempts /\ <<>> \in Seq(Kinds) /\ <<>> \in Seq(Frames)
  BY Bounds
<1>3. ProducerType
  BY <1>1, <1>2 DEF ProducerType
<1>4. \A a \in 1..MaxAttempts : log[a] = <<>>
  OBVIOUS
<1>5. Stories
  BY <1>4, ShapedEmpty DEF Stories
<1>6. WorkerSees
  BY <1>2, <1>4 DEF WorkerSees, Written
<1>7. ~HasDone(wire) /\ Ids(wire) = {}
  BY DEF HasDone, Ids
<1>8. StreamType
  BY <1>2, OfflineFacts, PositionsPos DEF StreamType
<1>9. Subscribed
  BY OfflineFacts DEF Subscribed, Delivering
<1>10. EndsTrue
  BY <1>7, OfflineFacts DEF EndsTrue
<1>11. Behind
  <2>1. Known(client.last)
    BY DEF Known, Nowhere
  <2> QED
    BY <1>7, <2>1 DEF Behind
<1> QED
  BY <1>3, <1>5, <1>6, <1>8, <1>9, <1>10, <1>11 DEF Safe, Producer

LEMMA StutterSafe == ASSUME Safe, UNCHANGED vars PROVE Safe'
<1>1. /\ row' = row /\ sidecar' = sidecar /\ log' = log /\ daemon' = daemon /\ worker' = worker
      /\ bus' = bus /\ published' = published /\ writes' = writes
      /\ stream' = stream /\ wire' = wire /\ client' = client /\ plan' = plan
  BY DEF vars, command, execution, connection
<1>2. Producer /\ PlanKept /\ UNCHANGED <<command, execution>> /\ UNCHANGED connection
  BY <1>1 DEF Safe, PlanKept, command, execution, connection
<1>3. Producer' /\ Grows
  BY <1>2, SameFacts
<1> QED
  BY <1>2, <1>3, ConnectionSame DEF Safe

LEMMA NextSafe == ASSUME Safe, Next PROVE Safe'
<1>1. CASE WorkerStep \/ Ending
  BY <1>1, ProducingSafe DEF WorkerStep, Ending, Producing
<1>2. CASE Crash
  BY <1>2, CrashSafely
<1>3. CASE Boot
  BY <1>3, BootSafely
<1>4. CASE Connect
  BY <1>4, ConnectSafe
<1>5. CASE Receive
  BY <1>5, ReceiveSafe
<1>6. CASE Drop
  BY <1>6, DropSafe
<1>7. CASE StreamStep
  <2>1. CASE WaitForWorker
    <3>1. /\ PollRow("lookup") /\ PlanKept /\ UNCHANGED <<command, execution, wire, client>>
          /\ stream.pc = "wait"
      BY <2>1, PlanSpent DEF WaitForWorker, At
    <3> QED
      BY <3>1, PollSafe
  <2>2. CASE PollStatus
    <3>1. /\ PollRow("behind") /\ PlanKept /\ UNCHANGED <<command, execution, wire, client>>
          /\ stream.pc = "live"
      BY <2>2, PlanSpent DEF PollStatus, At
    <3> QED
      BY <3>1, PollSafe
  <2>3. CASE Subscribe
    BY <2>3, SubscribeSafe
  <2>4. CASE Replay
    BY <2>4, ReplaySafe
  <2>5. CASE LookUpBus
    BY <2>5, LookUpBusSafe
  <2>6. CASE CatchUp
    BY <2>6, CatchUpSafe
  <2>7. CASE ReadBehind
    BY <2>7, ReadBehindSafe
  <2>8. CASE RecvLagged
    BY <2>8, RecvLaggedSafe
  <2>9. CASE RecvEvent
    BY <2>9, RecvEventSafe
  <2>10. CASE RecvClosed
    BY <2>10, RecvClosedSafe
  <2>11. CASE RecoverGap
    BY <2>11, RecoverGapSafe
  <2>12. CASE GapTimesOut
    BY <2>12, GapTimesOutSafe
  <2>13. CASE ReadTerminalRow
    BY <2>13, ReadTerminalRowSafe
  <2>14. CASE FinishLog
    BY <2>14, FinishLogSafe
  <2>15. CASE ReadAgain
    BY <2>15, ReadAgainSafe
  <2>16. CASE LogDeadline
    BY <2>16, LogDeadlineSafe
  <2> QED
    BY <1>7, <2>1, <2>2, <2>3, <2>4, <2>5, <2>6, <2>7, <2>8, <2>9, <2>10, <2>11, <2>12, <2>13, <2>14,
       <2>15, <2>16 DEF StreamStep
<1> QED
  BY <1>1, <1>2, <1>3, <1>4, <1>5, <1>6, <1>7 DEF Next

\* Producers, subscription and client never disagree: what the log, the bus and the
\* frames hold, and where the cursor and the client are.
THEOREM InductiveInvariant == Spec => []Safe
<1>1. Init => Safe
  BY InitSafe
<1>2. Safe /\ [Next]_vars => Safe'
  BY NextSafe, StutterSafe
<1> QED
  BY <1>1, <1>2, PTL DEF Spec

-----------------------------------------------------------------------------
(* What a client is told *)

\* The frames are the events after the base, in order, while there is a subscription.
LEMMA ToldMeans ==
  ASSUME Safe, Delivering
  PROVE  LET c == stream.cursor IN
         /\ Told(c, wire) /\ c.last \in Pos /\ Base(c) \in Pos /\ Identified = Ids(wire)
         /\ \A i \in Identified : wire[i] \in Events /\ wire[i].at \in Positions
         /\ (IF Restarted THEN Nowhere ELSE client.last) = Base(c)
         /\ Existing = Visible(c)
<1> DEFINE c == stream.cursor
<1>1. Producer /\ StreamType /\ Told(c, wire)
  BY DEF Safe, Subscribed
<1>2. c \in Cursors /\ client.last \in Positions
  BY <1>1, StreamFields DEF StreamType
<1>3. c.last \in Pos /\ Base(c) \in Pos
  BY <1>2, BaseFacts, PositionsPos DEF Cursors
<1>4. Identified = Ids(wire)
  BY DEF Identified, Ids
<1>5. \A i \in Identified : wire[i] \in Events /\ wire[i].at \in Positions
  BY <1>1, <1>4, EventFacts DEF Told, InStep, Visible
<1>6. c.only \in {0, row.attempt} /\ c.skips = plan.skips /\ row.attempt # 0
  BY <1>1, RowFacts DEF Told, CursorOwn
<1>7. wire # <<>> => Head(wire) = wire[1]
  BY <1>1 DEF StreamType
<1>8. CASE c.only = 0
  <2>1. ~Restarted
    BY <1>1, <1>7, <1>8 DEF Restarted, Told, InStep
  <2> QED
    BY <1>1, <1>3, <1>4, <1>5, <1>6, <1>8, <2>1 DEF Base, Existing, Visible, Events
<1>9. CASE c.only # 0
  <2>1. wire # <<>> /\ Head(wire) = Event(c.only, 0, "restart")
    BY <1>1, <1>7, <1>9 DEF Told, InStep
  <2>2. Restarted /\ Head(wire).at[1] = c.only
    BY <2>1 DEF Restarted, Event
  <2> QED
    BY <1>1, <1>3, <1>4, <1>5, <1>6, <1>9, <2>2 DEF Base, Existing, Visible, Events
<1> QED
  BY <1>8, <1>9

\* The position before frame i is the last of the frames before it, or the base.
LEMMA DeliveredFacts ==
  ASSUME Safe, Delivering, NEW i
  PROVE  LET d == Delivered(i) IN
         /\ d \in Pos /\ ~Before(d, Base(stream.cursor))
         /\ \A j \in Identified : j < i => ~Before(d, wire[j].at)
         /\ d = Base(stream.cursor) \/ \E j \in Identified : j < i /\ d = wire[j].at
<1> DEFINE base == Base(stream.cursor)
           S == {wire[j].at : j \in {k \in Identified : k < i}} \cup {base}
<1>1. /\ \A j \in Identified : wire[j].at \in Positions
      /\ (IF Restarted THEN Nowhere ELSE client.last) = base
  BY ToldMeans
<1>2. base \in Positions
  BY PositionsPos DEF Base, Safe, StreamType
<1>3. Delivered(i) = Latest(S)
  <2> HIDE DEF base
  <2> QED
    BY <1>1 DEF Delivered
<1> HIDE DEF base
<1>4. S \in SUBSET Positions /\ S # {}
  BY <1>1, <1>2
<1> DEFINE d == Latest(S)
<1>5. d \in S /\ \A q \in S : ~Before(d, q)
  <2> HIDE DEF S
  <2> QED
    BY <1>4, LatestFacts
<1> HIDE DEF d
<1>6. d \in Pos
  BY <1>4, <1>5, PositionsPos
<1>7. ~Before(d, base) /\ \A j \in Identified : j < i => ~Before(d, wire[j].at)
  BY <1>5
<1>8. d = base \/ \E j \in Identified : j < i /\ d = wire[j].at
  BY <1>5
<1> QED
  BY <1>3, <1>6, <1>7, <1>8 DEF d, base

LEMMA SafeInOrder == Safe => StreamInOrder
<1> SUFFICES ASSUME Safe, stream.pc # "lost", NEW i \in Identified
             PROVE  /\ Before(Delivered(i), wire[i].at)
                    /\ \A e \in Existing : ~(Before(Delivered(i), e.at) /\ Before(e.at, wire[i].at))
  BY DEF StreamInOrder
<1>1. Delivering
  <2>1. SUFFICES ASSUME stream.pc \in {"offline", "subscribe", "replay"} PROVE FALSE
    BY DEF Delivering
  <2>2. wire = <<>>
    BY <2>1 DEF Safe, Subscribed
  <2> QED
    BY <2>2 DEF Identified
<1> DEFINE c == stream.cursor
           d == Delivered(i)
<1>2. /\ InStep(c, wire) /\ c.last \in Pos /\ Base(c) \in Pos /\ Identified = Ids(wire)
      /\ \A j \in Identified : wire[j] \in Events /\ wire[j].at \in Positions
      /\ Existing = Visible(c)
  BY <1>1, ToldMeans DEF Told
<1>3. /\ d \in Pos /\ ~Before(d, Base(c))
      /\ \A j \in Identified : j < i => ~Before(d, wire[j].at)
      /\ d = Base(c) \/ \E j \in Identified : j < i /\ d = wire[j].at
  BY <1>1, DeliveredFacts
<1> HIDE DEF c, d
<1>4. /\ Before(Base(c), wire[i].at) /\ ~Before(c.last, wire[i].at)
      /\ \A j \in Identified : j < i => Before(wire[j].at, wire[i].at)
      /\ \A j \in Identified : i < j => Before(wire[i].at, wire[j].at)
      /\ wire[i].at \in Pos
  BY <1>2, PositionsPos DEF InStep
<1>5. Before(d, wire[i].at)
  BY <1>3, <1>4
<1>6. ASSUME NEW e \in Existing, Before(d, e.at), Before(e.at, wire[i].at) PROVE FALSE
  <2>1. e \in Visible(c) /\ e.at \in Pos
    BY <1>2, EventFacts DEF Visible, Safe
  <2>2. Before(Base(c), e.at)
    BY <1>2, <1>3, <1>6, <2>1, BeforeOrder
  <2>3. ~Before(c.last, e.at)
    BY <1>2, <1>4, <1>6, <2>1, BeforeOrder
  <2>4. PICK k \in Ids(wire) : wire[k] = e
    BY <1>2, <2>1, <2>2, <2>3 DEF InStep
  <2>5. k \in Nat /\ i \in Nat
    BY <1>2 DEF Ids, Safe, StreamType
  <2>6. k # i /\ ~(i < k)
    BY <1>2, <1>4, <1>6, <2>1, <2>4, BeforeOrder
  <2>7. k < i
    BY <2>5, <2>6
  <2> QED
    BY <1>2, <1>3, <1>6, <2>4, <2>7
<1> QED
  BY <1>5, <1>6 DEF d

\* What the cursor has seen of the end of the attempt means that the status was there.
LEMMA StatusWasThere ==
  ASSUME Safe, NEW c, EndSeen(c), c \in Cursors, c.status \/ c.done # Nowhere
  PROVE  \E g \in Events : g.at[1] = row.attempt /\ g.kind = "status" /\ ~Before(c.last, g.at)
<1>1. CASE c.status
  BY <1>1 DEF EndSeen
<1>2. CASE c.done # Nowhere
  <2>1. PICK e \in Events : /\ e.at[1] = row.attempt /\ e.kind = "done"
                            /\ ~Before(c.last, <<row.attempt, e.at[2] - 1>>)
    BY <1>2 DEF EndSeen
  <2> DEFINE g == Event(row.attempt, e.at[2] - 1, "status")
  <2>2. g \in Events
    BY <2>1, DoneAfterStatus DEF Safe
  <2>3. g.at = <<row.attempt, e.at[2] - 1>> /\ g.at[1] = row.attempt /\ g.kind = "status"
    BY DEF Event
  <2> HIDE DEF g
  <2> QED
    BY <2>1, <2>2, <2>3
<1> QED
  BY <1>1, <1>2

\* Nothing comes after the Done of the current attempt.
LEMMA NothingAfterDone ==
  ASSUME Producer, NEW f \in Events, f.kind = "done", f.at[1] = row.attempt,
         NEW e \in Events, e.kind # "done", NEW p \in Pos,
         ~Before(p, <<row.attempt, f.at[2] - 1>>), Before(p, e.at)
  PROVE  FALSE
<1>1. /\ f.at \in Pos /\ e.at \in Pos /\ e.at[1] <= row.attempt
      /\ f.at[2] + 1 \in DOMAIN Story(row.attempt) /\ Story(row.attempt)[f.at[2] + 1] = "done"
      /\ e.at[2] + 1 \in DOMAIN Story(e.at[1]) /\ e.kind = Story(e.at[1])[e.at[2] + 1]
  BY EventFacts
<1>2. /\ f.at[2] \in Nat /\ e.at[1] \in Nat /\ e.at[2] \in Nat /\ p[1] \in Nat /\ p[2] \in Nat
      /\ row.attempt \in Nat /\ row.attempt \in 1..MaxAttempts
  BY <1>1, RowFacts DEF Pos
<1>3. ~(p[1] < row.attempt) /\ ~(p[1] = row.attempt /\ p[2] < f.at[2] - 1)
  BY DEF Before
<1>4. p[1] < e.at[1] \/ (p[1] = e.at[1] /\ p[2] < e.at[2])
  BY DEF Before
<1>5. p[1] = row.attempt /\ e.at[1] = row.attempt
  BY <1>1, <1>2, <1>3, <1>4
<1>6. p[2] >= f.at[2] - 1 /\ p[2] < e.at[2]
  BY <1>2, <1>3, <1>4, <1>5
<1>7. e.at[2] >= f.at[2]
  BY <1>2, <1>6
<1>8. CASE e.at[2] = f.at[2]
  BY <1>1, <1>5, <1>8
<1>9. CASE f.at[2] < e.at[2]
  <2>1. Shaped(Story(row.attempt))
    BY <1>2, StoryEvents DEF EventsAre
  <2>2. f.at[2] + 1 < e.at[2] + 1
    BY <1>2, <1>9
  <2> QED
    BY <1>1, <1>5, <2>1, <2>2 DEF Shaped
<1> QED
  BY <1>2, <1>7, <1>8, <1>9

LEMMA SafeTellsAll == Safe => DoneTellsAll
<1> SUFFICES ASSUME Safe, wire # <<>>, wire[Len(wire)].kind = "done"
             PROVE  /\ Projected.status = "terminal"
                    /\ \/ stream.terminal = FALSE
                       \/ Overtaken
                       \/ client.status \/ \E i \in DOMAIN wire : wire[i].kind = "status"
                    /\ (stream.terminal /\ wire[Len(wire)].at # Nowhere /\ stream.pc = "closed") =>
                         \A e \in Existing : ~Before(Delivered(Len(wire)), e.at)
  BY DEF DoneTellsAll
<1>1. Producer /\ StreamType /\ Subscribed /\ EndsTrue /\ Behind
  BY DEF Safe
<1>2. Len(wire) \in DOMAIN wire /\ DOMAIN wire = 1..Len(wire) /\ Len(wire) \in Nat
  BY <1>1 DEF StreamType
<1>3. HasDone(wire)
  BY <1>2 DEF HasDone
<1>4. Projected.status = "terminal" /\ stream.pc \in {"closed", "lost"}
  BY <1>1, <1>3 DEF EndsTrue
<1>5. stream.terminal \in BOOLEAN
  BY StreamFields
<1> DEFINE c == stream.cursor
<1>6. ASSUME stream.terminal
      PROVE  /\ Delivering /\ Told(c, wire) /\ c \in Cursors /\ c.last \in Pos /\ Base(c) \in Pos
             /\ Identified = Ids(wire) /\ Existing = Visible(c)
             /\ \/ c.done # Nowhere \/ c.status
                \/ \E i \in DOMAIN wire : wire[i].kind = "status"
             /\ wire[Len(wire)].at # Nowhere => c.done # Nowhere
  <2>1. stream.pc = "closed"
    BY <1>1, <1>3, <1>4, <1>6 DEF EndsTrue
  <2>2. Delivering
    BY <2>1 DEF Delivering
  <2>3. /\ \/ c.done # Nowhere \/ c.status
           \/ \E i \in DOMAIN wire : wire[i].kind = "status"
        /\ wire[Len(wire)].at # Nowhere => c.done # Nowhere
    BY <1>1, <1>3, <1>6, <2>1 DEF EndsTrue
  <2> QED
    BY <2>2, <2>3, ToldMeans, StreamFields
<1>7. ASSUME stream.terminal, \A i \in DOMAIN wire : wire[i].kind # "status"
      PROVE  Overtaken \/ client.status
  <2>1. PICK g \in Events : g.at[1] = row.attempt /\ g.kind = "status" /\ ~Before(c.last, g.at)
    BY <1>6, <1>7, StatusWasThere DEF Told
  <2>2. g \in Visible(c)
    BY <1>6, <1>7, <2>1 DEF Visible, Told, CursorOwn
  <2>3. ~Before(Base(c), g.at)
    <3>1. SUFFICES ASSUME Before(Base(c), g.at) PROVE FALSE
      OBVIOUS
    <3>2. PICK i \in Ids(wire) : wire[i] = g
      BY <1>6, <1>7, <2>1, <2>2, <3>1 DEF Told, InStep
    <3> QED
      BY <1>7, <2>1, <3>2 DEF Ids
  <2>4. Base(c) = client.last
    <3>1. Before(Nowhere, g.at)
      BY <1>1, <2>1, RowFacts DEF Before, Nowhere
    <3> QED
      BY <2>3, <3>1 DEF Base
  <2>5. CASE g \in Logged
    BY <2>1, <2>3, <2>4, <2>5 DEF Overtaken
  <2>6. CASE g \notin Logged
    <3>1. g \in EventsOf(row.attempt, published)
      BY <2>6 DEF Events
    <3>2. PICK i \in DOMAIN published : g = Event(row.attempt, i - 1, published[i])
      BY <3>1 DEF EventsOf
    <3>3. bus # "none"
      BY <1>1, <3>2, ShapedEmpty DEF Producer, Stories
    <3>4. g.at = <<row.attempt, i - 1>> /\ published[i] = "status"
      BY <2>1, <3>2 DEF Event
    <3>5. ~client.done
      BY <1>1, <1>4 DEF Subscribed
    <3> QED
      BY <1>1, <2>3, <2>4, <3>3, <3>4, <3>5 DEF Behind
  <2> QED
    BY <2>5, <2>6
<1>8. ASSUME stream.terminal, wire[Len(wire)].at # Nowhere, NEW e \in Existing,
             Before(Delivered(Len(wire)), e.at)
      PROVE  FALSE
  <2> DEFINE d == Delivered(Len(wire))
  <2>1. /\ d \in Pos /\ ~Before(d, Base(c))
        /\ \A j \in Identified : j < Len(wire) => ~Before(d, wire[j].at)
    BY <1>6, <1>8, DeliveredFacts
  <2>2. Before(d, e.at)
    BY <1>8
  <2> HIDE DEF d
  <2>3. e \in Visible(c) /\ e \in Events /\ e.kind # "done" /\ e.at \in Pos
    BY <1>1, <1>6, <1>8, EventFacts DEF Visible
  <2>4. Before(Base(c), e.at)
    BY <1>6, <1>8, <2>1, <2>2, <2>3, BeforeOrder
  <2>5. Before(c.last, e.at)
    <3>1. SUFFICES ASSUME ~Before(c.last, e.at) PROVE FALSE
      OBVIOUS
    <3>2. PICK k \in Ids(wire) : wire[k] = e
      BY <1>6, <1>8, <2>3, <2>4, <3>1 DEF Told, InStep
    <3>3. k \in 1..Len(wire) /\ k # Len(wire)
      BY <1>2, <2>3, <3>2 DEF Ids
    <3>4. k < Len(wire)
      <4>1. \A n \in Nat : \A m \in 1..n : m # n => m < n
        OBVIOUS
      <4> QED
        BY <1>2, <3>3, <4>1
    <3> QED
      BY <1>6, <1>8, <2>1, <2>2, <3>2, <3>4
  <2>6. PICK f \in Events : /\ f.at[1] = row.attempt /\ f.kind = "done"
                            /\ ~Before(c.last, <<row.attempt, f.at[2] - 1>>)
    BY <1>6, <1>8 DEF Told, EndSeen
  <2> QED
    BY <1>1, <1>6, <1>8, <2>3, <2>5, <2>6, NothingAfterDone
<1> QED
  BY <1>4, <1>5, <1>7, <1>8

\* In every state, whatever the log, the bus and the connection have gone through, the
\* client is told exactly the events, in order and without a gap, and a Done that it
\* is sent is true and tells all.
THEOREM StreamIsExact == Spec => []StreamExact
<1>1. Safe => StreamExact
  BY SafeInOrder, SafeTellsAll DEF StreamExact
<1> QED
  BY <1>1, InductiveInvariant, PTL

LEMMA SafeTyped == Safe => TypeOK
<1> SUFFICES ASSUME Safe PROVE TypeOK
  OBVIOUS
<1>1. Producer /\ StreamType
  BY DEF Safe
<1>2. \A k : Shaped(k) => k \in Seq(Kinds) /\ Len(k) <= MaxOutput + 2
  <2>1. SUFFICES ASSUME NEW k, Shaped(k) PROVE k \in Seq(Kinds) /\ Len(k) <= MaxOutput + 2
    OBVIOUS
  <2>2. Len(k) \in 0..(MaxOutput + 2)
    BY <2>1, ShapedLength
  <2> QED
    BY <2>1, <2>2, Bounds DEF Shaped
<1>3. sidecar \in 0..MaxAttempts
  BY <1>1, RowFacts, Bounds DEF Producer, ProducerType
<1>4. \A a \in 1..MaxAttempts : log[a] \in Seq(Kinds) /\ Len(log[a]) <= MaxOutput + 2
  BY <1>1, <1>2 DEF Producer, Stories
<1>5. published \in Seq(Kinds) /\ Len(published) <= MaxOutput + 2
  BY <1>1, <1>2 DEF Producer, Stories
<1>6. ASSUME bus # "none" PROVE Written = SubSeq(published, 1, Len(Written))
  <2>1. /\ Len(Written) <= Len(published) /\ \A i \in DOMAIN Written : Written[i] = published[i]
    BY <1>1, <1>6 DEF Producer, Stories
  <2>2. /\ Written \in Seq(Kinds) /\ DOMAIN Written = 1..Len(Written) /\ Len(Written) \in Nat
        /\ published \in Seq(Kinds) /\ Len(published) \in Nat
    BY <1>1, RowFacts
  <2> DEFINE n == Len(Written)
             s == SubSeq(published, 1, n)
  <2>3. s \in Seq(Kinds) /\ DOMAIN s = 1..n /\ \A i \in 1..n : s[i] = published[i]
    BY <2>1, <2>2
  <2> HIDE DEF s
  <2>4. \A i \in 1..n : Written[i] = s[i]
    BY <2>1, <2>2, <2>3
  <2>5. Written = s
    BY <2>2, <2>3, <2>4
  <2> QED
    BY <2>5 DEF s
<1>7. stream.cursor.last \in Positions /\ stream.position \in 0..NoPosition
  BY StreamFields DEF Cursors
<1>8. \A i \in DOMAIN wire : wire[i] \in Frames
  BY <1>1, FramesPlaced
<1> QED
  BY <1>1, <1>3, <1>4, <1>5, <1>6, <1>7, <1>8 DEF TypeOK, Producer, ProducerType, StreamType

\* Every variable has its type, and the log of an attempt begins as its bus does.
THEOREM TypeCorrect == Spec => []TypeOK
  BY SafeTyped, InductiveInvariant, PTL
=============================================================================
