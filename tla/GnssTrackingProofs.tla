------------------------- MODULE GnssTrackingProofs -------------------------
(***************************************************************************)
(* Safety of GnssTracking for any number of clients and finitely many      *)
(* sessions, whatever options they ask: what is owed to a session is what  *)
(* is on its way to it, a session is tracked one way, and the engine ends  *)
(* up doing what the adapter's maps say.                                   *)
(***************************************************************************)
EXTENDS GnssTracking, SequenceTheorems, FiniteSetTheorems, WellFoundedInduction, TLAPS

-----------------------------------------------------------------------------
(* Data: the least of a set of numbers, the list of a set, and how many     *)
(* members of a queue are in a set.                                         *)

LEMMA LeastIsLeast ==
  ASSUME NEW S \in SUBSET Nat, S # {}
  PROVE  LeastOf(S) \in S /\ \A y \in S : LeastOf(S) <= y
<1>1. PICK x \in S : \A y \in S : <<y, x>> \notin OpToRel(<, Nat)
  BY WFMin, NatLessThanWellFounded, Zenon
<1>2. \A y \in S : ~(y < x)
  BY <1>1, Zenon DEF OpToRel
<1>3. \A y \in S : x <= y
  BY <1>2
<1> QED BY <1>3 DEF LeastOf

LEMMA ListOf ==
  ASSUME NEW S, IsFiniteSet(S)
  PROVE  /\ Cardinality(S) \in Nat
         /\ SetToSeq(S) \in [1 .. Cardinality(S) -> S]
         /\ \A i, j \in 1 .. Cardinality(S) : SetToSeq(S)[i] = SetToSeq(S)[j] => i = j
         /\ \A x \in S : \E i \in 1 .. Cardinality(S) : SetToSeq(S)[i] = x
<1> DEFINE D == 1 .. Cardinality(S)
<1>1. Cardinality(S) \in Nat /\ ExistsBijection(D, S)
  BY FS_CardinalityType
<1>2. PICK f : f \in Bijection(D, S)
  BY <1>1 DEF ExistsBijection
<1>3. f \in [D -> S] /\ IsInjective(f)
  BY <1>2 DEF Bijection, Injection, IsInjective
<1>4. SetToSeq(S) \in [D -> S] /\ IsInjective(SetToSeq(S))
  BY <1>3 DEF SetToSeq
<1>5. \A i, j \in D : SetToSeq(S)[i] = SetToSeq(S)[j] => i = j
  BY <1>4 DEF IsInjective
<1>6. SetToSeq(S) \in Injection(D, S)
  BY <1>4, <1>5 DEF Injection
<1>7. Cardinality(D) = Cardinality(S)
  BY <1>1, FS_Interval
<1>8. SetToSeq(S) \in Surjection(D, S)
  BY <1>6, <1>7, FS_Injection
<1> QED BY <1>1, <1>4, <1>5, <1>8 DEF Surjection

Hits(q, T) == Cardinality({i \in 1 .. Len(q) : q[i] \in T})

LEMMA HitsOf ==
  ASSUME NEW S, NEW q \in Seq(S), NEW T
  PROVE  /\ Hits(q, T) \in Nat
         /\ Hits(q, T) = 0 <=> \A i \in 1 .. Len(q) : q[i] \notin T
<1> DEFINE A == {i \in 1 .. Len(q) : q[i] \in T}
<1>1. IsFiniteSet(A)
  <2>1. IsFiniteSet(1 .. Len(q))
    BY LenProperties, FS_Interval
  <2> QED BY <2>1, FS_Subset
<1>2. Cardinality(A) \in Nat /\ (Cardinality(A) = 0 <=> A = {})
  BY <1>1, FS_CardinalityType, FS_EmptySet
<1> QED BY <1>2 DEF Hits

LEMMA HitsConcat ==
  ASSUME NEW S, NEW p \in Seq(S), NEW q \in Seq(S), NEW T
  PROVE  Hits(p \o q, T) = Hits(p, T) + Hits(q, T)
<1> DEFINE n == Len(p)
           A == {i \in 1 .. Len(p) : p[i] \in T}
           B == {i \in 1 .. Len(q) : q[i] \in T}
           C == {i \in 1 .. Len(p \o q) : (p \o q)[i] \in T}
           f == [i \in B |-> i + n]
           E == C \ A
<1>1. /\ n \in Nat /\ Len(q) \in Nat /\ Len(p \o q) = n + Len(q)
      /\ \A i \in 1 .. n + Len(q) : (p \o q)[i] = IF i <= n THEN p[i] ELSE q[i - n]
  BY LenProperties, ConcatProperties
<1>2. IsFiniteSet(A) /\ IsFiniteSet(B) /\ IsFiniteSet(C)
  <2>1. IsFiniteSet(1 .. Len(p)) /\ IsFiniteSet(1 .. Len(q)) /\ IsFiniteSet(1 .. Len(p \o q))
    BY <1>1, FS_Interval
  <2> QED BY <2>1, FS_Subset
<1>3. A \subseteq C /\ E = {i \in n + 1 .. n + Len(q) : q[i - n] \in T}
  BY <1>1
<1>4. f \in Bijection(B, E)
  <2>1. \A i \in B : i + n \in E
    BY <1>1, <1>3
  <2>2. f \in [B -> E]
    BY <2>1
  <2>3. \A i, j \in B : f[i] = f[j] => i = j
    BY <1>1
  <2>4. \A e \in E : e - n \in B /\ f[e - n] = e
    BY <1>1, <1>3
  <2> HIDE DEF f, B, E
  <2>5. f \in Injection(B, E)
    BY <2>2, <2>3 DEF Injection, IsInjective
  <2>6. f \in Surjection(B, E)
    BY <2>2, <2>4, Zenon DEF Surjection
  <2> QED BY <2>5, <2>6, Zenon DEF Bijection
<1>5. Cardinality(E) = Cardinality(B) /\ IsFiniteSet(E)
  <2>1. ExistsBijection(B, E)
    BY <1>4, Zenon DEF ExistsBijection
  <2> HIDE DEF B, E
  <2> QED BY <1>2, <2>1, FS_Bijection, Zenon
<1>6. Cardinality(A \cup E) = Cardinality(A) + Cardinality(E) - Cardinality(A \cap E)
  BY <1>2, <1>5, FS_Union, Zenon
<1>7. A \cup E = C /\ A \cap E = {}
  BY <1>3
<1>8. Cardinality(C) = Cardinality(A) + Cardinality(B)
  <2>1. Cardinality(A) \in Nat /\ Cardinality(B) \in Nat /\ Cardinality({}) = 0
    BY <1>2, FS_CardinalityType, FS_EmptySet
  <2>2. Cardinality(A \cup E) = Cardinality(C) /\ Cardinality(A \cap E) = 0
    BY <1>7, <2>1, Zenon
  <2> HIDE DEF A, B, C, E
  <2> QED BY <1>5, <1>6, <2>1, <2>2
<1> QED BY <1>8 DEF Hits

LEMMA HitsOne ==
  ASSUME NEW x, NEW T
  PROVE  Hits(<<>>, T) = 0 /\ Hits(<<x>>, T) = IF x \in T THEN 1 ELSE 0
<1>1. {i \in 1 .. Len(<<>>) : <<>>[i] \in T} = {}
  OBVIOUS
<1>2. {i \in 1 .. Len(<<x>>) : <<x>>[i] \in T} = IF x \in T THEN {1} ELSE {}
  OBVIOUS
<1>3. Cardinality({1}) = 1 /\ Cardinality({}) = 0
  BY FS_Singleton, FS_EmptySet
<1> QED BY <1>1, <1>2, <1>3 DEF Hits

LEMMA HitsTail ==
  ASSUME NEW S, NEW q \in Seq(S), q # <<>>, NEW T
  PROVE  /\ Hits(Tail(q), T) = Hits(q, T) - IF Head(q) \in T THEN 1 ELSE 0
         /\ Hits(Tail(q), T) \in Nat
<1>1. Tail(q) \in Seq(S) /\ <<Head(q)>> \in Seq(S) /\ Len(q) \in Nat \ {0}
  BY HeadTailProperties, EmptySeq
<1>2. q = <<Head(q)>> \o Tail(q)
  <2>1. <<Head(q)>> \o Tail(q) \in Seq(S) /\ Len(<<Head(q)>> \o Tail(q)) = Len(q)
    BY <1>1, ConcatProperties, HeadTailProperties
  <2>2. \A i \in 1 .. Len(q) : (<<Head(q)>> \o Tail(q))[i] = q[i]
    BY <1>1, ConcatProperties, HeadTailProperties
  <2> QED BY <2>1, <2>2, SeqEqual
<1>3. Hits(q, T) = Hits(<<Head(q)>>, T) + Hits(Tail(q), T)
  <2>1. PICK h \in Seq(S) : h = <<Head(q)>>
    BY <1>1
  <2>2. PICK t \in Seq(S) : t = Tail(q)
    BY <1>1
  <2>3. Hits(h \o t, T) = Hits(h, T) + Hits(t, T)
    BY HitsConcat
  <2> QED BY <1>2, <2>1, <2>2, <2>3
<1>4. Hits(<<Head(q)>>, T) = (IF Head(q) \in T THEN 1 ELSE 0) /\ Hits(Tail(q), T) \in Nat
  BY <1>1, HitsOne, HitsOf
<1> QED BY <1>3, <1>4

-----------------------------------------------------------------------------
(* Types.  A switch to time keeps options without a distance, an update of  *)
(* a distance-based session options with one, and so do commands that wait. *)

LastOps == {"dstop", "dgone", "dswitch"}
Strict == {"dstart", "dstop", "dswitch", "dupdate", "dagain"}
TimeOps == {"start", "update", "stop"}
Reporting == TimeOps \cup Strict
FixOps == TimeOps \cup {"restart"}

Requests ==
  {r \in [op : Ops, s : Sessions, ivl : Nat, o : Options \cup {NoOptions}] :
     /\ r.op \in {"dupdate", "dagain"} => r.o.dist
     /\ r.op = "dswitch" => r.o \in Options /\ ~r.o.dist}
Waiters == {m \in [cmd : {"start", "update"}, s : Sessions, o : Options] : m.o.dist}

TimeOptions == {o \in Options : ~o.dist} \cup {NoOptions}

Types ==
  /\ clients \subseteq Clients /\ begun \subseteq Sessions
  /\ time \in [Sessions -> TimeOptions] /\ dist \subseteq Sessions
  /\ known \in BOOLEAN /\ up \in BOOLEAN /\ spoilt \in BOOLEAN
  /\ waiting \in Seq(Waiters) /\ resent \in Seq(Waiters) /\ modem \in Seq(Requests)
  /\ engine \in [on : BOOLEAN, ivl : Nat] /\ engineDist \subseteq Sessions
  /\ due \in [Sessions -> Int]
  /\ commands \in 0 .. MaxCommands /\ faults \in 0 .. MaxFaults
  /\ known => waiting = <<>>
  /\ ~known => resent = <<>>
  /\ ~up => engine = Off /\ engineDist = {}

\* What a request of a queue asks of session s; a restart asks nothing of it.
Pos == Nat \ {0}
OpOf(q, i, s) ==
  IF i \in 1 .. Len(q) /\ q[i].s = s /\ q[i].op # "restart" THEN q[i].op ELSE "none"
Op(i, s) == OpOf(modem, i, s)

\* What is still owed to s.
Asks(s) == {r \in Requests : r.op \in Reporting /\ r.s = s}
Waits(s) == {m \in Waiters : m.s = s}
Pending == waiting \o resent
Owing(s) == Hits(modem, Asks(s)) + Hits(Pending, Waits(s))
StartPends(s) == \E i \in DOMAIN Pending : Pending[i].s = s /\ Pending[i].cmd = "start"

\* A step takes k requests from the queue and appends those of r.
Rest(k) == IF k = 1 THEN Tail(modem) ELSE modem
Moves(k, r) ==
  /\ k \in {0, 1} /\ (k = 1 => modem # <<>>)
  /\ r \in Seq(Requests) /\ modem' = Rest(k) \o r

LEMMA Places ==
  ASSUME Types
  PROVE  /\ Len(modem) \in Nat /\ DOMAIN modem = 1 .. Len(modem)
         /\ \A i \in 1 .. Len(modem) : modem[i] \in Requests
         /\ Pending \in Seq(Waiters) /\ DOMAIN Pending = 1 .. Len(Pending) /\ Len(Pending) \in Nat
         /\ \A i \in 1 .. Len(Pending) : Pending[i] \in Waiters
<1>1. modem \in Seq(Requests) /\ Pending \in Seq(Waiters)
  BY ConcatProperties DEF Types, Pending
<1> QED BY <1>1, LenProperties, ElementOfSeq

LEMMA Queued ==
  ASSUME Types, NEW k, NEW r, Moves(k, r), NEW L, L = Len(modem) - k
  PROVE  /\ L \in Nat /\ modem' \in Seq(Requests) /\ Len(modem') = L + Len(r)
         /\ \A i \in 1 .. L : modem'[i] = modem[i + k]
         /\ \A i \in 1 .. Len(r) : modem'[L + i] = r[i]
<1>1. modem \in Seq(Requests) /\ r \in Seq(Requests) /\ Len(r) \in Nat /\ Len(modem) \in Nat
  BY LenProperties DEF Types, Moves
<1>2. /\ Rest(k) \in Seq(Requests) /\ Len(Rest(k)) = L /\ L \in Nat
      /\ \A i \in 1 .. L : Rest(k)[i] = modem[i + k]
  <2>1. CASE k = 1
    BY <1>1, <2>1, HeadTailProperties, LenProperties DEF Moves, Rest
  <2>2. CASE k = 0
    BY <1>1, <2>2 DEF Rest
  <2> QED BY <2>1, <2>2 DEF Moves
<1>3. modem' = Rest(k) \o r
  BY DEF Moves
<1> DEFINE q == Rest(k)
<1> HIDE DEF q
<1>4. /\ q \o r \in Seq(Requests) /\ Len(q \o r) = Len(q) + Len(r)
      /\ \A i \in 1 .. Len(q) + Len(r) : (q \o r)[i] = IF i <= Len(q) THEN q[i] ELSE r[i - Len(q)]
  BY <1>1, <1>2, ConcatProperties DEF q
<1>5. \A i \in 1 .. L : modem'[i] = q[i]
  BY <1>1, <1>2, <1>3, <1>4 DEF q
<1>6. \A i \in 1 .. Len(r) : modem'[L + i] = r[i]
  <2> TAKE i \in 1 .. Len(r)
  <2>1. L + i \in 1 .. L + Len(r) /\ ~(L + i <= L) /\ (L + i) - L = i
    BY <1>1, <1>2
  <2> QED BY <1>1, <1>2, <1>3, <1>4, <2>1 DEF q
<1> QED BY <1>2, <1>3, <1>4, <1>5, <1>6 DEF q

\* What is left to ask of a session after a step.
LEMMA OpMoves ==
  ASSUME Types, NEW k, NEW r, Moves(k, r), NEW L, L = Len(modem) - k, NEW s
  PROVE  \A i \in Pos : Op(i, s)' = IF i <= L THEN Op(i + k, s) ELSE OpOf(r, i - L, s)
<1>1. /\ L \in Nat /\ k \in {0, 1} /\ Len(r) \in Nat /\ Len(modem') = L + Len(r)
      /\ \A i \in 1 .. L : modem'[i] = modem[i + k]
      /\ \A i \in 1 .. Len(r) : modem'[L + i] = r[i]
  <2>1. k \in {0, 1} /\ Len(r) \in Nat
    BY LenProperties DEF Moves
  <2>2. /\ L \in Nat /\ modem' \in Seq(Requests) /\ Len(modem') = L + Len(r)
        /\ \A i \in 1 .. L : modem'[i] = modem[i + k]
        /\ \A i \in 1 .. Len(r) : modem'[L + i] = r[i]
    BY Queued
  <2> QED BY <2>1, <2>2
<1> TAKE i \in Pos
<1>2. CASE i <= L
  <2>1. i \in 1 .. Len(modem') /\ i + k \in 1 .. Len(modem) /\ modem'[i] = modem[i + k]
    BY <1>1, <1>2, Places DEF Pos
  <2> QED BY <1>2, <2>1 DEF Op, OpOf
<1>3. CASE ~(i <= L)
  <2>1. i \in 1 .. Len(modem') <=> i - L \in 1 .. Len(r)
    BY <1>1, <1>3 DEF Pos
  <2>2. i - L \in 1 .. Len(r) => modem'[i] = r[i - L]
    <3>1. i = L + (i - L)
      BY <1>1, <1>3 DEF Pos
    <3> QED BY <1>1, <3>1
  <2> QED BY <1>3, <2>1, <2>2 DEF Op, OpOf
<1> QED BY <1>2, <1>3

LEMMA HitsMove ==
  ASSUME Types, NEW k, NEW r, Moves(k, r), NEW T
  PROVE  /\ Hits(modem', T) = Hits(modem, T) + Hits(r, T) - IF k = 1 /\ Head(modem) \in T THEN 1 ELSE 0
         /\ Hits(modem, T) \in Nat /\ Hits(r, T) \in Nat /\ Hits(modem', T) \in Nat
<1>1. modem \in Seq(Requests) /\ r \in Seq(Requests) /\ modem' = Rest(k) \o r
  BY DEF Types, Moves
<1>2. Hits(modem, T) \in Nat /\ Hits(r, T) \in Nat
  BY <1>1, HitsOf
<1>3. /\ Rest(k) \in Seq(Requests) /\ Hits(Rest(k), T) \in Nat
      /\ Hits(Rest(k), T) = Hits(modem, T) - IF k = 1 /\ Head(modem) \in T THEN 1 ELSE 0
  <2>1. CASE k = 1
    BY <1>1, <2>1, HitsTail, HeadTailProperties DEF Rest, Moves
  <2>2. CASE k = 0
    BY <1>1, <1>2, <2>2 DEF Rest
  <2> QED BY <2>1, <2>2 DEF Moves
<1>4. Hits(modem', T) = Hits(Rest(k), T) + Hits(r, T)
  BY <1>1, <1>3, HitsConcat
<1> QED BY <1>2, <1>3, <1>4

LEMMA AskedOf ==
  ASSUME NEW q \in Seq(Requests), NEW s \in Sessions
  PROVE  /\ Hits(q, Asks(s)) \in Nat
         /\ Hits(q, Asks(s)) = 0 <=> \A i \in Pos : OpOf(q, i, s) \notin Reporting
<1>1. /\ Hits(q, Asks(s)) \in Nat
      /\ Hits(q, Asks(s)) = 0 <=> \A i \in 1 .. Len(q) : q[i] \notin Asks(s)
  BY HitsOf
<1>2. \A i \in 1 .. Len(q) : i \in Pos /\ (q[i] \in Asks(s) <=> OpOf(q, i, s) \in Reporting)
  BY ElementOfSeq, LenProperties DEF OpOf, Pos, Asks, Reporting, TimeOps, Strict
<1>3. \A i \in Pos : i \notin 1 .. Len(q) => OpOf(q, i, s) \notin Reporting
  BY DEF OpOf, Reporting, TimeOps, Strict
<1> QED BY <1>1, <1>2, <1>3

LEMMA WaitsOf ==
  ASSUME NEW q \in Seq(Waiters), NEW s \in Sessions
  PROVE  /\ Hits(q, Waits(s)) \in Nat
         /\ Hits(q, Waits(s)) = 0 <=> ~ \E i \in DOMAIN q : q[i].s = s
<1>1. /\ Hits(q, Waits(s)) \in Nat
      /\ Hits(q, Waits(s)) = 0 <=> \A i \in 1 .. Len(q) : q[i] \notin Waits(s)
  BY HitsOf
<1>2. DOMAIN q = 1 .. Len(q) /\ \A i \in 1 .. Len(q) : q[i] \in Waiters
  BY LenProperties, ElementOfSeq
<1> QED BY <1>1, <1>2 DEF Waits

LEMMA OwingIs ==
  ASSUME Types, NEW s \in Sessions
  PROVE  /\ Hits(modem, Asks(s)) \in Nat /\ Hits(Pending, Waits(s)) \in Nat
         /\ Hits(modem, Asks(s)) = 0 <=> \A i \in Pos : Op(i, s) \notin Reporting
         /\ Hits(Pending, Waits(s)) = 0 <=> ~Pends(s)
BY Places, AskedOf, WaitsOf DEF Types, Op, Pends, Pending

LEMMA OwingNext ==
  ASSUME Types', NEW s \in Sessions
  PROVE  /\ Hits(modem', Asks(s)) \in Nat /\ Hits(Pending', Waits(s)) \in Nat
         /\ Hits(modem', Asks(s)) = 0 <=> \A i \in Pos : Op(i, s)' \notin Reporting
         /\ Hits(Pending', Waits(s)) = 0 <=> ~Pends(s)'
<1>1. modem' \in Seq(Requests) /\ waiting' \o resent' \in Seq(Waiters)
  BY ConcatProperties DEF Types
<1> QED BY <1>1, AskedOf, WaitsOf DEF Op, Pends, Pending

-----------------------------------------------------------------------------
(* What holds of each session until something happens that the adapter does *)
(* not repair.                                                              *)

\* The answers owed are those of the requests and commands on their way; what
\* concerns distances is alone among them; a client that is gone is owed none.
Exact(s) == due[s] = Owing(s)
Sole(s) == (\E i \in Pos : Op(i, s) \in Strict) \/ Pends(s) => due[s] = 1
Gone(s) == \A i \in Pos : Op(i, s) = "dgone" => due[s] = 0 /\ ClientOf[s] \notin clients

\* Among the requests about distances one is not a restart, and nothing follows
\* one that ends the tracking.
Order(s) ==
  \A i, j \in Pos :
    i < j /\ Op(i, s) \in DistanceOps \ {"dquiet"} /\ Op(j, s) \in DistanceOps =>
      Op(j, s) = "dquiet" /\ Op(i, s) \notin LastOps

\* The session is in the map until the engine has been asked to switch, and with
\* no request left the engine agrees with the map.
Kept(s) ==
  /\ (\E i \in Pos : Op(i, s) \in DistanceOps) =>
       (s \in dist <=> \A i \in Pos : Op(i, s) # "dswitch")
  /\ up /\ (\A i \in Pos : Op(i, s) \notin DistanceOps) => (s \in dist <=> s \in engineDist)

\* A request of a session that has been switched to distance is followed by that
\* for the distance.
Over(s) ==
  s \in dist =>
    \A i \in Pos : Op(i, s) \in TimeOps => \E j \in Pos : j > i /\ Op(j, s) = "dquiet"

\* A start that is refused leaves nothing behind, a stop that is refused leaves
\* the session in the engine.
Begins(s) ==
  \A i \in Pos : Op(i, s) = "dstart" =>
    s \notin engineDist /\ \A j \in Pos : j < i => Op(j, s) \notin DistanceOps
Held(s) ==
  up => \A i \in Pos : Op(i, s) \in {"dstop", "dgone"} =>
          s \in engineDist \/ \E j \in Pos : j < i /\ Op(j, s) = "dquiet"

\* A session that is not started yet is nowhere.
Fresh(s) == s \notin InTime /\ s \notin dist /\ s \notin engineDist /\ \A i \in Pos : Op(i, s) = "none"
Starts(s) == (s \notin begun => Fresh(s) /\ ~Pends(s)) /\ (StartPends(s) => Fresh(s))

OneWay(s) == s \notin InTime \/ s \notin dist

Sound(s) ==
  /\ Exact(s) /\ Sole(s) /\ Gone(s) /\ Order(s) /\ Kept(s) /\ Over(s)
  /\ Begins(s) /\ Held(s) /\ Starts(s) /\ OneWay(s)

\* The environment of a session stays, or only shrinks.
Around(s) ==
  /\ clients' \subseteq clients /\ (up' => up)
  /\ (s \in begun' <=> s \in begun) /\ (StartPends(s)' => StartPends(s))

\* A session that a step does not concern.
LEMMA Untouched ==
  ASSUME NEW s \in Sessions, Sound(s), Around(s), NEW k \in {0, 1},
         \A i \in Pos : Op(i, s)' = Op(i + k, s),
         k = 1 => Op(1, s) = "none",
         due'[s] = due[s], Owing(s)' = Owing(s), Pends(s)' <=> Pends(s),
         s \in dist' <=> s \in dist, s \in InTime' <=> s \in InTime,
         s \in engineDist' <=> s \in engineDist
  PROVE  Sound(s)'
<1>1. \A i \in Pos : i + k \in Pos
  BY DEF Pos
<1>2. \A i \in Pos : Op(i, s) # "none" => i - k \in Pos /\ Op(i - k, s)' = Op(i, s)
  BY DEF Pos
<1>3. Exact(s)'
  BY DEF Sound, Exact
<1>4. Sole(s)'
  BY <1>1 DEF Sound, Sole
<1>5. Gone(s)'
  BY <1>1 DEF Sound, Gone, Around
<1>6. Order(s)'
  BY <1>1 DEF Sound, Order, Pos
<1>7. Kept(s)'
  BY <1>1, <1>2 DEF Sound, Kept, DistanceOps, Around
<1>8. Over(s)'
  <2> SUFFICES ASSUME s \in dist, NEW i \in Pos, Op(i, s)' \in TimeOps
               PROVE  \E j \in Pos : j > i /\ Op(j, s)' = "dquiet"
    BY DEF Over
  <2>1. PICK j \in Pos : j > i + k /\ Op(j, s) = "dquiet"
    BY <1>1 DEF Sound, Over
  <2>2. j - k \in Pos /\ j - k > i /\ Op(j - k, s)' = "dquiet"
    BY <1>2, <2>1 DEF Pos
  <2> QED BY <2>2
<1>9. Begins(s)'
  <2> SUFFICES ASSUME NEW i \in Pos, Op(i, s)' = "dstart"
               PROVE  s \notin engineDist /\ \A j \in Pos : j < i => Op(j, s)' \notin DistanceOps
    BY DEF Begins
  <2>1. s \notin engineDist /\ \A j \in Pos : j < i + k => Op(j, s) \notin DistanceOps
    BY <1>1 DEF Sound, Begins
  <2>2. \A j \in Pos : j < i => j + k < i + k /\ j + k \in Pos
    BY DEF Pos
  <2> QED BY <2>1, <2>2
<1>10. Held(s)'
  <2> SUFFICES ASSUME up, NEW i \in Pos, Op(i, s)' \in {"dstop", "dgone"}, s \notin engineDist
               PROVE  \E j \in Pos : j < i /\ Op(j, s)' = "dquiet"
    BY DEF Held, Around
  <2>1. PICK j \in Pos : j < i + k /\ Op(j, s) = "dquiet"
    BY <1>1 DEF Sound, Held
  <2>2. j - k \in Pos /\ j - k < i /\ Op(j - k, s)' = "dquiet"
    BY <1>2, <2>1 DEF Pos
  <2> QED BY <2>2
<1>11. Starts(s)'
  BY <1>1 DEF Sound, Starts, Fresh, Around
<1>12. OneWay(s)'
  BY DEF Sound, OneWay
<1> QED BY <1>3, <1>4, <1>5, <1>6, <1>7, <1>8, <1>9, <1>10, <1>11, <1>12 DEF Sound

-----------------------------------------------------------------------------
(* The commands, as the session concerned sees them: up to two requests are *)
(* appended to the queue, which ends at L.                                  *)

Pushed(s, L, a, b) ==
  /\ L \in Nat
  /\ \A i \in Pos : i > L => Op(i, s) = "none"
  /\ \A i \in Pos : Op(i, s)' = IF i <= L THEN Op(i, s)
                                ELSE IF i = L + 1 THEN a ELSE IF i = L + 2 THEN b ELSE "none"

\* Nothing of the session is in the queue but a distance to be restarted.
Calm(s) == \A i \in Pos : Op(i, s) \in {"none", "dquiet"}

\* Nothing is asked of the engine.
LEMMA Still ==
  ASSUME NEW s \in Sessions, Sound(s), up' = up,
         \A i \in Pos : Op(i, s)' = Op(i, s),
         s \in dist' <=> s \in dist, s \in InTime' <=> s \in InTime,
         s \in engineDist' <=> s \in engineDist,
         Exact(s)', Sole(s)', Gone(s)', Starts(s)'
  PROVE  Sound(s)'
<1>1. Order(s)' /\ Over(s)' /\ Begins(s)' /\ OneWay(s)'
  BY DEF Sound, Order, Over, Begins, OneWay
<1>2. Kept(s)' /\ Held(s)'
  BY DEF Sound, Kept, Held
<1> QED BY <1>1, <1>2 DEF Sound

\* A time-based session is updated or stopped.
LEMMA TimeCommand ==
  ASSUME NEW s \in Sessions, Sound(s), NEW L, NEW a, Pushed(s, L, a, "none"),
         a \in TimeOps \cup {"none"},
         s \in begun, ClientOf[s] \in clients, s \in InTime,
         ~(due[s] > 0 /\ (Pends(s) \/ \E i \in Pos : Op(i, s) \in DistanceOps)),
         up' = up, begun' = begun, s \in dist' <=> s \in dist, s \in engineDist' <=> s \in engineDist,
         Pends(s)' <=> Pends(s), StartPends(s)' => Pends(s)', Exact(s)'
  PROVE  Sound(s)'
<1>1. ~Pends(s) /\ \A i \in Pos : Op(i, s) \notin Strict
  BY DEF Sound, Sole, Strict, DistanceOps
<1>2. s \notin dist /\ \A i \in Pos : Op(i, s) \notin DistanceOps
  BY <1>1 DEF Sound, Kept, OneWay, Strict, DistanceOps
<1>3. \A i \in Pos : Op(i, s)' \notin DistanceOps
  BY <1>2 DEF Pushed, DistanceOps, TimeOps
<1>4. Sole(s)' /\ Gone(s)' /\ Order(s)' /\ Begins(s)' /\ Held(s)'
  BY <1>1, <1>3 DEF Sole, Gone, Order, Begins, Held, DistanceOps, Strict
<1>5. Kept(s)' /\ Over(s)' /\ OneWay(s)'
  BY <1>2, <1>3 DEF Sound, Kept, Over, OneWay
<1>6. Starts(s)'
  BY <1>1 DEF Starts
<1> QED BY <1>4, <1>5, <1>6 DEF Sound

\* A session goes from time to distance.
LEMMA DistanceCommand ==
  ASSUME NEW s \in Sessions, Sound(s), NEW L, NEW a, NEW b, Pushed(s, L, a, b), Calm(s),
         \/ a \in TimeOps /\ b = "dquiet"
         \/ a = "dquiet" /\ b = "none",
         s \in begun', s \in dist', s \notin InTime',
         ~Pends(s)', StartPends(s)' => Pends(s)', Exact(s)'
  PROVE  Sound(s)'
<1>1. \A i \in Pos : Op(i, s)' \in TimeOps \cup {"none", "dquiet"}
  BY DEF Pushed, Calm
<1>2. \E i \in Pos : Op(i, s)' = "dquiet"
  BY DEF Pushed, Pos
<1>3. Sole(s)' /\ Gone(s)' /\ Order(s)' /\ Begins(s)' /\ Held(s)'
  BY <1>1 DEF Sole, Gone, Order, Begins, Held, DistanceOps, Strict, TimeOps
<1>4. Kept(s)'
  BY <1>1, <1>2 DEF Kept, DistanceOps, TimeOps
<1>5. Over(s)'
  <2> SUFFICES ASSUME NEW i \in Pos, Op(i, s)' \in TimeOps
               PROVE  \E j \in Pos : j > i /\ Op(j, s)' = "dquiet"
    BY DEF Over
  <2>1. i = L + 1 /\ a \in TimeOps
    BY DEF Pushed, Calm, TimeOps, Pos
  <2>2. L + 2 \in Pos /\ L + 2 > i /\ Op(L + 2, s)' = "dquiet"
    BY <2>1 DEF Pushed, Pos, TimeOps
  <2> QED BY <2>2
<1>6. Starts(s)' /\ OneWay(s)'
  BY DEF Starts, OneWay
<1> QED BY <1>3, <1>4, <1>5, <1>6 DEF Sound

\* A request about distances that concerns the session alone.
LEMMA StrictCommand ==
  ASSUME NEW s \in Sessions, Sound(s), NEW L, NEW a, Pushed(s, L, a, "none"), Calm(s),
         a \in {"dstart", "dstop", "dswitch", "dupdate", "dgone"},
         IF a = "dgone" THEN due'[s] = 0 /\ ClientOf[s] \notin clients' ELSE due'[s] = 1,
         a = "dstart" => Fresh(s), a \in {"dstop", "dgone"} => s \in dist,
         s \in begun', s \in dist' <=> a # "dswitch", s \notin InTime', up' = up,
         s \in engineDist' <=> s \in engineDist,
         ~Pends(s)', StartPends(s)' => Pends(s)', Exact(s)'
  PROVE  Sound(s)'
<1>1. \A i \in Pos : Op(i, s)' \in {"none", "dquiet", a} /\ (Op(i, s)' = a <=> i = L + 1)
  BY DEF Pushed, Calm, Pos
<1>2. L + 1 \in Pos /\ Op(L + 1, s)' = a
  BY DEF Pushed, Pos
<1>3. Sole(s)' /\ Gone(s)'
  BY <1>1 DEF Sole, Gone, Strict
<1>4. Order(s)'
  <2> SUFFICES ASSUME NEW i \in Pos, NEW j \in Pos, i < j, Op(i, s)' \in DistanceOps \ {"dquiet"},
                      Op(j, s)' \in DistanceOps
               PROVE  FALSE
    BY DEF Order
  <2>1. i = L + 1
    BY <1>1 DEF DistanceOps
  <2> QED BY <2>1 DEF Pushed, Pos, DistanceOps
<1>5. Kept(s)'
  BY <1>1, <1>2 DEF Kept, DistanceOps
<1>6. Over(s)'
  BY <1>1 DEF Over, TimeOps
<1>7. Begins(s)'
  <2> SUFFICES ASSUME a = "dstart" PROVE Begins(s)'
    BY <1>1 DEF Begins
  <2>1. s \notin engineDist' /\ \A j \in Pos : j <= L => Op(j, s)' = "none"
    BY DEF Fresh, Pushed
  <2> QED BY <1>1, <2>1 DEF Begins, Pushed, Pos, DistanceOps
<1>8. Held(s)'
  <2> SUFFICES ASSUME up', a \in {"dstop", "dgone"}, s \notin engineDist
               PROVE  \E j \in Pos : j < L + 1 /\ Op(j, s)' = "dquiet"
    BY <1>1 DEF Held
  <2>1. PICK j \in Pos : Op(j, s) \in DistanceOps
    BY DEF Sound, Kept
  <2>2. j <= L /\ Op(j, s) = "dquiet"
    BY <2>1 DEF Calm, Pushed, DistanceOps, Pos
  <2> QED BY <2>2 DEF Pushed, Pos
<1>9. Starts(s)' /\ OneWay(s)'
  BY DEF Starts, OneWay
<1> QED BY <1>3, <1>4, <1>5, <1>6, <1>7, <1>8, <1>9 DEF Sound

-----------------------------------------------------------------------------
(* The answers, as the session concerned sees them: its first request is    *)
(* taken from the queue, another may be appended after the L that are left. *)

Popped(s, L, a) ==
  /\ L \in Nat
  /\ \A i \in Pos : i > L + 1 => Op(i, s) = "none"
  /\ \A i \in Pos : Op(i, s)' = IF i <= L THEN Op(i + 1, s) ELSE IF i = L + 1 THEN a ELSE "none"

\* What was alone is answered: nothing is left.
LEMMA SoleAnswered ==
  ASSUME NEW s \in Sessions, Types', Exact(s)', due'[s] = 0
  PROVE  ~Pends(s)' /\ \A i \in Pos : Op(i, s)' \notin Reporting
<1>1. /\ Hits(modem', Asks(s)) \in Nat /\ Hits(Pending', Waits(s)) \in Nat
      /\ Hits(modem', Asks(s)) = 0 <=> \A i \in Pos : Op(i, s)' \notin Reporting
      /\ Hits(Pending', Waits(s)) = 0 <=> ~Pends(s)'
  BY OwingNext
<1>2. Hits(modem', Asks(s)) + Hits(Pending', Waits(s)) = 0
  BY DEF Exact, Owing, Asks, Waits
<1>3. Hits(modem', Asks(s)) = 0 /\ Hits(Pending', Waits(s)) = 0
  BY <1>1, <1>2
<1> QED BY <1>1, <1>3

\* A client that is gone is owed nothing, a request on its way is owed.
LEMMA Asked ==
  ASSUME NEW s \in Sessions, Types, Exact(s), NEW i \in Pos, Op(i, s) \in Reporting
  PROVE  due[s] > 0
<1>1. Hits(modem, Asks(s)) \in Nat /\ Hits(Pending, Waits(s)) \in Nat /\ Hits(modem, Asks(s)) # 0
  BY OwingIs
<1>2. due[s] = Hits(modem, Asks(s)) + Hits(Pending, Waits(s))
  BY DEF Exact, Owing
<1> QED BY <1>1, <1>2

\* The engine has answered what a time-based session asked.
LEMMA TimeAnswered ==
  ASSUME NEW s \in Sessions, Types, Types', Sound(s), Around(s), NEW L, Popped(s, L, "none"),
         Op(1, s) \in TimeOps, due'[s] = due[s] - 1, Exact(s)', Pends(s)' <=> Pends(s),
         s \in dist' <=> s \in dist, s \in InTime' => s \in InTime, s \in engineDist' <=> s \in engineDist
  PROVE  Sound(s)'
<1>1. 1 \in Pos /\ \A i \in Pos : i + 1 \in Pos /\ Op(i, s)' = Op(i + 1, s)
  BY DEF Popped, Pos
<1>2. \A i \in Pos : Op(i, s) \in DistanceOps => i - 1 \in Pos /\ Op(i - 1, s)' = Op(i, s)
  BY <1>1 DEF Pos, TimeOps, DistanceOps
<1>3. due[s] > 0
  BY <1>1, Asked DEF Sound, Reporting
<1>4. Sole(s)'
  <2> SUFFICES ASSUME (\E i \in Pos : Op(i, s)' \in Strict) \/ Pends(s)' PROVE due'[s] = 1
    BY DEF Sole
  <2>1. due[s] = 1
    BY <1>1 DEF Sound, Sole
  <2> QED BY <2>1, SoleAnswered DEF Reporting
<1>5. Gone(s)'
  BY <1>1, <1>3 DEF Sound, Gone
<1>6. Order(s)'
  BY <1>1 DEF Sound, Order, Pos
<1>7. Kept(s)'
  BY <1>1, <1>2 DEF Sound, Kept, DistanceOps, Around
<1>8. Over(s)'
  <2> SUFFICES ASSUME s \in dist, NEW i \in Pos, Op(i, s)' \in TimeOps
               PROVE  \E j \in Pos : j > i /\ Op(j, s)' = "dquiet"
    BY DEF Over
  <2>1. PICK j \in Pos : j > i + 1 /\ Op(j, s) = "dquiet"
    BY <1>1 DEF Sound, Over
  <2>2. j - 1 \in Pos /\ j - 1 > i /\ Op(j - 1, s)' = "dquiet"
    BY <1>2, <2>1 DEF Pos, DistanceOps
  <2> QED BY <2>2
<1>9. Begins(s)'
  <2> SUFFICES ASSUME NEW i \in Pos, Op(i, s)' = "dstart"
               PROVE  s \notin engineDist /\ \A j \in Pos : j < i => Op(j, s)' \notin DistanceOps
    BY DEF Begins
  <2>1. s \notin engineDist /\ \A j \in Pos : j < i + 1 => Op(j, s) \notin DistanceOps
    BY <1>1 DEF Sound, Begins
  <2>2. \A j \in Pos : j < i => j + 1 < i + 1 /\ j + 1 \in Pos
    BY DEF Pos
  <2> QED BY <1>1, <2>1, <2>2
<1>10. Held(s)'
  <2> SUFFICES ASSUME up, NEW i \in Pos, Op(i, s)' \in {"dstop", "dgone"}, s \notin engineDist
               PROVE  \E j \in Pos : j < i /\ Op(j, s)' = "dquiet"
    BY DEF Held, Around
  <2>1. PICK j \in Pos : j < i + 1 /\ Op(j, s) = "dquiet"
    BY <1>1 DEF Sound, Held
  <2>2. j - 1 \in Pos /\ j - 1 < i /\ Op(j - 1, s)' = "dquiet"
    BY <1>2, <2>1 DEF Pos, DistanceOps
  <2> QED BY <2>2
<1>11. Starts(s)'
  <2>1. Op(1, s) # "none"
    BY DEF TimeOps
  <2> QED BY <1>1, <2>1 DEF Sound, Starts, Fresh, Around
<1>12. OneWay(s)'
  BY DEF Sound, OneWay
<1> QED BY <1>4, <1>5, <1>6, <1>7, <1>8, <1>9, <1>10, <1>11, <1>12 DEF Sound

\* The engine tracks the distance again.
LEMMA QuietlyAnswered ==
  ASSUME NEW s \in Sessions, Sound(s), Around(s), NEW L, Popped(s, L, "none"),
         Op(1, s) = "dquiet", due'[s] = due[s], Exact(s)', Pends(s)' <=> Pends(s),
         s \in dist' <=> s \in dist, s \in InTime' <=> s \in InTime, s \in engineDist', up' = up
  PROVE  Sound(s)'
<1>1. 1 \in Pos /\ \A i \in Pos : i + 1 \in Pos /\ Op(i, s)' = Op(i + 1, s)
  BY DEF Popped, Pos
<1>2. \A i \in Pos : i # 1 => i - 1 \in Pos /\ Op(i - 1, s)' = Op(i, s)
  BY <1>1 DEF Pos
<1>3. Sole(s)' /\ Gone(s)'
  BY <1>1 DEF Sound, Sole, Gone, Around
<1>4. Order(s)'
  BY <1>1 DEF Sound, Order, Pos
<1>5. Kept(s)'
  <2>1. s \in dist <=> \A i \in Pos : Op(i, s) # "dswitch"
    BY <1>1 DEF Sound, Kept, DistanceOps
  <2>2. s \in dist <=> \A i \in Pos : Op(i, s)' # "dswitch"
    BY <1>1, <1>2, <2>1
  <2> QED BY <2>2 DEF Kept, DistanceOps
<1>6. Over(s)'
  <2> SUFFICES ASSUME s \in dist, NEW i \in Pos, Op(i, s)' \in TimeOps
               PROVE  \E j \in Pos : j > i /\ Op(j, s)' = "dquiet"
    BY DEF Over
  <2>1. PICK j \in Pos : j > i + 1 /\ Op(j, s) = "dquiet"
    BY <1>1 DEF Sound, Over
  <2>2. j - 1 \in Pos /\ j - 1 > i /\ Op(j - 1, s)' = "dquiet"
    BY <1>2, <2>1 DEF Pos
  <2> QED BY <2>2
<1>7. Begins(s)'
  <2> SUFFICES ASSUME NEW i \in Pos, Op(i, s)' = "dstart" PROVE FALSE
    BY DEF Begins
  <2>1. Op(i + 1, s) = "dstart" /\ 1 < i + 1 /\ Op(1, s) \in DistanceOps
    BY <1>1 DEF Pos, DistanceOps
  <2> QED BY <1>1, <2>1 DEF Sound, Begins
<1>8. Held(s)' /\ OneWay(s)'
  BY DEF Sound, Held, OneWay
<1>9. Starts(s)'
  BY <1>1 DEF Sound, Starts, Fresh, Around
<1> QED BY <1>3, <1>4, <1>5, <1>6, <1>7, <1>8, <1>9 DEF Sound

\* A start was accepted, of a new session or of one that is changed.
LEMMA DistanceStarted ==
  ASSUME NEW s \in Sessions, Types', Sound(s), Around(s), NEW L, Popped(s, L, "none"),
         Op(1, s) \in {"dstart", "dagain"}, due'[s] = due[s] - 1, Exact(s)', Pends(s)' <=> Pends(s),
         s \in dist' <=> s \in dist, s \in InTime' <=> s \in InTime, s \in engineDist'
  PROVE  Sound(s)'
<1>1. 1 \in Pos /\ \A i \in Pos : i + 1 \in Pos /\ Op(i, s)' = Op(i + 1, s)
  BY DEF Popped, Pos
<1>2. due[s] = 1
  BY <1>1 DEF Sound, Sole, Strict
<1>3. ~Pends(s)' /\ \A i \in Pos : Op(i, s)' \notin Reporting
  BY <1>2, SoleAnswered
<1>4. \A i \in Pos : Op(i, s)' \in DistanceOps => Op(i, s)' = "dquiet"
  <2> TAKE i \in Pos
  <2>1. i + 1 \in Pos /\ 1 < i + 1 /\ Op(i, s)' = Op(i + 1, s) /\ Op(1, s) \in DistanceOps \ {"dquiet"}
    BY <1>1 DEF Pos, DistanceOps
  <2> QED BY <1>1, <2>1 DEF Sound, Order
<1>5. s \in dist
  <2>1. \A i \in Pos : i # 1 => i - 1 \in Pos /\ Op(i - 1, s)' = Op(i, s)
    BY <1>1 DEF Pos
  <2>2. \A i \in Pos : Op(i, s) # "dswitch"
    BY <1>4, <2>1 DEF DistanceOps
  <2> QED BY <1>1, <2>2 DEF Sound, Kept, DistanceOps
<1>6. Sole(s)' /\ Gone(s)' /\ Order(s)' /\ Begins(s)' /\ Held(s)'
  BY <1>3, <1>4 DEF Sole, Gone, Order, Begins, Held, DistanceOps, Reporting
<1>7. Kept(s)' /\ Over(s)'
  BY <1>3, <1>4, <1>5 DEF Kept, Over, DistanceOps, Reporting
<1>8. Starts(s)' /\ OneWay(s)'
  BY <1>5 DEF Sound, Starts, Fresh, OneWay, Around
<1> QED BY <1>6, <1>7, <1>8 DEF Sound

\* A stop was accepted.
LEMMA DistanceStopped ==
  ASSUME NEW s \in Sessions, Types', Sound(s), Around(s), NEW L, Popped(s, L, "none"),
         Op(1, s) \in {"dstop", "dgone"}, Exact(s)', Pends(s)' <=> Pends(s), due'[s] = 0,
         s \notin dist', s \in InTime' => s \in InTime, s \notin engineDist'
  PROVE  Sound(s)'
<1>1. 1 \in Pos /\ \A i \in Pos : i + 1 \in Pos /\ 1 < i + 1 /\ Op(i, s)' = Op(i + 1, s)
  BY DEF Popped, Pos
<1>2. ~Pends(s)' /\ \A i \in Pos : Op(i, s)' \notin Reporting
  BY SoleAnswered
<1>3. \A i \in Pos : Op(i, s)' \notin DistanceOps
  BY <1>1 DEF Sound, Order, DistanceOps, LastOps
<1>4. Sole(s)' /\ Gone(s)' /\ Order(s)' /\ Begins(s)' /\ Held(s)'
  BY <1>2, <1>3 DEF Sole, Gone, Order, Begins, Held, DistanceOps, Reporting
<1>5. Kept(s)' /\ Over(s)' /\ OneWay(s)'
  BY <1>3 DEF Kept, Over, OneWay
<1>6. Starts(s)'
  BY <1>1 DEF Sound, Starts, Fresh, Around
<1> QED BY <1>4, <1>5, <1>6 DEF Sound

\* A distance was stopped, and its session starts anew by time.
LEMMA Switched ==
  ASSUME NEW s \in Sessions, Types, Sound(s), Around(s), NEW L, NEW a, Popped(s, L, a),
         Op(1, s) = "dswitch", a \in TimeOps \cup {"none"}, Exact(s)',
         Pends(s)' <=> Pends(s), s \in dist' <=> s \in dist, s \notin engineDist'
  PROVE  Sound(s)'
<1>1. /\ 1 \in Pos /\ L + 1 \in Pos
      /\ \A i \in Pos : i + 1 \in Pos /\ 1 < i + 1
      /\ \A i \in Pos : Op(i, s)' = Op(i + 1, s) \/ Op(i, s)' = a
  BY DEF Popped, Pos
<1>2. due[s] = 1
  BY <1>1 DEF Sound, Sole, Strict
<1>3. \A i \in Pos : Op(i, s)' \notin DistanceOps
  BY <1>1 DEF Sound, Order, DistanceOps, LastOps, TimeOps
<1>4. s \notin dist
  BY <1>1 DEF Sound, Kept, DistanceOps
<1>5. ~Pends(s)
  <2>1. Hits(modem, Asks(s)) \in Nat \ {0} /\ Hits(Pending, Waits(s)) \in Nat
    BY <1>1, OwingIs DEF Reporting, Strict
  <2>2. Hits(modem, Asks(s)) + Hits(Pending, Waits(s)) = 1
    BY <1>2 DEF Sound, Exact, Owing
  <2> QED BY <2>1, <2>2, OwingIs
<1>6. Sole(s)' /\ Gone(s)' /\ Order(s)' /\ Begins(s)' /\ Held(s)'
  BY <1>3, <1>5 DEF Sole, Gone, Order, Begins, Held, DistanceOps, Strict
<1>7. Kept(s)' /\ Over(s)' /\ OneWay(s)'
  BY <1>3, <1>4 DEF Kept, Over, OneWay
<1>8. Starts(s)'
  BY <1>1 DEF Sound, Starts, Fresh, Around
<1> QED BY <1>6, <1>7, <1>8 DEF Sound

\* A distance was stopped to be changed.
LEMMA Changed ==
  ASSUME NEW s \in Sessions, Sound(s), Around(s), NEW L, Popped(s, L, "dagain"),
         Op(1, s) = "dupdate", due'[s] = due[s], Exact(s)', Pends(s)' <=> Pends(s),
         s \in dist' <=> s \in dist, s \in InTime' <=> s \in InTime
  PROVE  Sound(s)'
<1>1. /\ 1 \in Pos /\ L + 1 \in Pos /\ Op(L + 1, s)' = "dagain"
      /\ \A i \in Pos : i + 1 \in Pos /\ 1 < i + 1
      /\ \A i \in Pos : i # L + 1 => Op(i, s)' = Op(i + 1, s)
  BY DEF Popped, Pos
<1>2. due[s] = 1
  BY <1>1 DEF Sound, Sole, Strict
<1>3. \A i \in Pos : i # 1 /\ Op(i, s) \in DistanceOps => Op(i, s) = "dquiet"
  <2> TAKE i \in Pos
  <2>1. i # 1 => 1 < i
    BY DEF Pos
  <2> QED BY <1>1, <2>1 DEF Sound, Order, DistanceOps
<1>4. \A i \in Pos : i # L + 1 /\ Op(i, s)' \in DistanceOps => Op(i, s)' = "dquiet" /\ i < L + 1
  <2> SUFFICES ASSUME NEW i \in Pos, i # L + 1, Op(i, s)' \in DistanceOps
               PROVE  Op(i, s)' = "dquiet" /\ i < L + 1
    OBVIOUS
  <2>1. Op(i, s)' = Op(i + 1, s) /\ i + 1 # 1 /\ i + 1 \in Pos
    BY <1>1 DEF Pos
  <2>2. Op(i, s)' = "dquiet"
    BY <1>3, <2>1
  <2>3. i <= L
    BY <2>2 DEF Popped
  <2> QED BY <2>2, <2>3 DEF Pos, Popped
<1>5. s \in dist
  BY <1>1, <1>3 DEF Sound, Kept, DistanceOps
<1>6. Sole(s)' /\ Gone(s)'
  BY <1>1, <1>2, <1>4 DEF Sole, Gone, DistanceOps
<1>7. Order(s)'
  BY <1>1, <1>4 DEF Order, DistanceOps, LastOps, Pos, Popped
<1>8. Kept(s)'
  BY <1>1, <1>4, <1>5 DEF Kept, DistanceOps
<1>9. Over(s)'
  <2>1. ASSUME NEW i \in Pos, Op(i, s)' \in TimeOps
        PROVE  \E j \in Pos : j > i /\ Op(j, s)' = "dquiet"
    <3>1. i # L + 1 /\ Op(i + 1, s) \in TimeOps
      BY <1>1, <2>1 DEF TimeOps
    <3>2. PICK j \in Pos : j > i + 1 /\ Op(j, s) = "dquiet"
      BY <1>1, <1>5, <3>1 DEF Sound, Over
    <3>3. j - 1 \in Pos /\ j - 1 > i /\ j - 1 <= L /\ Op(j - 1, s)' = "dquiet"
      BY <3>2 DEF Popped, Pos
    <3> QED BY <3>3
  <2> QED BY <2>1 DEF Over
<1>10. Begins(s)' /\ Held(s)'
  BY <1>1, <1>4 DEF Begins, Held, DistanceOps
<1>11. Starts(s)' /\ OneWay(s)'
  BY <1>1 DEF Sound, Starts, Fresh, OneWay, Around
<1> QED BY <1>6, <1>7, <1>8, <1>9, <1>10, <1>11 DEF Sound

\* The last request was refused, and the refusal made good.
LEMMA Emptied ==
  ASSUME NEW s \in Sessions, \A i \in Pos : Op(i, s)' = "none", Exact(s)', ~Pends(s)',
         StartPends(s)' => Pends(s)', s \in begun', OneWay(s)',
         up' => (s \in dist' <=> s \in engineDist')
  PROVE  Sound(s)'
<1>1. Sole(s)' /\ Gone(s)' /\ Order(s)' /\ Begins(s)' /\ Held(s)'
  BY DEF Sole, Gone, Order, Begins, Held, DistanceOps, Strict
<1>2. Kept(s)' /\ Over(s)' /\ Starts(s)'
  BY DEF Kept, Over, Starts, DistanceOps, TimeOps
<1> QED BY <1>1, <1>2 DEF Sound

\* The engine goes down ...
LEMMA Died ==
  ASSUME NEW s \in Sessions, Sound(s), Around(s), \A i \in Pos : Op(i, s)' = Op(i, s),
         due'[s] = due[s], Exact(s)', Pends(s)' <=> Pends(s),
         s \in dist' <=> s \in dist, s \in InTime' <=> s \in InTime, s \notin engineDist', ~up'
  PROVE  Sound(s)'
<1>1. Sole(s)' /\ Gone(s)' /\ Order(s)'
  BY DEF Sound, Sole, Gone, Order, Around
<1>2. Kept(s)' /\ Over(s)' /\ Begins(s)' /\ Held(s)'
  BY DEF Sound, Kept, Over, Begins, Held
<1>3. Starts(s)' /\ OneWay(s)'
  BY DEF Sound, Starts, Fresh, OneWay, Around
<1> QED BY <1>1, <1>2, <1>3 DEF Sound

\* ... and comes up: what is tracked by distance is asked for again, at m.
LEMMA Restarted ==
  ASSUME NEW s \in Sessions, Sound(s), NEW L, NEW m, L \in Nat, m \in Pos, m > L,
         \A i \in Pos : i > L => Op(i, s) = "none",
         \A i \in Pos : Op(i, s)' = IF i <= L THEN Op(i, s)
                                    ELSE IF i = m /\ s \in dist THEN "dquiet" ELSE "none",
         \A i \in Pos : Op(i, s) \notin {"dstop", "dgone"},
         due'[s] = due[s], Exact(s)', Pends(s)' <=> Pends(s), StartPends(s)' <=> StartPends(s),
         s \in dist' <=> s \in dist, s \in InTime' <=> s \in InTime,
         s \notin engineDist, s \notin engineDist', begun' = begun, clients' = clients
  PROVE  Sound(s)'
<1>1. CASE s \in dist
  <2>1. \A i \in Pos : i # m => Op(i, s)' = Op(i, s)
    BY DEF Pos
  <2>2. Op(m, s) = "none" /\ Op(m, s)' = "dquiet"
    BY <1>1 DEF Pos
  <2>3. Sole(s)' /\ Gone(s)'
    BY <2>1, <2>2 DEF Sound, Sole, Gone, Strict
  <2>4. \A i \in Pos : Op(i, s) # "dswitch"
    BY <1>1 DEF Sound, Kept, DistanceOps
  <2>5. Order(s)'
    <3> SUFFICES ASSUME NEW i \in Pos, NEW j \in Pos, i < j, Op(i, s)' \in DistanceOps \ {"dquiet"},
                        Op(j, s)' \in DistanceOps
                 PROVE  Op(j, s)' = "dquiet" /\ Op(i, s)' \notin LastOps
      BY DEF Order
    <3>1. Op(i, s)' = Op(i, s)
      BY <2>1, <2>2 DEF DistanceOps
    <3>2. Op(i, s)' \notin LastOps
      BY <2>4, <3>1 DEF LastOps
    <3>3. Op(j, s)' = "dquiet"
      BY <2>1, <2>2, <3>1 DEF Sound, Order
    <3> QED BY <3>2, <3>3
  <2>6. Kept(s)'
    BY <1>1, <2>1, <2>2, <2>4 DEF Kept, DistanceOps
  <2>7. Over(s)'
    <3> SUFFICES ASSUME NEW i \in Pos, Op(i, s)' \in TimeOps
                 PROVE  \E j \in Pos : j > i /\ Op(j, s)' = "dquiet"
      BY DEF Over
    <3>1. i <= L
      BY <2>1, <2>2 DEF TimeOps
    <3> QED BY <2>2, <3>1 DEF Pos
  <2>8. Begins(s)'
    <3> SUFFICES ASSUME NEW i \in Pos, Op(i, s)' = "dstart"
                 PROVE  \A j \in Pos : j < i => Op(j, s)' \notin DistanceOps
      BY DEF Begins
    <3>1. i <= L /\ Op(i, s) = "dstart"
      BY <2>1, <2>2
    <3>2. \A j \in Pos : j < i => Op(j, s) \notin DistanceOps /\ j # m
      BY <3>1 DEF Sound, Begins, Pos
    <3> QED BY <2>1, <3>2
  <2>9. Held(s)' /\ OneWay(s)'
    BY <2>1, <2>2 DEF Sound, Held, OneWay
  <2>10. Starts(s)'
    BY <1>1 DEF Sound, Starts, Fresh
  <2> QED BY <2>3, <2>5, <2>6, <2>7, <2>8, <2>9, <2>10 DEF Sound
<1>2. CASE s \notin dist
  <2>1. \A i \in Pos : Op(i, s)' = Op(i, s)
    BY <1>2 DEF Pos
  <2>2. Sole(s)' /\ Gone(s)' /\ Order(s)' /\ Begins(s)' /\ Over(s)'
    BY <1>2, <2>1 DEF Sound, Sole, Gone, Order, Begins, Over
  <2>3. Kept(s)' /\ Held(s)' /\ OneWay(s)'
    BY <1>2, <2>1 DEF Sound, Kept, Held, OneWay
  <2>4. Starts(s)'
    BY <2>1 DEF Sound, Starts, Fresh
  <2> QED BY <2>2, <2>3, <2>4 DEF Sound
<1> QED BY <1>1, <1>2

-----------------------------------------------------------------------------
(* What the commands ask of the engine.                                     *)

\* The fix session that a request asks for, or that the engine has, fits the
\* time-based sessions.
Agrees(on, ivl) == (on <=> InTime # {}) /\ \A s \in InTime : ivl <= time[s].ivl

\* Requests keep the fix session in step with the map: the one that changes it,
\* if any, asks what the new map needs, without one nothing has to change.
Serves(r) ==
  IF \E i \in 1 .. Len(r) : r[i].op \in FixOps
  THEN /\ r[1].op \in FixOps /\ \A i \in 2 .. Len(r) : r[i].op \notin FixOps
       /\ Agrees(r[1].op # "stop", r[1].ivl)'
  ELSE \A on \in BOOLEAN, ivl \in Nat : Agrees(on, ivl) => Agrees(on, ivl)'

LEMMA TimesAre ==
  ASSUME Types
  PROVE  /\ \A s \in Sessions : time[s] \in TimeOptions /\ time[s].ivl \in Nat
         /\ \A s \in InTime : s \in Sessions /\ time[s] \in Options /\ ~time[s].dist
         /\ \A o \in Options : o # NoOptions /\ o.ivl \in Nat
BY GnssAssumption DEF Types, TimeOptions, InTime, NoOptions

LEMMA SmallestIs ==
  ASSUME Types, NEW S \in SUBSET InTime, S # {}
  PROVE  /\ SmallestIvl(S) \in Nat
         /\ \A s \in S : SmallestIvl(S) <= time[s].ivl
         /\ \E s \in S : SmallestIvl(S) = time[s].ivl
<1> DEFINE T == {time[s].ivl : s \in S}
<1>1. T \in SUBSET Nat /\ T # {}
  BY TimesAre DEF InTime
<1>2. LeastOf(T) \in T /\ \A y \in T : LeastOf(T) <= y
  BY <1>1, LeastIsLeast
<1> QED BY <1>1, <1>2 DEF SmallestIvl

\* What the multiplexing asks is at most one request, of the session itself.
Single(q, s) == q = <<>> \/ \E x \in Requests : q = <<x>> /\ x.s = s /\ x.op \in TimeOps

LEMMA RequestIs ==
  ASSUME NEW op \in TimeOps \cup {"dstart", "dstop", "dquiet", "dgone"}, NEW s \in Sessions,
         NEW ivl \in Nat, NEW o \in Options \cup {NoOptions}
  PROVE  /\ Request(op, s, ivl, o) \in Requests
         /\ Request(op, s, ivl, o).op = op /\ Request(op, s, ivl, o).s = s
         /\ Request(op, s, ivl, o).ivl = ivl
BY DEF Request, Requests, Ops, DistanceOps, TimeOps

LEMMA SingleIs ==
  ASSUME NEW op \in TimeOps, NEW s \in Sessions, NEW ivl \in Nat, NEW o \in Options \cup {NoOptions}
  PROVE  Single(<<Request(op, s, ivl, o)>>, s)
BY RequestIs DEF Single

\* The time-based session s is saved with options o, or erased.
LEMMA Agreement ==
  ASSUME Types, NEW s \in Sessions, NEW o \in TimeOptions, time' = [time EXCEPT ![s] = o]
  PROVE  /\ InTime' = IF o = NoOptions THEN InTime \ {s} ELSE InTime \cup {s}
         /\ \A t \in InTime \ {s} : time'[t] = time[t]
         /\ time'[s] = o /\ time' \in [Sessions -> TimeOptions]
BY DEF Types, InTime

LEMMA ServesOne ==
  ASSUME NEW x, NEW q, q = <<x>>, x.op \in FixOps, Agrees(x.op # "stop", x.ivl)'
  PROVE  Serves(q)
<1>1. Len(q) = 1 /\ q[1] = x
  OBVIOUS
<1>2. 1 \in 1 .. Len(q) /\ \A i \in 2 .. Len(q) : FALSE
  BY <1>1
<1> QED BY <1>1, <1>2 DEF Serves

LEMMA ServesNone ==
  ASSUME \A on \in BOOLEAN, ivl \in Nat : Agrees(on, ivl) => Agrees(on, ivl)'
  PROVE  Serves(<<>>)
<1>1. ~ \E i \in 1 .. Len(<<>>) : <<>>[i].op \in FixOps
  OBVIOUS
<1> QED BY <1>1 DEF Serves

LEMMA StartAsks ==
  ASSUME Types, NEW s \in Sessions, NEW o \in Options, ~o.dist,
         NEW asked \in startTimeBasedTrackingMultiplex(s, o), time' = [time EXCEPT ![s] = o]
  PROVE  Single(asked, s) /\ Serves(asked)
<1>1. /\ InTime' = InTime \cup {s} /\ (\A t \in InTime \ {s} : time'[t] = time[t])
      /\ time'[s] = o /\ o.ivl \in Nat
  BY Agreement, TimesAre DEF TimeOptions
<1>2. CASE InTime = {}
  <2>1. asked = <<Request("start", s, o.ivl, o)>>
    BY <1>2 DEF startTimeBasedTrackingMultiplex
  <2>2. Single(asked, s)
    BY <1>1, <2>1, SingleIs DEF TimeOps
  <2>3. Agrees(TRUE, o.ivl)'
    BY <1>1, <1>2 DEF Agrees
  <2>4. PICK x : x = Request("start", s, o.ivl, o)
    OBVIOUS
  <2>5. x.op = "start" /\ x.ivl = o.ivl
    BY <2>4 DEF Request
  <2>6. Agrees(x.op # "stop", x.ivl)'
    BY <2>3, <2>5
  <2>7. Serves(asked)
    BY <2>1, <2>4, <2>5, <2>6, ServesOne DEF FixOps, TimeOps
  <2> QED BY <2>2, <2>7
<1>3. CASE InTime # {}
  <2>1. PICK least \in Nat : /\ least = SmallestIvl(InTime) /\ \A t \in InTime : least <= time[t].ivl
                             /\ \E t \in InTime : least = time[t].ivl
    BY <1>3, SmallestIs
  <2>2. PICK v \in Nat : v = Lesser(o.ivl, least) /\ v <= o.ivl /\ v <= least
    BY <1>1 DEF Lesser
  <2>3. PICK x : x = Request("start", s, v, o)
    OBVIOUS
  <2>4. PICK more \in Stronger(o, InTime) : asked = IF more THEN <<x>> ELSE <<>>
    BY <1>3, <2>1, <2>2, <2>3 DEF startTimeBasedTrackingMultiplex
  <2>5. x.op = "start" /\ x.ivl = v /\ Single(<<x>>, s)
    BY <2>3, SingleIs DEF Request, TimeOps
  <2>6. \A t \in Sessions : time[t].ivl \in Nat
    BY TimesAre
  <2>7. CASE more
    <3>1. \A t \in InTime : v <= time[t].ivl
      BY <2>1, <2>2, <2>6 DEF InTime
    <3>2. Agrees(TRUE, v)'
      BY <1>1, <2>2, <3>1 DEF Agrees
    <3>3. Agrees(x.op # "stop", x.ivl)'
      BY <2>5, <3>2
    <3>4. Serves(asked)
      BY <2>4, <2>5, <2>7, <3>3, ServesOne DEF FixOps, TimeOps
    <3> QED BY <2>4, <2>5, <2>7, <3>4
  <2>8. CASE ~more
    <3>1. ~(o.ivl < least)
      BY <2>1, <2>8 DEF Stronger
    <3>2. ASSUME NEW on \in BOOLEAN, NEW ivl \in Nat, Agrees(on, ivl)
          PROVE  Agrees(on, ivl)'
      <4>1. ivl <= o.ivl /\ on
        <5>1. on /\ \A t \in InTime : ivl <= time[t].ivl
          BY <1>3, <3>2 DEF Agrees
        <5>2. ivl <= least
          BY <2>1, <5>1
        <5> QED BY <1>1, <3>1, <5>1, <5>2
      <4>2. \A t \in InTime' : ivl <= time'[t].ivl
        BY <1>1, <3>2, <4>1 DEF Agrees
      <4> QED BY <1>1, <1>3, <4>1, <4>2 DEF Agrees
    <3>3. asked = <<>>
      BY <2>4, <2>8
    <3> QED BY <3>2, <3>3, ServesNone DEF Single
  <2> QED BY <2>7, <2>8
<1> QED BY <1>2, <1>3

LEMMA UpdateAsks ==
  ASSUME Types, NEW s \in InTime, NEW o \in Options, ~o.dist,
         NEW asked \in updateTrackingMultiplex(s, o), time' = [time EXCEPT ![s] = o]
  PROVE  Single(asked, s) /\ Serves(asked)
<1>1. s \in Sessions /\ \A t \in InTime : t \in Sessions
  BY DEF InTime
<1>2. o # NoOptions /\ o.ivl \in Nat /\ o \in TimeOptions
  BY TimesAre DEF TimeOptions
<1>3. /\ InTime' = InTime /\ (\A t \in InTime \ {s} : time'[t] = time[t])
      /\ time'[s] = o
  <2>1. /\ InTime' = InTime \cup {s} /\ (\A t \in InTime \ {s} : time'[t] = time[t])
        /\ time'[s] = o
    BY <1>1, <1>2, Agreement
  <2> QED BY <2>1
<1>4. PICK old \in Options \cup {NoOptions} : old = time[s] /\ old.ivl \in Nat
  BY TimesAre
<1>5. CASE o.ivl = time[s].ivl /\ o.pwr = time[s].pwr
  <2>1. asked = <<>>
    BY <1>5 DEF updateTrackingMultiplex
  <2>2. \A on \in BOOLEAN, ivl \in Nat : Agrees(on, ivl) => Agrees(on, ivl)'
    BY <1>3, <1>5 DEF Agrees
  <2> QED BY <2>1, <2>2, ServesNone DEF Single
<1>6. CASE ~(o.ivl = time[s].ivl /\ o.pwr = time[s].pwr) /\ InTime = {s}
  <2>1. PICK x : x = Request("update", s, o.ivl, old)
    OBVIOUS
  <2>2. asked = <<x>>
    BY <1>4, <1>6, <2>1 DEF updateTrackingMultiplex
  <2>3. x.op = "update" /\ x.ivl = o.ivl /\ Single(<<x>>, s)
    BY <1>1, <1>2, <1>4, <2>1, SingleIs DEF Request, TimeOps
  <2>4. Agrees(TRUE, o.ivl)'
    BY <1>2, <1>3, <1>6 DEF Agrees
  <2>5. Agrees(x.op # "stop", x.ivl)'
    BY <2>3, <2>4
  <2> QED BY <2>2, <2>3, <2>5, ServesOne DEF FixOps, TimeOps
<1>7. CASE ~(o.ivl = time[s].ivl /\ o.pwr = time[s].pwr) /\ InTime # {s}
  <2>1. InTime \ {s} # {} /\ InTime \ {s} \subseteq InTime
    BY <1>7
  <2>2. PICK least \in Nat : /\ least = SmallestIvl(InTime \ {s})
                             /\ \A t \in InTime \ {s} : least <= time[t].ivl
                             /\ \E t \in InTime \ {s} : least = time[t].ivl
    BY <2>1, SmallestIs
  <2>3. PICK v \in Nat : v = Lesser(o.ivl, least) /\ v <= o.ivl /\ v <= least
    BY <1>2 DEF Lesser
  <2>4. PICK x : x = Request("update", s, v, old)
    OBVIOUS
  <2>5. PICK more \in Stronger(o, InTime \ {s}) : asked = IF more THEN <<x>> ELSE <<>>
    BY <1>4, <1>7, <2>2, <2>3, <2>4 DEF updateTrackingMultiplex
  <2>6. x.op = "update" /\ x.ivl = v /\ Single(<<x>>, s)
    BY <1>1, <1>4, <2>4, SingleIs DEF Request, TimeOps
  <2>7. \A t \in InTime : time[t].ivl \in Nat
    BY TimesAre DEF InTime
  <2>8. CASE more
    <3>1. ASSUME NEW t \in InTime \ {s} PROVE v <= time[t].ivl
      <4>1. least <= time[t].ivl /\ time[t].ivl \in Nat
        BY <2>2, <2>7
      <4> QED BY <2>3, <4>1
    <3>2. Agrees(TRUE, v)'
      BY <1>3, <2>3, <3>1 DEF Agrees
    <3>3. Agrees(x.op # "stop", x.ivl)'
      BY <2>6, <3>2
    <3>4. Serves(asked)
      BY <2>5, <2>6, <2>8, <3>3, ServesOne DEF FixOps, TimeOps
    <3> QED BY <2>5, <2>6, <2>8, <3>4
  <2>9. CASE ~more
    <3>1. ~(o.ivl < least)
      BY <2>2, <2>9 DEF Stronger
    <3>2. ASSUME NEW on \in BOOLEAN, NEW ivl \in Nat, Agrees(on, ivl)
          PROVE  Agrees(on, ivl)'
      <4>1. on /\ \A t \in InTime : ivl <= time[t].ivl
        BY <3>2 DEF Agrees
      <4>2. ivl <= least
        BY <2>2, <4>1
      <4>3. ivl <= o.ivl
        BY <1>2, <3>1, <4>2
      <4>4. \A t \in InTime' : ivl <= time'[t].ivl
        BY <1>3, <4>1, <4>3
      <4> QED BY <1>3, <4>1, <4>4 DEF Agrees
    <3>3. asked = <<>>
      BY <2>5, <2>9
    <3> QED BY <3>2, <3>3, ServesNone DEF Single
  <2> QED BY <2>8, <2>9
<1> QED BY <1>5, <1>6, <1>7

LEMMA StopSingle ==
  ASSUME Types, NEW s \in InTime, NEW asked \in stopTimeBasedTrackingMultiplex(s)
  PROVE  Single(asked, s)
<1>1. s \in Sessions
  BY DEF InTime
<1>2. CASE InTime = {s}
  BY <1>1, <1>2, SingleIs DEF stopTimeBasedTrackingMultiplex, TimeOps
<1>3. CASE InTime # {s}
  <2>1. InTime \ {s} # {} /\ InTime \ {s} \subseteq InTime
    BY <1>3
  <2>2. SmallestIvl(InTime \ {s}) \in Nat
    BY <2>1, SmallestIs
  <2>3. asked = <<>> \/ asked = <<Request("start", s, SmallestIvl(InTime \ {s}), NoOptions)>>
    BY <1>3 DEF stopTimeBasedTrackingMultiplex
  <2>4. Single(<<Request("start", s, SmallestIvl(InTime \ {s}), NoOptions)>>, s)
    BY <1>1, <2>2, SingleIs DEF TimeOps
  <2> QED BY <2>3, <2>4 DEF Single
<1> QED BY <1>2, <1>3

LEMMA StopAsks ==
  ASSUME Types, NEW s \in InTime, NEW asked \in stopTimeBasedTrackingMultiplex(s),
         time' = [time EXCEPT ![s] = NoOptions]
  PROVE  Single(asked, s) /\ Serves(asked)
<1>1. /\ InTime' = InTime \ {s} /\ \A t \in InTime \ {s} : time'[t] = time[t]
      /\ s \in Sessions
  BY Agreement DEF InTime, TimeOptions
<1>2. Single(asked, s)
  BY StopSingle
<1>3. CASE InTime = {s}
  <2>1. PICK x : x = Request("stop", s, 0, NoOptions)
    OBVIOUS
  <2>2. asked = <<x>>
    BY <1>3, <2>1 DEF stopTimeBasedTrackingMultiplex
  <2>3. x.op = "stop"
    BY <2>1 DEF Request
  <2>4. Agrees(x.op # "stop", x.ivl)'
    BY <1>1, <1>3, <2>3 DEF Agrees
  <2>5. Serves(asked)
    BY <2>2, <2>3, <2>4, ServesOne DEF FixOps, TimeOps
  <2> QED BY <1>2, <2>5
<1>4. CASE InTime # {s}
  <2>1. InTime \ {s} # {} /\ InTime \ {s} \subseteq InTime
    BY <1>4
  <2>2. PICK least \in Nat : /\ least = SmallestIvl(InTime \ {s})
                             /\ \A t \in InTime \ {s} : least <= time[t].ivl
    BY <2>1, SmallestIs
  <2>3. PICK x : x = Request("start", s, least, NoOptions)
    OBVIOUS
  <2>4. asked = <<x>> \/ asked = <<>>
    BY <1>4, <2>2, <2>3 DEF stopTimeBasedTrackingMultiplex
  <2>5. x.op = "start" /\ x.ivl = least
    BY <2>3 DEF Request
  <2>6. Agrees(TRUE, least)'
    BY <1>1, <2>1, <2>2 DEF Agrees
  <2>7. Agrees(x.op # "stop", x.ivl)'
    BY <2>5, <2>6
  <2>8. \A on \in BOOLEAN, ivl \in Nat : Agrees(on, ivl) => Agrees(on, ivl)'
    BY <1>1, <2>1 DEF Agrees
  <2>9. Serves(<<>>)
    BY <2>8, ServesNone
  <2>10. asked = <<x>> => Serves(asked)
    BY <2>5, <2>7, ServesOne DEF FixOps, TimeOps
  <2> QED BY <1>2, <2>4, <2>9, <2>10
<1> QED BY <1>3, <1>4

-----------------------------------------------------------------------------
(* Requests that are appended to the queue.                                 *)

\* The requests q, two at most, are of session s.
Pushes(q, s, a, b) ==
  /\ q \in Seq(Requests) /\ Len(q) \in Nat /\ Len(q) <= 2
  /\ \A i \in 1 .. Len(q) : q[i].s = s /\ q[i].op # "restart"
  /\ OpOf(q, 1, s) = a /\ OpOf(q, 2, s) = b
  /\ Hits(q, Asks(s)) = (IF a \in Reporting THEN 1 ELSE 0) + (IF b \in Reporting THEN 1 ELSE 0)

LEMMA PushesNone ==
  ASSUME NEW s
  PROVE  Pushes(<<>>, s, "none", "none")
<1>1. Hits(<<>>, Asks(s)) = 0
  BY HitsOne
<1> QED BY <1>1 DEF Pushes, OpOf, Reporting, TimeOps, Strict

LEMMA PushesOne ==
  ASSUME NEW x \in Requests, NEW s, x.s = s, NEW a, x.op = a, a # "restart"
  PROVE  Pushes(<<x>>, s, a, "none")
<1>1. Hits(<<x>>, Asks(s)) = IF x \in Asks(s) THEN 1 ELSE 0
  BY HitsOne
<1>2. x \in Asks(s) <=> a \in Reporting
  BY DEF Asks
<1>3. "none" \notin Reporting
  BY DEF Reporting, TimeOps, Strict
<1>4. <<x>> \in Seq(Requests) /\ Len(<<x>>) = 1 /\ <<x>>[1] = x
  OBVIOUS
<1>5. OpOf(<<x>>, 1, s) = a /\ OpOf(<<x>>, 2, s) = "none"
  BY <1>4 DEF OpOf
<1> QED BY <1>1, <1>2, <1>3, <1>4, <1>5 DEF Pushes

LEMMA PushesTwo ==
  ASSUME NEW x \in Requests, NEW y \in Requests, NEW s, x.s = s, y.s = s,
         NEW a, x.op = a, a # "restart", NEW b, y.op = b, b # "restart"
  PROVE  Pushes(<<x>> \o <<y>>, s, a, b)
<1> DEFINE q == <<x>> \o <<y>>
<1>1. <<x>> \in Seq(Requests) /\ <<y>> \in Seq(Requests)
  OBVIOUS
<1>2. q \in Seq(Requests) /\ Len(q) = 2 /\ q[1] = x /\ q[2] = y
  <2>1. Len(<<x>>) = 1 /\ Len(<<y>>) = 1 /\ <<x>>[1] = x /\ <<y>>[1] = y
    OBVIOUS
  <2> QED BY <1>1, <2>1, ConcatProperties
<1>3. Hits(q, Asks(s)) = Hits(<<x>>, Asks(s)) + Hits(<<y>>, Asks(s))
  BY <1>1, HitsConcat
<1>4. /\ Hits(<<x>>, Asks(s)) = IF x \in Asks(s) THEN 1 ELSE 0
      /\ Hits(<<y>>, Asks(s)) = IF y \in Asks(s) THEN 1 ELSE 0
  BY HitsOne
<1>5. (x \in Asks(s) <=> a \in Reporting) /\ (y \in Asks(s) <=> b \in Reporting)
  BY DEF Asks
<1> HIDE DEF q
<1>6. OpOf(q, 1, s) = a /\ OpOf(q, 2, s) = b
  BY <1>2 DEF OpOf
<1>7. \A i \in 1 .. Len(q) : q[i].s = s /\ q[i].op # "restart"
  BY <1>2
<1>8. Pushes(q, s, a, b)
  BY <1>2, <1>3, <1>4, <1>5, <1>6, <1>7 DEF Pushes
<1> QED BY <1>8 DEF q

\* What the multiplexing asks, and that with a distance to be tracked after it.
LEMMA SinglePushes ==
  ASSUME NEW q, NEW s, Single(q, s)
  PROVE  \E a \in TimeOps \cup {"none"} : Pushes(q, s, a, "none") /\ (a = "none" <=> q = <<>>)
<1>1. CASE q = <<>>
  BY <1>1, PushesNone
<1>2. CASE q # <<>>
  <2>1. PICK x \in Requests : q = <<x>> /\ x.s = s /\ x.op \in TimeOps
    BY <1>2 DEF Single
  <2>2. PICK a \in TimeOps : a = x.op
    BY <2>1
  <2>3. Pushes(q, s, a, "none")
    BY <2>1, <2>2, PushesOne DEF TimeOps
  <2> QED BY <1>2, <2>2, <2>3 DEF TimeOps
<1> QED BY <1>1, <1>2

LEMMA DistancePushes ==
  ASSUME NEW q, NEW s, Single(q, s), NEW y \in Requests, y.s = s, y.op = "dquiet"
  PROVE  \E a, b : /\ Pushes(q \o <<y>>, s, a, b)
                   /\ \/ a \in TimeOps /\ b = "dquiet" /\ q # <<>>
                      \/ a = "dquiet" /\ b = "none" /\ q = <<>>
<1>1. PICK d : d = "dquiet"
  OBVIOUS
<1>2. CASE q = <<>>
  <2>1. q \o <<y>> = <<y>>
    BY <1>2
  <2>2. Pushes(<<y>>, s, d, "none")
    BY <1>1, PushesOne
  <2> QED BY <1>1, <1>2, <2>1, <2>2
<1>3. CASE q # <<>>
  <2>1. PICK x \in Requests : q = <<x>> /\ x.s = s /\ x.op \in TimeOps
    BY <1>3 DEF Single
  <2>2. PICK a \in TimeOps : a = x.op
    BY <2>1
  <2>3. Pushes(q \o <<y>>, s, a, d)
    BY <1>1, <2>1, <2>2, PushesTwo DEF TimeOps
  <2> QED BY <1>1, <1>3, <2>3
<1> QED BY <1>2, <1>3

LEMMA PushesMine ==
  ASSUME Types, NEW s, NEW r, NEW a, NEW b, Pushes(r, s, a, b), Moves(0, r), NEW L, L = Len(modem)
  PROVE  Pushed(s, L, a, b)
<1>1. L \in Nat /\ Len(r) \in Nat /\ Len(r) <= 2 /\ OpOf(r, 1, s) = a /\ OpOf(r, 2, s) = b
  BY Places DEF Pushes
<1>2. \A i \in Pos : Op(i, s)' = IF i <= L THEN Op(i + 0, s) ELSE OpOf(r, i - L, s)
  BY <1>1, OpMoves
<1>3. \A i \in Pos : i > L => Op(i, s) = "none"
  BY <1>1 DEF Op, OpOf
<1>4. ASSUME NEW i \in Pos
      PROVE  Op(i, s)' = IF i <= L THEN Op(i, s)
                         ELSE IF i = L + 1 THEN a ELSE IF i = L + 2 THEN b ELSE "none"
  <2>1. CASE i <= L
    BY <1>2, <2>1 DEF Pos
  <2>2. CASE i = L + 1
    BY <1>1, <1>2, <2>2
  <2>3. CASE i = L + 2
    BY <1>1, <1>2, <2>3
  <2>4. CASE i > L + 2
    <3>1. i - L \notin 1 .. Len(r)
      <4>1. L \in Nat /\ Len(r) <= 2 /\ Len(r) \in Nat
        BY <1>1
      <4> QED BY <2>4, <4>1 DEF Pos
    <3>2. OpOf(r, i - L, s) = "none"
      BY <3>1 DEF OpOf
    <3> QED BY <1>1, <1>2, <2>4, <3>2 DEF Pos
  <2> QED BY <1>1, <2>1, <2>2, <2>3, <2>4 DEF Pos
<1> QED BY <1>1, <1>3, <1>4 DEF Pushed

LEMMA PopsMine ==
  ASSUME Types, NEW s, NEW r, NEW a, Pushes(r, s, a, "none"), Moves(1, r),
         NEW L, L = Len(modem) - 1
  PROVE  Popped(s, L, a)
<1>1. L \in Nat /\ Len(r) \in Nat /\ Len(r) <= 2 /\ OpOf(r, 1, s) = a /\ OpOf(r, 2, s) = "none" /\ Len(modem) = L + 1
  BY Places, Queued DEF Pushes
<1>2. \A i \in Pos : Op(i, s)' = IF i <= L THEN Op(i + 1, s) ELSE OpOf(r, i - L, s)
  BY <1>1, OpMoves
<1>3. \A i \in Pos : i > L + 1 => Op(i, s) = "none"
  BY <1>1 DEF Op, OpOf
<1>4. ASSUME NEW i \in Pos
      PROVE  Op(i, s)' = IF i <= L THEN Op(i + 1, s) ELSE IF i = L + 1 THEN a ELSE "none"
  <2>1. CASE i <= L
    BY <1>2, <2>1
  <2>2. CASE i = L + 1
    BY <1>1, <1>2, <2>2
  <2>3. CASE i = L + 2
    BY <1>1, <1>2, <2>3
  <2>4. CASE i > L + 2
    <3>1. i - L \notin 1 .. Len(r)
      <4>1. L \in Nat /\ Len(r) <= 2 /\ Len(r) \in Nat
        BY <1>1
      <4> QED BY <2>4, <4>1 DEF Pos
    <3>2. OpOf(r, i - L, s) = "none"
      BY <3>1 DEF OpOf
    <3> QED BY <1>1, <1>2, <2>4, <3>2 DEF Pos
  <2> QED BY <1>1, <2>1, <2>2, <2>3, <2>4 DEF Pos
<1> QED BY <1>1, <1>3, <1>4 DEF Popped

\* A step that concerns other sessions.
Foreign(q, t) == \A i \in 1 .. Len(q) : q[i].s # t \/ q[i].op = "restart"

LEMMA Elsewhere ==
  ASSUME Types, NEW t \in Sessions, NEW k, NEW r, Moves(k, r), Foreign(r, t),
         k = 1 => Op(1, t) = "none"
  PROVE  /\ k \in {0, 1} /\ \A i \in Pos : Op(i, t)' = Op(i + k, t)
         /\ Hits(modem', Asks(t)) = Hits(modem, Asks(t)) /\ Hits(modem, Asks(t)) \in Nat
         /\ Hits(r, Asks(t)) = 0
<1> DEFINE L == Len(modem) - k
<1>1. k \in {0, 1} /\ L \in Nat /\ Len(modem) \in Nat /\ Len(modem) = L + k /\ r \in Seq(Requests)
  BY Queued, Places DEF Moves
<1>2. \A i \in Pos : Op(i, t)' = IF i <= L THEN Op(i + k, t) ELSE OpOf(r, i - L, t)
  BY OpMoves
<1> HIDE DEF L
<1>3. \A i : OpOf(r, i, t) = "none"
  BY DEF Foreign, OpOf
<1>4. \A i \in Pos : ~(i <= L) => Op(i + k, t) = "none"
  BY <1>1 DEF Op, OpOf, Pos
<1>5. Hits(r, Asks(t)) = 0
  BY <1>1, <1>3, AskedOf DEF Reporting, TimeOps, Strict
<1>6. ~(k = 1 /\ Head(modem) \in Asks(t))
  <2> SUFFICES ASSUME k = 1, Head(modem) \in Asks(t) PROVE FALSE
    OBVIOUS
  <2>1. modem # <<>> /\ Head(modem) = modem[1] /\ 1 \in 1 .. Len(modem)
    BY <1>1, EmptySeq DEF Moves, Types
  <2>2. Op(1, t) = Head(modem).op
    BY <2>1 DEF Op, OpOf, Asks, Reporting, TimeOps, Strict
  <2> QED BY <2>2 DEF Asks, Reporting, TimeOps, Strict
<1>7. Hits(modem', Asks(t)) = Hits(modem, Asks(t)) /\ Hits(modem, Asks(t)) \in Nat
  BY <1>5, <1>6, HitsMove
<1> QED BY <1>1, <1>2, <1>3, <1>4, <1>5, <1>7

-----------------------------------------------------------------------------
(* The commands that wait for the capabilities of the engine.               *)

LEMMA PendingAdds ==
  ASSUME Types, ~known, NEW m \in Waiters, waiting' = Append(waiting, m), resent' = resent
  PROVE  /\ waiting' \in Seq(Waiters) /\ resent' = <<>>
         /\ \A t \in Sessions :
              /\ Hits(Pending', Waits(t)) = Hits(Pending, Waits(t)) + IF m.s = t THEN 1 ELSE 0
              /\ Hits(Pending, Waits(t)) \in Nat
              /\ Pends(t)' <=> Pends(t) \/ m.s = t
              /\ StartPends(t)' => StartPends(t) \/ (m.s = t /\ m.cmd = "start")
<1>1. resent = <<>> /\ waiting \in Seq(Waiters) /\ <<m>> \in Seq(Waiters)
  BY DEF Types
<1>2. Pending = waiting /\ Pending' = waiting \o <<m>> /\ waiting' \in Seq(Waiters) /\ Pending' = waiting'
  BY <1>1 DEF Pending
<1> DEFINE q == waiting'
<1>3. /\ Len(waiting) \in Nat /\ Len(q) = Len(waiting) + 1 /\ q[Len(waiting) + 1] = m
      /\ \A i \in 1 .. Len(waiting) : q[i] = waiting[i]
  BY <1>1 DEF Types
<1>4. DOMAIN q = 1 .. Len(waiting) + 1 /\ DOMAIN waiting = 1 .. Len(waiting)
  BY <1>1, <1>2, <1>3
<1> HIDE DEF q
<1>5. ASSUME NEW t \in Sessions
      PROVE  /\ Hits(Pending', Waits(t)) = Hits(Pending, Waits(t)) + IF m.s = t THEN 1 ELSE 0
             /\ Hits(Pending, Waits(t)) \in Nat
  <2>1. Hits(<<m>>, Waits(t)) = IF m.s = t THEN 1 ELSE 0
    BY HitsOne DEF Waits
  <2>2. Hits(waiting \o <<m>>, Waits(t)) = Hits(waiting, Waits(t)) + Hits(<<m>>, Waits(t))
    BY <1>1, HitsConcat
  <2>3. Hits(waiting, Waits(t)) \in Nat
    BY <1>1, HitsOf
  <2> QED BY <1>2, <2>1, <2>2, <2>3
<1>6. ASSUME NEW t \in Sessions
      PROVE  Pends(t)' <=> Pends(t) \/ m.s = t
  <2>1. Pends(t)' <=> \E i \in 1 .. Len(waiting) + 1 : q[i].s = t
    BY <1>2, <1>4 DEF Pends, Pending, q
  <2>2. Pends(t) <=> \E i \in 1 .. Len(waiting) : waiting[i].s = t
    BY <1>2, <1>4 DEF Pends, Pending
  <2> QED BY <1>3, <2>1, <2>2
<1>7. ASSUME NEW t \in Sessions, StartPends(t)'
      PROVE  StartPends(t) \/ (m.s = t /\ m.cmd = "start")
  <2>1. PICK i \in 1 .. Len(waiting) + 1 : q[i].s = t /\ q[i].cmd = "start"
    BY <1>2, <1>4, <1>7 DEF StartPends, q
  <2>2. StartPends(t) <=> \E j \in 1 .. Len(waiting) : waiting[j].s = t /\ waiting[j].cmd = "start"
    BY <1>2, <1>4 DEF StartPends
  <2> QED BY <1>3, <2>1, <2>2
<1> QED BY <1>1, <1>2, <1>5, <1>6, <1>7

LEMMA PendingTakes ==
  ASSUME Types, resent # <<>>, resent' = Tail(resent), waiting' = waiting
  PROVE  /\ waiting' = <<>> /\ resent' \in Seq(Waiters) /\ known
         /\ Head(resent) \in Waiters /\ Pends(Head(resent).s)
         /\ Head(resent).cmd = "start" => StartPends(Head(resent).s)
         /\ \A t \in Sessions :
              /\ Hits(Pending', Waits(t)) = Hits(Pending, Waits(t)) - IF Head(resent).s = t THEN 1 ELSE 0
              /\ Hits(Pending, Waits(t)) \in Nat
              /\ Pends(t)' <=> Hits(Pending', Waits(t)) # 0
              /\ Pends(t) <=> Hits(Pending, Waits(t)) # 0
              /\ StartPends(t)' => StartPends(t)
<1>1. known /\ waiting = <<>> /\ resent \in Seq(Waiters)
  BY DEF Types
<1>2. Pending = resent /\ Pending' = Tail(resent) /\ Tail(resent) \in Seq(Waiters)
  BY <1>1 DEF Pending
<1>3. /\ Len(resent) \in Nat /\ 1 \in 1 .. Len(resent) /\ Head(resent) = resent[1] /\ Head(resent) \in Waiters
      /\ DOMAIN resent = 1 .. Len(resent) /\ DOMAIN Tail(resent) = 1 .. Len(resent) - 1
      /\ \A i \in 1 .. Len(resent) - 1 : i + 1 \in 1 .. Len(resent) /\ Tail(resent)[i] = resent[i + 1]
  BY <1>1
<1>4. ASSUME NEW t \in Sessions
      PROVE  /\ Hits(Pending', Waits(t)) = Hits(Pending, Waits(t)) - IF Head(resent).s = t THEN 1 ELSE 0
             /\ Hits(Pending, Waits(t)) \in Nat
             /\ Pends(t)' <=> Hits(Pending', Waits(t)) # 0
             /\ Pends(t) <=> Hits(Pending, Waits(t)) # 0
  <2>1. Head(resent) \in Waits(t) <=> Head(resent).s = t
    BY <1>3 DEF Waits
  <2>2. Hits(Tail(resent), Waits(t)) = Hits(resent, Waits(t)) - IF Head(resent) \in Waits(t) THEN 1 ELSE 0
    BY <1>1, HitsTail
  <2>3. Hits(resent, Waits(t)) \in Nat /\ (Hits(resent, Waits(t)) = 0 <=> ~ \E i \in DOMAIN resent : resent[i].s = t)
    BY <1>1, WaitsOf
  <2>4. Hits(Tail(resent), Waits(t)) = 0 <=> ~ \E i \in DOMAIN Tail(resent) : Tail(resent)[i].s = t
    BY <1>2, WaitsOf
  <2>5. Pends(t) <=> \E i \in DOMAIN resent : resent[i].s = t
    BY <1>2 DEF Pends, Pending
  <2>6. Pends(t)' <=> \E i \in DOMAIN Tail(resent) : Tail(resent)[i].s = t
    BY <1>2 DEF Pends, Pending
  <2> QED BY <1>2, <2>1, <2>2, <2>3, <2>4, <2>5, <2>6
<1>5. ASSUME NEW t \in Sessions, StartPends(t)' PROVE StartPends(t)
  <2>1. PICK i \in 1 .. Len(resent) - 1 : Tail(resent)[i].s = t /\ Tail(resent)[i].cmd = "start"
    BY <1>2, <1>3, <1>5 DEF StartPends
  <2> QED BY <1>2, <1>3, <2>1 DEF StartPends
<1>6. Pends(Head(resent).s) /\ (Head(resent).cmd = "start" => StartPends(Head(resent).s))
  BY <1>2, <1>3 DEF Pends, StartPends, Pending
<1> QED BY <1>1, <1>2, <1>3, <1>4, <1>5, <1>6

LEMMA PendingBack ==
  ASSUME Types, resent' = resent \o waiting, waiting' = <<>>
  PROVE  resent' \in Seq(Waiters) /\ Pending' = Pending
<1>1. waiting = <<>> \/ resent = <<>>
  BY DEF Types
<1>2. waiting \in Seq(Waiters) /\ resent \in Seq(Waiters)
  BY DEF Types
<1>3. CASE waiting = <<>>
  BY <1>2, <1>3 DEF Pending
<1>4. CASE resent = <<>>
  BY <1>2, <1>4 DEF Pending
<1> QED BY <1>1, <1>3, <1>4

LEMMA PendingSame ==
  ASSUME Types, UNCHANGED <<waiting, resent>>
  PROVE  /\ Pending' = Pending
         /\ \A t : (Pends(t)' <=> Pends(t)) /\ (StartPends(t)' <=> StartPends(t))
BY DEF Pending, Pends, StartPends

-----------------------------------------------------------------------------
(* The handlers of the commands.                                            *)

\* A command of session s, new if n = 1, asks a and b of the engine, and is
\* answered at once when neither brings an answer.
Takes(s, n, a, b) ==
  \E r : /\ Pushes(r, s, a, b) /\ Moves(0, r) /\ Serves(r)
         /\ due' = [due EXCEPT ![s] = @ + n - 1 + Hits(r, Asks(s))]

\* Its session alone is saved or erased.
Saves(s) ==
  /\ time' \in [Sessions -> TimeOptions] /\ dist' \subseteq Sessions
  /\ \A t \in Sessions \ {s} : time'[t] = time[t] /\ (t \in dist' <=> t \in dist)

LEMMA ServesQuietly ==
  ASSUME NEW r, \A i \in 1 .. Len(r) : r[i].op \notin FixOps, time' = time
  PROVE  Serves(r)
<1>1. ASSUME NEW on \in BOOLEAN, NEW ivl \in Nat, Agrees(on, ivl)
      PROVE  Agrees(on, ivl)'
  BY <1>1 DEF Agrees, InTime
<1> QED BY <1>1 DEF Serves

LEMMA ServesFirst ==
  ASSUME NEW q, NEW s, Single(q, s), Serves(q), NEW y \in Requests, y.op \notin FixOps
  PROVE  Serves(q \o <<y>>)
<1>1. CASE q = <<>>
  <2>1. q \o <<y>> = <<y>> /\ Len(<<y>>) = 1 /\ <<y>>[1] = y
    BY <1>1
  <2>2. ~ \E i \in 1 .. Len(q) : q[i].op \in FixOps
    BY <1>1
  <2>3. \A on \in BOOLEAN, ivl \in Nat : Agrees(on, ivl) => Agrees(on, ivl)'
    BY <2>2, Zenon DEF Serves
  <2>4. ~ \E i \in 1 .. Len(q \o <<y>>) : (q \o <<y>>)[i].op \in FixOps
    BY <2>1
  <2> QED BY <2>3, <2>4, Zenon DEF Serves
<1>2. CASE q # <<>>
  <2>1. PICK x \in Requests : q = <<x>> /\ x.op \in TimeOps
    BY <1>2 DEF Single
  <2>2. <<x>> \in Seq(Requests) /\ <<y>> \in Seq(Requests)
    OBVIOUS
  <2> DEFINE p == q \o <<y>>
  <2>3. Len(p) = 2 /\ p[1] = x /\ p[2] = y /\ Len(q) = 1 /\ q[1] = x
    <3>1. Len(<<x>>) = 1 /\ Len(<<y>>) = 1 /\ <<x>>[1] = x /\ <<y>>[1] = y
      OBVIOUS
    <3> QED BY <2>1, <2>2, <3>1, ConcatProperties
  <2> HIDE DEF p
  <2>4. x.op \in FixOps
    BY <2>1 DEF FixOps
  <2>5. 1 \in 1 .. Len(q) /\ 1 \in 1 .. Len(p) /\ \A i \in 2 .. Len(p) : i = 2
    BY <2>3
  <2>6. Agrees(q[1].op # "stop", q[1].ivl)'
    BY <2>3, <2>4, <2>5, Zenon DEF Serves
  <2>7. modem' = modem' /\ Agrees(p[1].op # "stop", p[1].ivl)'
    BY <2>3, <2>6
  <2>8. Serves(p)
    BY <2>3, <2>4, <2>5, <2>7 DEF Serves
  <2> QED BY <2>8 DEF p
<1> QED BY <1>1, <1>2

LEMMA TakesNothing ==
  ASSUME Types, NEW s \in Sessions, NEW n \in {0, 1}, Owe(s, n, TRUE), modem' = modem, time' = time
  PROVE  Takes(s, n, "none", "none")
<1>1. Pushes(<<>>, s, "none", "none") /\ Hits(<<>>, Asks(s)) = 0
  BY PushesNone, HitsOne
<1>2. Moves(0, <<>>)
  BY DEF Moves, Rest, Types
<1>3. Serves(<<>>)
  <2>1. \A i \in 1 .. Len(<<>>) : <<>>[i].op \notin FixOps
    OBVIOUS
  <2> QED BY <2>1, ServesQuietly
<1>4. due' = [due EXCEPT ![s] = @ + n - 1 + Hits(<<>>, Asks(s))]
  <2>1. PICK w \in {0, 1} : w = 1
    OBVIOUS
  <2>2. due' = [due EXCEPT ![s] = @ + n - w]
    BY <2>1 DEF Owe
  <2>3. PICK h \in Nat : h = Hits(<<>>, Asks(s)) /\ h = 1 - w
    BY <1>1, <2>1
  <2>4. due' = [due EXCEPT ![s] = @ + n - 1 + h]
    <3>1. due[s] + n - w = due[s] + n - 1 + h
      <4>1. due[s] \in Int
        BY DEF Types
      <4> QED BY <2>3, <4>1
    <3> QED BY <2>2, <3>1
  <2> QED BY <2>3, <2>4
<1> QED BY <1>1, <1>2, <1>3, <1>4 DEF Takes

LEMMA TakesStrict ==
  ASSUME Types, NEW s \in Sessions, NEW n \in {0, 1}, NEW x \in Requests, x.s = s,
         NEW a \in Strict, x.op = a,
         Ask(<<x>>), Owe(s, n, FALSE), time' = time
  PROVE  Takes(s, n, a, "none")
<1>1. Pushes(<<x>>, s, a, "none")
  BY PushesOne DEF Strict
<1>2. Moves(0, <<x>>)
  BY DEF Moves, Rest, Ask
<1>3. Serves(<<x>>)
  <2>1. \A i \in 1 .. Len(<<x>>) : <<x>>[i] = x
    OBVIOUS
  <2>2. x.op \notin FixOps
    BY DEF FixOps, TimeOps, Strict
  <2> QED BY <2>1, <2>2, ServesQuietly
<1>4. Hits(<<x>>, Asks(s)) = 1
  BY <1>1 DEF Pushes, Reporting, TimeOps, Strict
<1>5. due' = [due EXCEPT ![s] = @ + n - 1 + Hits(<<x>>, Asks(s))]
  <2>1. PICK w \in {0, 1} : w = 0
    OBVIOUS
  <2>2. due' = [due EXCEPT ![s] = @ + n - w]
    BY <2>1 DEF Owe
  <2>3. PICK h \in Nat : h = Hits(<<x>>, Asks(s)) /\ h = 1 - w
    BY <1>4, <2>1
  <2>4. due' = [due EXCEPT ![s] = @ + n - 1 + h]
    <3>1. due[s] + n - w = due[s] + n - 1 + h
      <4>1. due[s] \in Int
        BY DEF Types
      <4> QED BY <2>3, <4>1
    <3> QED BY <2>2, <3>1
  <2> QED BY <2>3, <2>4
<1> QED BY <1>1, <1>2, <1>3, <1>5 DEF Takes

LEMMA TakesSingle ==
  ASSUME Types, NEW s \in Sessions, NEW n \in {0, 1}, NEW q, Single(q, s), Serves(q),
         Ask(q), Owe(s, n, q = <<>>)
  PROVE  \E a \in TimeOps \cup {"none"} : Takes(s, n, a, "none")
<1>1. PICK a \in TimeOps \cup {"none"} : Pushes(q, s, a, "none") /\ (a = "none" <=> q = <<>>)
  BY SinglePushes
<1>2. Moves(0, q)
  BY <1>1 DEF Moves, Rest, Ask, Pushes
<1>3. Hits(q, Asks(s)) = IF q = <<>> THEN 0 ELSE 1
  BY <1>1 DEF Pushes, Reporting, TimeOps, Strict
<1>4. due' = [due EXCEPT ![s] = @ + n - 1 + Hits(q, Asks(s))]
  <2>1. PICK w \in {0, 1} : w = IF q = <<>> THEN 1 ELSE 0
    OBVIOUS
  <2>2. due' = [due EXCEPT ![s] = @ + n - w]
    BY <2>1 DEF Owe
  <2>3. PICK h \in Nat : h = Hits(q, Asks(s)) /\ h = 1 - w
    BY <1>3, <2>1
  <2>4. due' = [due EXCEPT ![s] = @ + n - 1 + h]
    <3>1. due[s] + n - w = due[s] + n - 1 + h
      <4>1. due[s] \in Int
        BY DEF Types
      <4> QED BY <2>3, <4>1
    <3> QED BY <2>2, <3>1
  <2> QED BY <2>3, <2>4
<1> QED BY <1>1, <1>2, <1>4 DEF Takes

\* A session switched to distance.
Turns(a, b) ==
  \/ a \in TimeOps /\ b = "dquiet"
  \/ a = "dquiet" /\ b = "none"

LEMMA TakesDistance ==
  ASSUME Types, NEW s \in Sessions, NEW n \in {0, 1}, NEW q, Single(q, s), Serves(q),
         NEW y \in Requests, y.s = s, y.op = "dquiet",
         Ask(q \o <<y>>), Owe(s, n, q = <<>>)
  PROVE  \E a, b : Turns(a, b) /\ Takes(s, n, a, b)
<1>1. PICK a, b : /\ Pushes(q \o <<y>>, s, a, b)
                  /\ \/ a \in TimeOps /\ b = "dquiet" /\ q # <<>>
                     \/ a = "dquiet" /\ b = "none" /\ q = <<>>
  BY DistancePushes
<1> DEFINE r == q \o <<y>>
<1> HIDE DEF r
<1>2. Moves(0, r)
  BY <1>1 DEF Moves, Rest, Ask, Pushes, r
<1>3. Serves(r)
  BY ServesFirst DEF FixOps, TimeOps, r
<1>4. Hits(r, Asks(s)) = IF q = <<>> THEN 0 ELSE 1
  BY <1>1 DEF Pushes, Reporting, TimeOps, Strict, r
<1>5. due' = [due EXCEPT ![s] = @ + n - 1 + Hits(r, Asks(s))]
  <2>1. PICK w \in {0, 1} : w = IF q = <<>> THEN 1 ELSE 0
    OBVIOUS
  <2>2. due' = [due EXCEPT ![s] = @ + n - w]
    BY <2>1 DEF Owe
  <2>3. PICK h \in Nat : h = Hits(r, Asks(s)) /\ h = 1 - w
    BY <1>4, <2>1
  <2>4. due' = [due EXCEPT ![s] = @ + n - 1 + h]
    <3>1. due[s] + n - w = due[s] + n - 1 + h
      <4>1. due[s] \in Int
        BY DEF Types
      <4> QED BY <2>3, <4>1
    <3> QED BY <2>2, <3>1
  <2> QED BY <2>3, <2>4
<1> QED BY <1>1, <1>2, <1>3, <1>5 DEF Takes, Turns, r

\* What a command leaves: the queue of its session, the answers of all.
LEMMA CommandTaken ==
  ASSUME Types, NEW s \in Sessions, NEW n \in {0, 1}, NEW a, NEW b, Takes(s, n, a, b)
  PROVE  /\ modem' \in Seq(Requests) /\ due' \in [Sessions -> Int]
         /\ Pushed(s, Len(modem), a, b)
         /\ \A t \in Sessions \ {s} : \A i \in Pos : Op(i, t)' = Op(i, t)
         /\ \A t \in Sessions :
              /\ Hits(modem', Asks(t)) \in Nat /\ Hits(modem, Asks(t)) \in Nat
              /\ due'[t] = due[t] + Hits(modem', Asks(t)) - Hits(modem, Asks(t))
                           + IF t = s THEN n - 1 ELSE 0
         /\ Hits(modem', Asks(s)) = Hits(modem, Asks(s))
              + (IF a \in Reporting THEN 1 ELSE 0) + (IF b \in Reporting THEN 1 ELSE 0)
<1>1. PICK r : /\ Pushes(r, s, a, b) /\ Moves(0, r)
               /\ due' = [due EXCEPT ![s] = @ + n - 1 + Hits(r, Asks(s))]
  BY DEF Takes
<1>2. PICK h \in Nat : h = Hits(r, Asks(s)) /\ h = (IF a \in Reporting THEN 1 ELSE 0) + (IF b \in Reporting THEN 1 ELSE 0)
  BY <1>1 DEF Pushes
<1>3. \A t \in Sessions : due[t] \in Int
  BY DEF Types
<1>4. /\ due' \in [Sessions -> Int] /\ due'[s] = due[s] + n - 1 + h
      /\ \A t \in Sessions \ {s} : due'[t] = due[t]
  BY <1>1, <1>2 DEF Types
<1>5. modem' \in Seq(Requests) /\ Pushed(s, Len(modem), a, b)
  BY <1>1, Queued, PushesMine, Places
<1>6. ASSUME NEW t \in Sessions \ {s}
      PROVE  /\ \A i \in Pos : Op(i, t)' = Op(i, t)
             /\ Hits(modem', Asks(t)) = Hits(modem, Asks(t)) /\ Hits(modem, Asks(t)) \in Nat
  <2>1. Foreign(r, t)
    BY <1>1, <1>6 DEF Pushes, Foreign
  <2>2. /\ \A i \in Pos : Op(i, t)' = Op(i + 0, t)
        /\ Hits(modem', Asks(t)) = Hits(modem, Asks(t)) /\ Hits(modem, Asks(t)) \in Nat
    BY <1>1, <2>1, Elsewhere
  <2> QED BY <2>2 DEF Pos
<1>7. Hits(modem', Asks(s)) = Hits(modem, Asks(s)) + h /\ Hits(modem, Asks(s)) \in Nat
  <2>1. Hits(modem', Asks(s)) = Hits(modem, Asks(s)) + Hits(r, Asks(s)) - 0
    BY <1>1, HitsMove
  <2>2. Hits(modem, Asks(s)) \in Nat
    BY OwingIs
  <2>3. h \in Nat /\ h = Hits(r, Asks(s))
    BY <1>2
  <2> QED BY <2>1, <2>2, <2>3
<1>8. ASSUME NEW t \in Sessions
      PROVE  /\ Hits(modem', Asks(t)) \in Nat /\ Hits(modem, Asks(t)) \in Nat
             /\ due'[t] = due[t] + Hits(modem', Asks(t)) - Hits(modem, Asks(t))
                          + IF t = s THEN n - 1 ELSE 0
  <2>1. CASE t = s
    BY <1>2, <1>3, <1>4, <1>7, <2>1
  <2>2. CASE t # s
    BY <1>3, <1>4, <1>6, <2>2
  <2> QED BY <2>1, <2>2
<1> QED BY <1>2, <1>4, <1>5, <1>6, <1>7, <1>8

-----------------------------------------------------------------------------
(* A command and the answers owed.                                          *)

\* Never less than what is on its way.
Owed(s) == ClientOf[s] \in clients => due[s] >= Owing(s)

\* What is owed to t and what is on its way to it change together.
Evenly(t) ==
  /\ due[t] \in Int /\ Owing(t) \in Int /\ due'[t] \in Int /\ Owing(t)' \in Int
  /\ due'[t] - Owing(t)' = due[t] - Owing(t)

LEMMA EvenlyOwed ==
  ASSUME NEW t, Evenly(t), clients' \subseteq clients
  PROVE  (Owed(t) => Owed(t)') /\ (Exact(t) => Exact(t)')
BY DEF Evenly, Owed, Exact

LEMMA CommandEven ==
  ASSUME Types, NEW s \in Sessions, NEW n \in {0, 1}, NEW a, NEW b, Takes(s, n, a, b),
         NEW t \in Sessions, Hits(Pending, Waits(t)) \in Nat,
         Hits(Pending', Waits(t)) = Hits(Pending, Waits(t)) + IF t = s THEN n - 1 ELSE 0
  PROVE  Evenly(t)
<1>1. /\ Hits(modem', Asks(t)) \in Nat /\ Hits(modem, Asks(t)) \in Nat
      /\ due'[t] = due[t] + Hits(modem', Asks(t)) - Hits(modem, Asks(t)) + IF t = s THEN n - 1 ELSE 0
  BY CommandTaken
<1>2. Owing(t) = Hits(modem, Asks(t)) + Hits(Pending, Waits(t))
  BY DEF Owing
<1>3. Owing(t)' = Hits(modem', Asks(t)) + Hits(Pending', Waits(t))
  BY DEF Owing, Asks, Waits
<1>4. due[t] \in Int
  BY DEF Types
<1>5. PICK d \in Int : d = IF t = s THEN n - 1 ELSE 0
  OBVIOUS
<1>6. due'[t] = due[t] + Hits(modem', Asks(t)) - Hits(modem, Asks(t)) + d
  BY <1>1, <1>5
<1>7. Hits(Pending', Waits(t)) = Hits(Pending, Waits(t)) + d
  BY <1>5
<1> QED BY <1>1, <1>2, <1>3, <1>4, <1>5, <1>6, <1>7 DEF Evenly

\* What is the same for the sessions that a command is not about.
LEMMA CommandOthers ==
  ASSUME Types, NEW s \in Sessions, NEW n \in {0, 1}, NEW a, NEW b, Takes(s, n, a, b), Saves(s),
         NEW t \in Sessions \ {s}, Sound(t), UNCHANGED <<clients, up, engineDist>>,
         t \in begun' <=> t \in begun,
         Hits(Pending', Waits(t)) = Hits(Pending, Waits(t)), Hits(Pending, Waits(t)) \in Nat,
         Pends(t)' <=> Pends(t), StartPends(t)' => StartPends(t)
  PROVE  Sound(t)'
<1>1. \A i \in Pos : Op(i, t)' = Op(i + 0, t)
  BY CommandTaken DEF Pos
<1>2. /\ Hits(modem', Asks(t)) \in Nat /\ Hits(modem, Asks(t)) \in Nat
      /\ due'[t] = due[t] + Hits(modem', Asks(t)) - Hits(modem, Asks(t)) + 0
  BY CommandTaken
<1>3. Evenly(t)
  <2>1. Hits(Pending', Waits(t)) = Hits(Pending, Waits(t)) + IF t = s THEN n - 1 ELSE 0
    OBVIOUS
  <2> QED BY <2>1, CommandEven
<1>4. Hits(modem', Asks(t)) = Hits(modem, Asks(t))
  <2>1. PICK r : Pushes(r, s, a, b) /\ Moves(0, r)
    BY DEF Takes
  <2>2. Foreign(r, t)
    BY <2>1 DEF Pushes, Foreign
  <2> QED BY <2>1, <2>2, Elsewhere
<1>5. due'[t] = due[t] /\ Owing(t)' = Owing(t)
  <2>1. due[t] \in Int
    BY DEF Types
  <2>2. Owing(t)' = Owing(t)
    BY <1>4 DEF Owing, Asks, Waits
  <2> QED BY <1>2, <1>4, <2>1, <2>2
<1>6. Around(t)
  BY DEF Around
<1>7. (t \in dist' <=> t \in dist) /\ (t \in InTime' <=> t \in InTime)
  BY DEF Saves, InTime
<1> QED BY <1>1, <1>5, <1>6, <1>7, Untouched

\* A new command, processed at once ...
LEMMA NewTaken ==
  ASSUME Types, NEW s \in Sessions, NEW a, NEW b, Takes(s, 1, a, b), Saves(s),
         UNCHANGED <<clients, waiting, resent, up, engineDist>>, begun' \in {begun, begun \cup {s}}
  PROVE  /\ \A t \in Sessions : (Owed(t) => Owed(t)') /\ (Exact(t) => Exact(t)')
         /\ \A t \in Sessions \ {s} : Sound(t) => Sound(t)'
         /\ (Pends(s)' <=> Pends(s)) /\ (StartPends(s)' <=> StartPends(s))
<1>1. Pending' = Pending /\ \A t : (Pends(t)' <=> Pends(t)) /\ (StartPends(t)' <=> StartPends(t))
  BY PendingSame
<1>2. \A t \in Sessions : Hits(Pending, Waits(t)) \in Nat
  BY OwingIs
<1>3. ASSUME NEW t \in Sessions
      PROVE  Evenly(t)
  <2>1. Hits(Pending', Waits(t)) = Hits(Pending, Waits(t)) + IF t = s THEN 1 - 1 ELSE 0
    BY <1>1, <1>2
  <2> QED BY <1>2, <2>1, CommandEven
<1>4. ASSUME NEW t \in Sessions \ {s}, Sound(t)
      PROVE  Sound(t)'
  <2>1. Hits(Pending', Waits(t)) = Hits(Pending, Waits(t)) /\ (t \in begun' <=> t \in begun)
    BY <1>1
  <2> QED BY <1>1, <1>2, <1>4, <2>1, CommandOthers
<1> QED BY <1>1, <1>3, <1>4, EvenlyOwed

\* ... and one that has waited.
LEMMA ResentTaken ==
  ASSUME Types, resent # <<>>, NEW s \in Sessions, s = Head(resent).s,
         NEW a, NEW b, Takes(s, 0, a, b), Saves(s),
         resent' = Tail(resent), UNCHANGED <<clients, begun, waiting, up, engineDist>>
  PROVE  /\ \A t \in Sessions : (Owed(t) => Owed(t)') /\ (Exact(t) => Exact(t)')
         /\ \A t \in Sessions \ {s} : Sound(t) => Sound(t)'
         /\ Hits(Pending, Waits(s)) = 1 => ~Pends(s)'
<1>1. /\ \A t \in Sessions :
           /\ Hits(Pending', Waits(t)) = Hits(Pending, Waits(t)) - IF Head(resent).s = t THEN 1 ELSE 0
           /\ Hits(Pending, Waits(t)) \in Nat
           /\ Pends(t)' <=> Hits(Pending', Waits(t)) # 0
           /\ Pends(t) <=> Hits(Pending, Waits(t)) # 0
           /\ StartPends(t)' => StartPends(t)
  BY PendingTakes
<1>2. ASSUME NEW t \in Sessions
      PROVE  Evenly(t)
  <2>1. Hits(Pending', Waits(t)) = Hits(Pending, Waits(t)) + IF t = s THEN 0 - 1 ELSE 0
    BY <1>1
  <2> QED BY <1>1, <2>1, CommandEven
<1>3. ASSUME NEW t \in Sessions \ {s}, Sound(t)
      PROVE  Sound(t)'
  <2>1. /\ Hits(Pending', Waits(t)) = Hits(Pending, Waits(t)) /\ Hits(Pending, Waits(t)) \in Nat
        /\ (Pends(t)' <=> Pends(t)) /\ (StartPends(t)' => StartPends(t))
    BY <1>1
  <2> QED BY <1>3, <2>1, CommandOthers
<1>4. Hits(Pending, Waits(s)) = 1 => ~Pends(s)'
  BY <1>1
<1> QED BY <1>2, <1>3, <1>4, EvenlyOwed

\* A command that has to wait.
LEMMA Waited ==
  ASSUME Types, NEW s \in Sessions, NEW cmd \in {"start", "update"}, NEW o \in Options,
         Wait(cmd, s, o, 1),
         UNCHANGED <<clients, resent, up, engineDist>>, begun' \in {begun, begun \cup {s}}
  PROVE  /\ waiting' \in Seq(Waiters) /\ resent' = <<>> /\ due' \in [Sessions -> Int] /\ modem' = modem
         /\ due'[s] = due[s] + 1
         /\ \A t \in Sessions : (Owed(t) => Owed(t)') /\ (Exact(t) => Exact(t)')
         /\ \A t \in Sessions \ {s} : Sound(t) => Sound(t)'
         /\ \A t \in Sessions, i \in Pos : Op(i, t)' = Op(i, t)
         /\ StartPends(s)' => StartPends(s) \/ cmd = "start"
<1> DEFINE m == Command(cmd, s, o)
<1>1. m \in Waiters /\ m.s = s /\ m.cmd = cmd
  BY DEF Wait, Command, Waiters
<1>2. /\ ~known /\ waiting' = Append(waiting, m) /\ Owe(s, 1, FALSE) /\ modem' = modem
      /\ time' = time /\ dist' = dist
  BY DEF Wait, maps
<1> HIDE DEF m
<1>3. /\ waiting' \in Seq(Waiters) /\ resent' = <<>>
      /\ \A t \in Sessions :
           /\ Hits(Pending', Waits(t)) = Hits(Pending, Waits(t)) + IF m.s = t THEN 1 ELSE 0
           /\ Hits(Pending, Waits(t)) \in Nat
           /\ Pends(t)' <=> Pends(t) \/ m.s = t
           /\ StartPends(t)' => StartPends(t) \/ (m.s = t /\ m.cmd = "start")
  BY <1>1, <1>2, PendingAdds
<1>4. /\ \A t \in Sessions : due[t] \in Int /\ due'[t] = due[t] + IF t = s THEN 1 ELSE 0
      /\ due' \in [Sessions -> Int]
  BY <1>2 DEF Types, Owe
<1>5. \A t \in Sessions, i \in Pos : Op(i, t)' = Op(i, t)
  BY <1>2 DEF Op
<1>6. ASSUME NEW t \in Sessions
      PROVE  Evenly(t)
  <2>1. Hits(modem, Asks(t)) \in Nat
    BY OwingIs
  <2>2. Owing(t) = Hits(modem, Asks(t)) + Hits(Pending, Waits(t))
    BY DEF Owing
  <2>3. Owing(t)' = Hits(modem, Asks(t)) + Hits(Pending', Waits(t))
    BY <1>2 DEF Owing, Asks, Waits
  <2>4. PICK d \in {0, 1} : d = IF t = s THEN 1 ELSE 0
    OBVIOUS
  <2>5. due'[t] = due[t] + d /\ due[t] \in Int
    BY <1>4, <2>4
  <2>6. Hits(Pending', Waits(t)) = Hits(Pending, Waits(t)) + d /\ Hits(Pending, Waits(t)) \in Nat
    BY <1>1, <1>3, <2>4
  <2> QED BY <2>1, <2>2, <2>3, <2>5, <2>6 DEF Evenly
<1>7. ASSUME NEW t \in Sessions \ {s}, Sound(t)
      PROVE  Sound(t)'
  <2>1. /\ Hits(Pending', Waits(t)) = Hits(Pending, Waits(t)) + 0 /\ Hits(Pending, Waits(t)) \in Nat
        /\ (Pends(t)' <=> Pends(t)) /\ (StartPends(t)' => StartPends(t))
    BY <1>1, <1>3
  <2>2. Owing(t)' = Owing(t)
    BY <1>2, <2>1 DEF Owing, Asks, Waits
  <2>3. due'[t] = due[t]
    BY <1>4
  <2>4. Around(t)
    BY <2>1 DEF Around
  <2>5. \A i \in Pos : Op(i, t)' = Op(i + 0, t)
    BY <1>5 DEF Pos
  <2>6. /\ t \in dist' <=> t \in dist
        /\ t \in InTime' <=> t \in InTime
        /\ t \in engineDist' <=> t \in engineDist
    BY <1>2 DEF InTime
  <2> QED BY <1>7, <2>1, <2>2, <2>3, <2>4, <2>5, <2>6, Untouched
<1>8. StartPends(s)' => StartPends(s) \/ cmd = "start"
  BY <1>1, <1>3
<1>9. due'[s] = due[s] + 1
  BY <1>4
<1> QED BY <1>2, <1>3, <1>4, <1>5, <1>6, <1>7, <1>8, <1>9, EvenlyOwed

-----------------------------------------------------------------------------
(* A session that a command is about.                                       *)

LEMMA OpKinds ==
  ASSUME Types, NEW s
  PROVE  \A i \in Pos : Op(i, s) \in Reporting \cup {"dquiet", "dgone", "none"}
BY Places DEF Op, OpOf, Requests, Ops, DistanceOps, Reporting, TimeOps, Strict

LEMMA IdleIs ==
  ASSUME Types, NEW s \in Sessions, Exact(s), due[s] = 0
  PROVE  ~Pends(s) /\ \A i \in Pos : Op(i, s) \notin Reporting
<1>1. /\ Hits(modem, Asks(s)) \in Nat /\ Hits(Pending, Waits(s)) \in Nat
      /\ Hits(modem, Asks(s)) + Hits(Pending, Waits(s)) = 0
  BY OwingIs DEF Exact, Owing
<1>2. Hits(modem, Asks(s)) = 0 /\ Hits(Pending, Waits(s)) = 0
  BY <1>1
<1> QED BY <1>2, OwingIs

LEMMA FreshIdle ==
  ASSUME Types, NEW s \in Sessions, Exact(s), Fresh(s), ~Pends(s)
  PROVE  due[s] = 0 /\ Calm(s)
<1>1. \A i \in Pos : Op(i, s) \notin Reporting
  BY DEF Fresh, Reporting, TimeOps, Strict
<1>2. Hits(modem, Asks(s)) = 0 /\ Hits(Pending, Waits(s)) = 0
  BY <1>1, OwingIs
<1> QED BY <1>2 DEF Exact, Owing, Fresh, Calm

\* A new command about distances finds nothing on its way.
LEMMA CalmNew ==
  ASSUME Types, NEW s \in Sessions, Sound(s), ClientOf[s] \in clients, NEW o, ~Overtakes(s, o),
         o.dist \/ s \in dist
  PROVE  due[s] = 0 /\ Calm(s) /\ ~Pends(s)
<1>1. due[s] = 0
  <2>1. Hits(modem, Asks(s)) \in Nat /\ Hits(Pending, Waits(s)) \in Nat /\ due[s] \in Int
    BY OwingIs DEF Types
  <2>2. due[s] >= 0 /\ due[s] = Hits(modem, Asks(s)) + Hits(Pending, Waits(s))
    BY <2>1 DEF Sound, Exact, Owing
  <2> SUFFICES ASSUME due[s] > 0 PROVE FALSE
    BY <2>1, <2>2
  <2>3. s \in dist /\ ~Pends(s)
    BY DEF Overtakes
  <2>4. \A i \in Pos : Op(i, s) \notin DistanceOps
    <3>1. \A i \in DOMAIN modem : ~(modem[i].s = s /\ modem[i].op \in DistanceOps)
      BY DEF Overtakes
    <3> QED BY <3>1, Places DEF Op, OpOf, DistanceOps
  <2>5. \A i \in Pos : Op(i, s) \notin TimeOps
    BY <2>3, <2>4 DEF Sound, Over, DistanceOps
  <2>6. \A i \in Pos : Op(i, s) \notin Reporting
    BY <2>4, <2>5 DEF Reporting, Strict, DistanceOps
  <2>7. Hits(modem, Asks(s)) = 0 /\ Hits(Pending, Waits(s)) = 0
    BY <2>3, <2>6, OwingIs
  <2> QED BY <2>2, <2>7
<1>2. ~Pends(s) /\ \A i \in Pos : Op(i, s) \notin Reporting
  BY <1>1, IdleIs DEF Sound
<1>3. \A i \in Pos : Op(i, s) # "dgone"
  BY DEF Sound, Gone
<1>4. Calm(s)
  BY <1>2, <1>3, OpKinds DEF Calm
<1> QED BY <1>1, <1>2, <1>4

\* A command that has waited is alone.
LEMMA CalmResent ==
  ASSUME Types, NEW s \in Sessions, Sound(s), Pends(s)
  PROVE  due[s] = 1 /\ Calm(s) /\ Hits(Pending, Waits(s)) = 1 /\ s \in begun
<1>1. due[s] = 1
  BY DEF Sound, Sole
<1>2. /\ Hits(modem, Asks(s)) \in Nat /\ Hits(Pending, Waits(s)) \in Nat /\ Hits(Pending, Waits(s)) # 0
      /\ Hits(modem, Asks(s)) + Hits(Pending, Waits(s)) = 1
  BY <1>1, OwingIs DEF Sound, Exact, Owing
<1>3. Hits(modem, Asks(s)) = 0 /\ Hits(Pending, Waits(s)) = 1
  BY <1>2
<1>4. \A i \in Pos : Op(i, s) \notin Reporting /\ Op(i, s) # "dgone"
  <2>1. \A i \in Pos : Op(i, s) \notin Reporting
    BY <1>3, OwingIs
  <2> QED BY <1>1, <2>1 DEF Sound, Gone
<1>5. Calm(s)
  BY <1>4, OpKinds DEF Calm
<1>6. s \in begun
  BY DEF Sound, Starts
<1> QED BY <1>1, <1>3, <1>5, <1>6

\* A time-based session starts.
LEMMA TimeBegins ==
  ASSUME NEW s \in Sessions, Fresh(s), ~Pends(s), NEW L, NEW a, Pushed(s, L, a, "none"),
         a \in TimeOps \cup {"none"}, s \in begun', s \notin dist', s \notin engineDist',
         ~Pends(s)', StartPends(s)' => Pends(s)', Exact(s)'
  PROVE  Sound(s)'
<1>1. \A i \in Pos : Op(i, s)' \in TimeOps \cup {"none"}
  BY DEF Fresh, Pushed
<1>2. Sole(s)' /\ Gone(s)' /\ Order(s)' /\ Begins(s)' /\ Held(s)'
  BY <1>1 DEF Sole, Gone, Order, Begins, Held, DistanceOps, Strict, TimeOps
<1>3. Kept(s)' /\ Over(s)' /\ OneWay(s)' /\ Starts(s)'
  BY <1>1 DEF Kept, Over, OneWay, Starts, DistanceOps, TimeOps
<1> QED BY <1>2, <1>3 DEF Sound

LEMMA StartIsPending ==
  ASSUME NEW s
  PROVE  (StartPends(s) => Pends(s)) /\ (StartPends(s)' => Pends(s)')
BY DEF StartPends, Pends, Pending

\* What a command leaves of the types.
LEMMA CommandTypes ==
  ASSUME Types, NEW s \in Sessions, Saves(s), modem' \in Seq(Requests), due' \in [Sessions -> Int],
         waiting' \in Seq(Waiters), resent' \in Seq(Waiters),
         known => waiting' = <<>>, ~known => resent' = <<>>,
         begun' \in {begun, begun \cup {s}},
         UNCHANGED <<clients, known, up, engine, engineDist, faults>>,
         NewCommand \/ UNCHANGED commands, spoilt' \in BOOLEAN
  PROVE  Types'
<1>1. commands' \in 0 .. MaxCommands
  <2>1. commands \in 0 .. MaxCommands /\ MaxCommands \in Nat
    BY GnssAssumption DEF Types
  <2>2. CASE NewCommand
    BY <2>1, <2>2 DEF NewCommand
  <2> QED BY <2>1, <2>2
<1> QED BY <1>1 DEF Types, Saves

LEMMA MapsSaved ==
  ASSUME Types, NEW s \in Sessions
  PROVE  /\ UNCHANGED maps => Saves(s)
         /\ \A o \in TimeOptions : time' = [time EXCEPT ![s] = o] /\ dist' = dist => Saves(s)
         /\ dist' \in {dist \cup {s}, dist \ {s}} /\ time' = time => Saves(s)
         /\ time' = [time EXCEPT ![s] = NoOptions] /\ dist' = dist \cup {s} => Saves(s)
BY DEF Types, Saves, maps, TimeOptions

-----------------------------------------------------------------------------
(* The commands keep what holds.                                            *)

Sounds == \A s \in Sessions : Sound(s)
Keeps ==
  /\ Types'
  /\ \A s \in Sessions : Owed(s) => Owed(s)'
  /\ ~spoilt' /\ Sounds => Sounds'
Steady == \E r : Moves(0, r) /\ Serves(r)

LEMMA TakesSteadily ==
  ASSUME NEW s, NEW n, NEW a, NEW b, Takes(s, n, a, b)
  PROVE  Steady
BY DEF Takes, Steady

LEMMA DueThen ==
  ASSUME Types, NEW s \in Sessions, NEW n \in {0, 1}, NEW a, Takes(s, n, a, "none")
  PROVE  due'[s] = due[s] + n - IF a \in Reporting THEN 0 ELSE 1
<1>1. /\ Hits(modem', Asks(s)) \in Nat /\ Hits(modem, Asks(s)) \in Nat
      /\ due'[s] = due[s] + Hits(modem', Asks(s)) - Hits(modem, Asks(s)) + (n - 1)
      /\ Hits(modem', Asks(s)) = Hits(modem, Asks(s))
           + (IF a \in Reporting THEN 1 ELSE 0) + (IF "none" \in Reporting THEN 1 ELSE 0)
  BY CommandTaken
<1>2. "none" \notin Reporting /\ due[s] \in Int
  BY DEF Reporting, TimeOps, Strict, Types
<1>3. PICK d \in {0, 1} : d = IF a \in Reporting THEN 1 ELSE 0
  OBVIOUS
<1>4. Hits(modem', Asks(s)) = Hits(modem, Asks(s)) + d
  BY <1>1, <1>2, <1>3
<1>5. due'[s] = due[s] + n - (1 - d)
  BY <1>1, <1>2, <1>4
<1> QED BY <1>3, <1>5

LEMMA NewKeeps ==
  ASSUME Types, NEW s \in Sessions, NEW a, NEW b, Takes(s, 1, a, b), Saves(s),
         UNCHANGED <<clients, known, waiting, resent, up, engine, engineDist, faults>>,
         begun' \in {begun, begun \cup {s}}, NewCommand, spoilt' \in BOOLEAN,
         ~spoilt' /\ Sound(s) => Sound(s)'
  PROVE  Keeps /\ Steady
<1>1. Types'
  <2>1. modem' \in Seq(Requests) /\ due' \in [Sessions -> Int]
    BY CommandTaken
  <2>2. /\ waiting' \in Seq(Waiters) /\ resent' \in Seq(Waiters)
        /\ known => waiting' = <<>>
        /\ ~known => resent' = <<>>
    BY DEF Types
  <2> QED BY <2>1, <2>2, CommandTypes
<1>2. /\ \A t \in Sessions : Owed(t) => Owed(t)'
      /\ \A t \in Sessions \ {s} : Sound(t) => Sound(t)'
  BY NewTaken
<1> QED BY <1>1, <1>2, TakesSteadily DEF Keeps, Sounds

LEMMA ResentKeeps ==
  ASSUME Types, resent # <<>>, NEW s \in Sessions, s = Head(resent).s,
         NEW a, NEW b, Takes(s, 0, a, b), Saves(s), resent' = Tail(resent),
         UNCHANGED <<clients, known, begun, waiting, up, engine, engineDist, faults, commands, spoilt>>,
         Sound(s) => Sound(s)'
  PROVE  Keeps /\ Steady
<1>1. Types'
  <2>1. modem' \in Seq(Requests) /\ due' \in [Sessions -> Int]
    BY CommandTaken
  <2>2. waiting' = <<>> /\ resent' \in Seq(Waiters) /\ known
    BY PendingTakes
  <2>3. waiting' \in Seq(Waiters)
    BY <2>2
  <2>4. spoilt' \in BOOLEAN
    BY DEF Types
  <2> QED BY <2>1, <2>2, <2>3, <2>4, CommandTypes
<1>2. /\ \A t \in Sessions : Owed(t) => Owed(t)'
      /\ \A t \in Sessions \ {s} : Sound(t) => Sound(t)'
  BY ResentTaken
<1> QED BY <1>1, <1>2, TakesSteadily DEF Keeps, Sounds

\* What a handler of one new command, or of one that has waited, knows of its session.
Idle(s) == Sound(s) /\ Calm(s) /\ s \in begun'

Frame(s) == UNCHANGED <<up, clients, engineDist>> /\ ~Pends(s)' /\ Exact(s)'

LEMMA DistanceStarts ==
  ASSUME Types, NEW s \in Sessions, NEW o \in Options, o.dist, NEW n \in {0, 1},
         saveTrackingSession(s, o), Ask(<<Request("dstart", s, 0, o)>>), Owe(s, n, FALSE)
  PROVE  /\ Takes(s, n, "dstart", "none") /\ Saves(s)
         /\ due[s] + n = 1 /\ Idle(s) /\ Frame(s) /\ Fresh(s) => Sound(s)'
<1>1. dist' = dist \cup {s} /\ time' = time
  BY DEF saveTrackingSession
<1>2. PICK a \in {"dstart"} : a = "dstart"
  OBVIOUS
<1>3. Takes(s, n, a, "none")
  <2>1. PICK x \in Requests : x = Request("dstart", s, 0, o)
    BY RequestIs
  <2>2. x.op = a /\ x.s = s /\ a \in Strict
    BY <1>2, <2>1 DEF Request, Strict
  <2> QED BY <1>1, <2>1, <2>2, TakesStrict
<1>4. Saves(s)
  BY <1>1, MapsSaved
<1>5. ASSUME due[s] + n = 1, Idle(s), Frame(s), Fresh(s)
      PROVE  Sound(s)'
  <2>1. Pushed(s, Len(modem), a, "none") /\ due'[s] = 1
    <3>1. due'[s] = due[s] + n - 0 /\ due[s] \in Int
      BY <1>2, <1>3, DueThen DEF Reporting, Strict, Types
    <3> QED BY <1>3, <1>5, <3>1, CommandTaken
  <2>2. s \notin InTime' /\ s \in dist'
    BY <1>1, <1>5 DEF Fresh, InTime
  <2> QED BY <1>2, <1>5, <2>1, <2>2, StrictCommand, StartIsPending DEF Idle, Frame
<1> QED BY <1>2, <1>3, <1>4, <1>5

\* A command of a session in neither map is answered at once, or ignored.
LEMMA UnknownTakes ==
  ASSUME Types, NEW s \in Sessions, NEW n \in {0, 1}, Owe(s, n, TRUE), UNCHANGED <<maps, modem>>
  PROVE  /\ Takes(s, n, "none", "none") /\ Saves(s)
         /\ Idle(s) /\ Frame(s) => Sound(s)'
         /\ /\ n = 1 /\ Sound(s) /\ Exact(s)' /\ (Pends(s)' <=> Pends(s))
            /\ (StartPends(s)' <=> StartPends(s)) /\ UNCHANGED <<up, clients, begun, engineDist>>
            => Sound(s)'
<1>1. time' = time /\ dist' = dist /\ modem' = modem
  BY DEF maps
<1>2. Saves(s)
  BY MapsSaved
<1>3. Takes(s, n, "none", "none")
  BY <1>1, TakesNothing
<1>4. due'[s] = due[s] + n - 1 /\ due[s] \in Int
  BY DEF Owe, Types
<1>5. (\A i \in Pos : Op(i, s)' = Op(i, s)) /\ (s \in InTime' <=> s \in InTime)
  BY <1>1 DEF Op, InTime
<1>6. ASSUME Idle(s), Frame(s)
      PROVE  Sound(s)'
  <2>1. Sole(s)' /\ Gone(s)' /\ Starts(s)'
    BY <1>5, <1>6, StartIsPending DEF Idle, Frame, Calm, Sole, Gone, Starts, Strict
  <2> QED BY <1>1, <1>5, <1>6, <2>1, Still DEF Idle, Frame
<1>7. ASSUME n = 1, Sound(s), Exact(s)', Pends(s)' <=> Pends(s), StartPends(s)' <=> StartPends(s),
             UNCHANGED <<up, clients, begun, engineDist>>
      PROVE  Sound(s)'
  <2>1. due'[s] = due[s]
    BY <1>4, <1>7
  <2>2. Sole(s)' /\ Gone(s)'
    BY <1>5, <1>7, <2>1 DEF Sound, Sole, Gone
  <2>3. Starts(s)'
    BY <1>1, <1>5, <1>7 DEF Sound, Starts, Fresh
  <2> QED BY <1>1, <1>5, <1>7, <2>2, <2>3, Still
<1> QED BY <1>2, <1>3, <1>6, <1>7

\* A start is saved and asked of the engine, waits, or is ignored.
LEMMA StartKeeps ==
  ASSUME Types, NEW s \in Sessions, NEW o \in Options, StartCommand(s, o)
  PROVE  Keeps /\ Steady
<1>1. /\ s \notin begun /\ begun' = begun \cup {s} /\ NewCommand /\ startTracking(s, o, 1)
      /\ UNCHANGED <<clients, known, resent, up, engine, engineDist, faults, spoilt>>
      /\ spoilt' \in BOOLEAN
  BY DEF StartCommand, Types
<1>2. Sound(s) => Fresh(s) /\ ~Pends(s) /\ due[s] = 0 /\ Idle(s)
  BY <1>1, FreshIdle DEF Sound, Starts, Idle
<1>3. CASE Wait("start", s, o, 1)
  <2>1. PICK cmd \in {"start", "update"} : cmd = "start"
    OBVIOUS
  <2>2. /\ waiting' \in Seq(Waiters) /\ resent' = <<>> /\ due' \in [Sessions -> Int] /\ modem' = modem
        /\ due'[s] = due[s] + 1
        /\ \A t \in Sessions : (Owed(t) => Owed(t)') /\ (Exact(t) => Exact(t)')
        /\ \A t \in Sessions \ {s} : Sound(t) => Sound(t)'
        /\ \A t \in Sessions, i \in Pos : Op(i, t)' = Op(i, t)
    BY <1>1, <1>3, <2>1, Waited
  <2>3. ~known /\ time' = time /\ dist' = dist
    BY <1>3 DEF Wait, maps
  <2>4. Types'
    <3>1. Saves(s)
      BY <2>3, MapsSaved DEF maps
    <3>2. modem' \in Seq(Requests) /\ resent' \in Seq(Waiters)
      BY <2>2 DEF Types
    <3> QED BY <1>1, <2>2, <2>3, <3>1, <3>2, CommandTypes
  <2>5. ASSUME Sound(s)
        PROVE  Sound(s)'
    <3>1. Exact(s)' /\ due'[s] = 1
      BY <1>2, <2>2, <2>5 DEF Sound
    <3>2. Sole(s)' /\ Gone(s)'
      BY <1>2, <2>2, <2>5, <3>1 DEF Sole, Gone, Fresh
    <3>3. s \in InTime' <=> s \in InTime
      BY <2>3 DEF InTime
    <3>4. Fresh(s)' /\ Starts(s)'
      BY <1>1, <1>2, <2>2, <2>3, <2>5, <3>3 DEF Fresh, Starts
    <3> QED BY <1>1, <2>2, <2>3, <2>5, <3>1, <3>2, <3>3, <3>4, Still
  <2>6. Steady
    <3>1. Moves(0, <<>>)
      BY <2>2 DEF Moves, Rest, Types
    <3>2. Serves(<<>>)
      <4>1. \A i \in 1 .. Len(<<>>) : <<>>[i].op \notin FixOps
        OBVIOUS
      <4> QED BY <2>3, <4>1, ServesQuietly
    <3> QED BY <3>1, <3>2 DEF Steady
  <2> QED BY <2>2, <2>4, <2>5, <2>6 DEF Keeps, Sounds
<1>4. CASE /\ ClientOf[s] \in clients
           /\ known /\ o.dist
           /\ saveTrackingSession(s, o)
           /\ Ask(<<Request("dstart", s, 0, o)>>)
           /\ Owe(s, 1, FALSE)
           /\ UNCHANGED waiting
  <2>1. PICK a : a = "dstart"
    OBVIOUS
  <2>2. /\ Takes(s, 1, a, "none") /\ Saves(s)
        /\ due[s] + 1 = 1 /\ Idle(s) /\ Frame(s) /\ Fresh(s) => Sound(s)'
    BY <1>4, <2>1, DistanceStarts
  <2>3. (Exact(s) => Exact(s)') /\ (Pends(s)' <=> Pends(s))
    BY <1>1, <1>4, <2>2, NewTaken
  <2>4. Sound(s) => Sound(s)'
    BY <1>1, <1>2, <2>2, <2>3 DEF Frame, Sound
  <2> QED BY <1>1, <1>4, <2>2, <2>4, NewKeeps
<1>5. CASE /\ ClientOf[s] \in clients
           /\ ~o.dist
           /\ \E asked \in startTimeBasedTrackingMultiplex(s, o) :
                 Ask(asked) /\ Owe(s, 1, asked = <<>>)
           /\ saveTrackingSession(s, o)
           /\ UNCHANGED waiting
  <2>1. PICK asked \in startTimeBasedTrackingMultiplex(s, o) : Ask(asked) /\ Owe(s, 1, asked = <<>>)
    BY <1>5
  <2>2. time' = [time EXCEPT ![s] = o] /\ dist' = dist
    BY <1>5 DEF saveTrackingSession
  <2>3. Single(asked, s) /\ Serves(asked)
    BY <1>5, <2>2, StartAsks
  <2>4. PICK a \in TimeOps \cup {"none"} : Takes(s, 1, a, "none")
    BY <2>1, <2>3, TakesSingle
  <2>5. Saves(s)
    BY <1>5, <2>2, MapsSaved DEF TimeOptions
  <2>6. ASSUME Sound(s)
        PROVE  Sound(s)'
    <3>1. Exact(s)' /\ ~Pends(s)'
      BY <1>1, <1>2, <1>5, <2>4, <2>5, <2>6, NewTaken DEF Sound
    <3>2. Pushed(s, Len(modem), a, "none")
      BY <2>4, CommandTaken
    <3>3. s \in begun' /\ s \notin dist' /\ s \notin engineDist'
      BY <1>1, <1>2, <2>2, <2>6 DEF Fresh
    <3> QED BY <1>2, <2>6, <3>1, <3>2, <3>3, TimeBegins, StartIsPending
  <2> QED BY <1>1, <1>5, <2>4, <2>5, <2>6, NewKeeps
<1>6. CASE IgnoreStart(s, o, 1)
  <2>1. Owe(s, 1, TRUE) /\ UNCHANGED <<maps, modem, waiting>>
    BY <1>6 DEF IgnoreStart, Owe, Types
  <2>2. /\ Takes(s, 1, "none", "none") /\ Saves(s)
        /\ Idle(s) /\ Frame(s) => Sound(s)'
    BY <2>1, UnknownTakes
  <2>3. PICK a : a = "none"
    OBVIOUS
  <2>4. Takes(s, 1, a, a)
    BY <2>2, <2>3
  <2>5. (Exact(s) => Exact(s)') /\ (Pends(s)' <=> Pends(s))
    BY <1>1, <2>1, <2>2, <2>4, NewTaken
  <2>6. Sound(s) => Sound(s)'
    BY <1>1, <1>2, <2>2, <2>5 DEF Frame, Sound
  <2> QED BY <1>1, <2>1, <2>2, <2>4, <2>6, NewKeeps
<1> QED BY <1>1, <1>3, <1>4, <1>5, <1>6, Zenon DEF startTracking

LEMMA ToDistanceTakes ==
  ASSUME Types, NEW s \in Sessions, NEW n \in {0, 1}, NEW o \in Options, UpdateToDistance(s, o, n)
  PROVE  \E a, b : /\ Takes(s, n, a, b) /\ Saves(s)
                   /\ Idle(s) /\ Frame(s) => Sound(s)'
<1>1. PICK asked \in stopTimeBasedTrackingMultiplex(s) :
         /\ Ask(asked \o <<Request("dquiet", s, 0, o)>>)
         /\ Owe(s, n, asked = <<>>)
  BY DEF UpdateToDistance
<1>2. time' = [time EXCEPT ![s] = NoOptions] /\ dist' = dist \cup {s} /\ s \in InTime
  BY DEF UpdateToDistance
<1>3. Single(asked, s) /\ Serves(asked)
  BY <1>2, StopAsks
<1>4. PICK y \in Requests : y = Request("dquiet", s, 0, o) /\ y.s = s /\ y.op = "dquiet"
  <2>1. Request("dquiet", s, 0, o) \in Requests
    BY DEF Request, Requests, Ops, DistanceOps
  <2> QED BY <2>1 DEF Request
<1>5. PICK a, b : Turns(a, b) /\ Takes(s, n, a, b)
  BY <1>1, <1>3, <1>4, TakesDistance
<1>6. s \in dist' /\ s \notin InTime'
  BY <1>2 DEF InTime, Types
<1>7. Saves(s)
  BY <1>2, MapsSaved
<1>8. ASSUME Idle(s), Frame(s)
      PROVE  Sound(s)'
  <2>1. Pushed(s, Len(modem), a, b)
    BY <1>5, CommandTaken
  <2> QED BY <1>5, <1>6, <1>8, <2>1, DistanceCommand, StartIsPending DEF Turns, Idle, Frame
<1> QED BY <1>5, <1>7, <1>8

LEMMA StrictTakes ==
  ASSUME Types, NEW s \in Sessions, NEW n \in {0, 1}, s \in dist, s \notin InTime,
         NEW a \in {"dstop", "dswitch", "dupdate"}, NEW x \in Requests, x.s = s, x.op = a,
         Ask(<<x>>), Owe(s, n, FALSE),
         time' = time, dist' = IF a = "dswitch" THEN dist \ {s} ELSE dist
  PROVE  /\ Takes(s, n, a, "none") /\ Saves(s)
         /\ due[s] + n = 1 /\ Idle(s) /\ Frame(s) => Sound(s)'
<1>1. a \in Strict
  BY DEF Strict
<1>2. Takes(s, n, a, "none")
  BY <1>1, TakesStrict
<1>3. Saves(s)
  BY MapsSaved DEF maps
<1>4. ASSUME due[s] + n = 1, Idle(s), Frame(s)
      PROVE  Sound(s)'
  <2>1. Pushed(s, Len(modem), a, "none") /\ due'[s] = 1
    <3>1. due'[s] = due[s] + n - 0 /\ due[s] \in Int
      BY <1>1, <1>2, DueThen DEF Reporting, Types
    <3> QED BY <1>2, <1>4, <3>1, CommandTaken
  <2>2. s \notin InTime' /\ (s \in dist' <=> a # "dswitch")
    BY DEF InTime
  <2> QED BY <1>4, <2>1, <2>2, StrictCommand, StartIsPending DEF Idle, Frame
<1> QED BY <1>2, <1>3, <1>4

LEMMA UpdateDistanceTakes ==
  ASSUME Types, NEW s \in Sessions, NEW n \in {0, 1}, NEW o \in Options, UpdateDistance(s, o, n)
  PROVE  \E a : /\ Takes(s, n, a, "none") /\ Saves(s)
                /\ due[s] + n = 1 /\ Idle(s) /\ Frame(s) => Sound(s)'
<1>1. PICK a \in {"dstop", "dswitch", "dupdate"} : a = "dupdate"
  OBVIOUS
<1>2. PICK x \in Requests : x = Request("dupdate", s, 0, o) /\ x.s = s /\ x.op = a
  <2>1. Request("dupdate", s, 0, o) \in Requests
    BY DEF Request, Requests, Ops, DistanceOps, UpdateDistance
  <2> QED BY <1>1, <2>1 DEF Request
<1>3. /\ Ask(<<x>>) /\ Owe(s, n, FALSE) /\ s \in dist /\ s \notin InTime
      /\ time' = time /\ dist' = IF a = "dswitch" THEN dist \ {s} ELSE dist
  BY <1>1, <1>2 DEF UpdateDistance, maps
<1> QED BY <1>2, <1>3, StrictTakes

LEMMA ToTimeTakes ==
  ASSUME Types, NEW s \in Sessions, NEW n \in {0, 1}, NEW o \in Options, UpdateToTime(s, o, n)
  PROVE  \E a : /\ Takes(s, n, a, "none") /\ Saves(s)
                /\ due[s] + n = 1 /\ Idle(s) /\ Frame(s) => Sound(s)'
<1>1. PICK a \in {"dstop", "dswitch", "dupdate"} : a = "dswitch"
  OBVIOUS
<1>2. PICK x \in Requests : x = Request("dswitch", s, 0, o) /\ x.s = s /\ x.op = a
  <2>1. Request("dswitch", s, 0, o) \in Requests
    BY DEF Request, Requests, Ops, DistanceOps, UpdateToTime
  <2> QED BY <1>1, <2>1 DEF Request
<1>3. /\ Ask(<<x>>) /\ Owe(s, n, FALSE) /\ s \in dist /\ s \notin InTime
      /\ time' = time /\ dist' = IF a = "dswitch" THEN dist \ {s} ELSE dist
  BY <1>1, <1>2 DEF UpdateToTime
<1> QED BY <1>2, <1>3, StrictTakes

\* A time-based session is updated or stopped.
LEMMA TimeTakes ==
  ASSUME Types, NEW s \in Sessions, s \in InTime, NEW o \in TimeOptions,
         NEW asked, Single(asked, s), Serves(asked), Ask(asked), Owe(s, 1, asked = <<>>),
         time' = [time EXCEPT ![s] = o], dist' = dist
  PROVE  \E a : /\ Takes(s, 1, a, "none") /\ Saves(s)
                /\ /\ Sound(s) /\ Exact(s)' /\ s \in begun /\ ClientOf[s] \in clients
                   /\ ~Overtakes(s, NoOptions) /\ (Pends(s)' <=> Pends(s))
                   /\ UNCHANGED <<up, begun, engineDist>>
                   => Sound(s)'
<1>1. PICK a \in TimeOps \cup {"none"} : Takes(s, 1, a, "none")
  BY TakesSingle
<1>2. Saves(s)
  BY MapsSaved
<1>3. ASSUME Sound(s), Exact(s)', s \in begun, ClientOf[s] \in clients, ~Overtakes(s, NoOptions),
             Pends(s)' <=> Pends(s), UNCHANGED <<up, begun, engineDist>>
      PROVE  Sound(s)'
  <2>1. Pushed(s, Len(modem), a, "none")
    BY <1>1, CommandTaken
  <2>2. ~(due[s] > 0 /\ (Pends(s) \/ \E i \in Pos : Op(i, s) \in DistanceOps))
    BY <1>3, Places DEF Overtakes, Op, OpOf, DistanceOps
  <2> QED BY <1>3, <2>1, <2>2, TimeCommand, StartIsPending
<1> QED BY <1>1, <1>2, <1>3

LEMMA NewIdle ==
  ASSUME Types, NEW s \in Sessions, NEW a, NEW b, Takes(s, 1, a, b), Saves(s),
         UNCHANGED <<begun, clients, waiting, resent, up, engineDist>>,
         s \in begun, ClientOf[s] \in clients, Sound(s), NEW o, ~Overtakes(s, o), o.dist \/ s \in dist
  PROVE  due[s] + 1 = 1 /\ Idle(s) /\ Frame(s)
<1>1. due[s] = 0 /\ Calm(s) /\ ~Pends(s)
  BY CalmNew
<1>2. (Exact(s) => Exact(s)') /\ (Pends(s)' <=> Pends(s))
  BY NewTaken
<1> QED BY <1>1, <1>2 DEF Idle, Frame, Sound

LEMMA ResentIdle ==
  ASSUME Types, resent # <<>>, NEW s \in Sessions, s = Head(resent).s, NEW a, NEW b, Takes(s, 0, a, b),
         Saves(s), resent' = Tail(resent), UNCHANGED <<begun, clients, waiting, up, engineDist>>, Sound(s)
  PROVE  due[s] + 0 = 1 /\ Idle(s) /\ Frame(s)
<1>1. Pends(s)
  BY PendingTakes
<1>2. due[s] = 1 /\ Calm(s) /\ Hits(Pending, Waits(s)) = 1 /\ s \in begun
  BY <1>1, CalmResent
<1>3. (Exact(s) => Exact(s)') /\ ~Pends(s)'
  BY <1>2, ResentTaken
<1> QED BY <1>2, <1>3 DEF Idle, Frame, Sound

LEMMA UpdateKeeps ==
  ASSUME Types, NEW s \in Sessions, NEW o \in Options, UpdateCommand(s, o)
  PROVE  Keeps /\ Steady
<1>1. /\ s \in begun /\ ClientOf[s] \in clients /\ begun' = begun /\ NewCommand /\ updateTracking(s, o, 1)
      /\ UNCHANGED <<clients, known, resent, up, engine, engineDist, faults>>
      /\ spoilt' \in BOOLEAN /\ (~spoilt' => ~Overtakes(s, o))
  BY DEF UpdateCommand, Types
<1>2. CASE Wait("update", s, o, 1)
  <2>1. PICK cmd \in {"start", "update"} : cmd = "update"
    OBVIOUS
  <2>2. /\ waiting' \in Seq(Waiters) /\ resent' = <<>> /\ due' \in [Sessions -> Int] /\ modem' = modem
        /\ due'[s] = due[s] + 1
        /\ \A t \in Sessions : (Owed(t) => Owed(t)') /\ (Exact(t) => Exact(t)')
        /\ \A t \in Sessions \ {s} : Sound(t) => Sound(t)'
        /\ \A t \in Sessions, i \in Pos : Op(i, t)' = Op(i, t)
        /\ StartPends(s)' => StartPends(s) \/ cmd = "start"
    BY <1>1, <1>2, <2>1, Waited
  <2>3. ~known /\ time' = time /\ dist' = dist /\ o.dist
    BY <1>2 DEF Wait, maps
  <2>4. Types'
    <3>1. Saves(s)
      BY <2>3, MapsSaved DEF maps
    <3>2. modem' \in Seq(Requests) /\ resent' \in Seq(Waiters)
      BY <2>2 DEF Types
    <3> QED BY <1>1, <2>2, <2>3, <3>1, <3>2, CommandTypes
  <2>5. ASSUME Sound(s), ~spoilt'
        PROVE  Sound(s)'
    <3>1. due[s] = 0 /\ Calm(s) /\ ~Pends(s)
      BY <1>1, <2>3, <2>5, CalmNew
    <3>2. Exact(s)' /\ due'[s] = 1
      BY <2>2, <2>5, <3>1 DEF Sound
    <3>3. Sole(s)' /\ Gone(s)'
      BY <2>2, <3>1, <3>2 DEF Sole, Gone, Calm
    <3>4. ~StartPends(s)'
      BY <2>1, <2>2, <3>1, StartIsPending
    <3>5. (s \in InTime' <=> s \in InTime) /\ Starts(s)'
      BY <1>1, <2>3, <3>4 DEF InTime, Starts
    <3> QED BY <1>1, <2>2, <2>3, <2>5, <3>2, <3>3, <3>5, Still
  <2>6. Steady
    <3>1. Moves(0, <<>>)
      BY <2>2 DEF Moves, Rest, Types
    <3>2. Serves(<<>>)
      <4>1. \A i \in 1 .. Len(<<>>) : <<>>[i].op \notin FixOps
        OBVIOUS
      <4> QED BY <2>3, <4>1, ServesQuietly
    <3> QED BY <3>1, <3>2 DEF Steady
  <2> QED BY <2>2, <2>4, <2>5, <2>6 DEF Keeps, Sounds
<1>3. CASE UpdateUnknown(s, 1) /\ UNCHANGED waiting
  <2>1. Owe(s, 1, TRUE) /\ UNCHANGED <<maps, modem>>
    BY <1>3 DEF UpdateUnknown
  <2>2. /\ Takes(s, 1, "none", "none") /\ Saves(s)
        /\ /\ Sound(s) /\ Exact(s)' /\ (Pends(s)' <=> Pends(s))
           /\ (StartPends(s)' <=> StartPends(s)) /\ UNCHANGED <<up, clients, begun, engineDist>>
           => Sound(s)'
    BY <2>1, UnknownTakes
  <2>3. PICK a : a = "none"
    OBVIOUS
  <2>4. Takes(s, 1, a, a)
    BY <2>2, <2>3
  <2>5. (Exact(s) => Exact(s)') /\ (Pends(s)' <=> Pends(s)) /\ (StartPends(s)' <=> StartPends(s))
    BY <1>1, <1>3, <2>2, <2>4, NewTaken
  <2>6. Sound(s) => Sound(s)'
    BY <1>1, <2>2, <2>5 DEF Sound
  <2> QED BY <1>1, <1>3, <2>2, <2>4, <2>6, NewKeeps
<1>4. CASE UpdateToDistance(s, o, 1) /\ UNCHANGED waiting
  <2>1. PICK a, b : /\ Takes(s, 1, a, b) /\ Saves(s)
                    /\ Idle(s) /\ Frame(s) => Sound(s)'
    BY <1>4, ToDistanceTakes
  <2>2. o.dist
    BY <1>4 DEF UpdateToDistance
  <2>3. ~spoilt' /\ Sound(s) => Sound(s)'
    BY <1>1, <1>4, <2>1, <2>2, NewIdle
  <2> QED BY <1>1, <1>4, <2>1, <2>3, NewKeeps
<1>5. CASE UpdateToTime(s, o, 1) /\ UNCHANGED waiting
  <2>1. PICK a : /\ Takes(s, 1, a, "none") /\ Saves(s)
                 /\ due[s] + 1 = 1 /\ Idle(s) /\ Frame(s) => Sound(s)'
    BY <1>5, ToTimeTakes
  <2>2. s \in dist
    BY <1>5 DEF UpdateToTime
  <2>3. ~spoilt' /\ Sound(s) => Sound(s)'
    BY <1>1, <1>5, <2>1, <2>2, NewIdle
  <2> QED BY <1>1, <1>5, <2>1, <2>3, NewKeeps
<1>6. CASE UpdateTime(s, o, 1) /\ UNCHANGED waiting
  <2>1. PICK asked \in updateTrackingMultiplex(s, o) : Ask(asked) /\ Owe(s, 1, asked = <<>>)
    BY <1>6 DEF UpdateTime
  <2>2. s \in InTime /\ ~o.dist /\ time' = [time EXCEPT ![s] = o] /\ dist' = dist /\ o \in TimeOptions
    BY <1>6 DEF UpdateTime, saveTrackingSession, TimeOptions
  <2>3. Single(asked, s) /\ Serves(asked)
    BY <2>1, <2>2, UpdateAsks
  <2>4. PICK a : /\ Takes(s, 1, a, "none") /\ Saves(s)
                 /\ /\ Sound(s) /\ Exact(s)' /\ s \in begun /\ ClientOf[s] \in clients
                    /\ ~Overtakes(s, NoOptions) /\ (Pends(s)' <=> Pends(s))
                    /\ UNCHANGED <<up, begun, engineDist>>
                    => Sound(s)'
    BY <2>1, <2>2, <2>3, TimeTakes
  <2>5. ~spoilt' => ~Overtakes(s, NoOptions)
    BY <1>1, <2>2 DEF Overtakes, NoOptions
  <2>6. (Exact(s) => Exact(s)') /\ (Pends(s)' <=> Pends(s))
    BY <1>1, <1>6, <2>4, NewTaken
  <2>7. ~spoilt' /\ Sound(s) => Sound(s)'
    BY <1>1, <2>4, <2>5, <2>6 DEF Sound
  <2> QED BY <1>1, <1>6, <2>4, <2>7, NewKeeps
<1>7. CASE UpdateDistance(s, o, 1) /\ UNCHANGED waiting
  <2>1. PICK a : /\ Takes(s, 1, a, "none") /\ Saves(s)
                 /\ due[s] + 1 = 1 /\ Idle(s) /\ Frame(s) => Sound(s)'
    BY <1>7, UpdateDistanceTakes
  <2>2. s \in dist
    BY <1>7 DEF UpdateDistance
  <2>3. ~spoilt' /\ Sound(s) => Sound(s)'
    BY <1>1, <1>7, <2>1, <2>2, NewIdle
  <2> QED BY <1>1, <1>7, <2>1, <2>3, NewKeeps
<1> QED BY <1>1, <1>2, <1>3, <1>4, <1>5, <1>6, <1>7, Zenon DEF updateTracking

LEMMA StopKeeps ==
  ASSUME Types, NEW s \in Sessions, StopCommand(s)
  PROVE  Keeps /\ Steady
<1>1. /\ s \in begun /\ ClientOf[s] \in clients /\ begun' = begun /\ NewCommand /\ stopTracking(s)
      /\ UNCHANGED <<clients, known, waiting, resent, up, engine, engineDist, faults>>
      /\ spoilt' \in BOOLEAN /\ (~spoilt' => ~Overtakes(s, NoOptions))
  BY DEF StopCommand, Types
<1>2. CASE /\ ~Known(s) /\ Owe(s, 1, TRUE) /\ UNCHANGED <<maps, modem>>
  <2>1. /\ Takes(s, 1, "none", "none") /\ Saves(s)
        /\ /\ Sound(s) /\ Exact(s)' /\ (Pends(s)' <=> Pends(s))
           /\ (StartPends(s)' <=> StartPends(s)) /\ UNCHANGED <<up, clients, begun, engineDist>>
           => Sound(s)'
    BY <1>2, UnknownTakes
  <2>2. PICK a : a = "none"
    OBVIOUS
  <2>3. Takes(s, 1, a, a)
    BY <2>1, <2>2
  <2>4. (Exact(s) => Exact(s)') /\ (Pends(s)' <=> Pends(s)) /\ (StartPends(s)' <=> StartPends(s))
    BY <1>1, <2>1, <2>3, NewTaken
  <2>5. Sound(s) => Sound(s)'
    BY <1>1, <2>1, <2>4 DEF Sound
  <2> QED BY <1>1, <2>1, <2>3, <2>5, NewKeeps
<1>3. CASE /\ s \in InTime
           /\ \E asked \in stopTimeBasedTrackingMultiplex(s) : Ask(asked) /\ Owe(s, 1, asked = <<>>)
           /\ eraseTrackingSession(s)
  <2>1. PICK asked \in stopTimeBasedTrackingMultiplex(s) : Ask(asked) /\ Owe(s, 1, asked = <<>>)
    BY <1>3
  <2>2. time' = [time EXCEPT ![s] = NoOptions] /\ dist' = dist /\ NoOptions \in TimeOptions
    BY <1>3 DEF eraseTrackingSession, TimeOptions
  <2>3. Single(asked, s) /\ Serves(asked)
    BY <1>3, <2>1, <2>2, StopAsks
  <2>4. PICK a : /\ Takes(s, 1, a, "none") /\ Saves(s)
                 /\ /\ Sound(s) /\ Exact(s)' /\ s \in begun /\ ClientOf[s] \in clients
                    /\ ~Overtakes(s, NoOptions) /\ (Pends(s)' <=> Pends(s))
                    /\ UNCHANGED <<up, begun, engineDist>>
                    => Sound(s)'
    BY <1>3, <2>1, <2>2, <2>3, TimeTakes
  <2>5. (Exact(s) => Exact(s)') /\ (Pends(s)' <=> Pends(s))
    BY <1>1, <2>4, NewTaken
  <2>6. ~spoilt' /\ Sound(s) => Sound(s)'
    BY <1>1, <2>4, <2>5 DEF Sound
  <2> QED BY <1>1, <2>4, <2>6, NewKeeps
<1>4. CASE /\ s \in dist /\ s \notin InTime
           /\ Ask(<<Request("dstop", s, 0, NoOptions)>>)
           /\ Owe(s, 1, FALSE)
           /\ UNCHANGED maps
  <2>1. PICK a \in {"dstop", "dswitch", "dupdate"} : a = "dstop"
    OBVIOUS
  <2>2. PICK x \in Requests : x = Request("dstop", s, 0, NoOptions) /\ x.s = s /\ x.op = a
    <3>1. Request("dstop", s, 0, NoOptions) \in Requests
      BY DEF Request, Requests, Ops, DistanceOps
    <3> QED BY <2>1, <3>1 DEF Request
  <2>3. Ask(<<x>>) /\ time' = time /\ dist' = IF a = "dswitch" THEN dist \ {s} ELSE dist
    BY <1>4, <2>1, <2>2 DEF maps
  <2>4. /\ Takes(s, 1, a, "none") /\ Saves(s)
        /\ due[s] + 1 = 1 /\ Idle(s) /\ Frame(s) => Sound(s)'
    BY <1>4, <2>2, <2>3, StrictTakes
  <2>5. ~spoilt' /\ Sound(s) => Sound(s)'
    BY <1>1, <1>4, <2>4, NewIdle
  <2> QED BY <1>1, <2>4, <2>5, NewKeeps
<1> QED BY <1>1, <1>2, <1>3, <1>4, Zenon DEF stopTracking

\* A command sent again is about distances.
LEMMA ResentCommandKeeps ==
  ASSUME Types, ResentCommand
  PROVE  Keeps /\ Steady
<1>1. /\ resent # <<>> /\ resent' = Tail(resent)
      /\ UNCHANGED <<begun, clients, known, up, engine, engineDist, faults, commands, spoilt>>
  BY DEF ResentCommand, counters
<1>2. PICK m \in Waiters : m = Head(resent)
  BY <1>1, HeadTailProperties DEF Types
<1>3. PICK s \in Sessions : s = m.s /\ s = Head(resent).s
  BY <1>2 DEF Waiters
<1>4. PICK o \in Options : o = m.o /\ o.dist
  BY <1>2 DEF Waiters
<1>5. known
  BY <1>1 DEF Types
<1>6. CASE m.cmd = "start" /\ startTracking(s, o, 0) /\ ~IgnoreStart(s, o, 0)
  <2>1. /\ saveTrackingSession(s, o) /\ Ask(<<Request("dstart", s, 0, o)>>)
        /\ Owe(s, 0, FALSE) /\ UNCHANGED waiting
    BY <1>4, <1>5, <1>6 DEF startTracking, Wait
  <2>2. PICK a : a = "dstart"
    OBVIOUS
  <2>3. /\ Takes(s, 0, a, "none") /\ Saves(s)
        /\ due[s] + 0 = 1 /\ Idle(s) /\ Frame(s) /\ Fresh(s) => Sound(s)'
    BY <1>4, <2>1, <2>2, DistanceStarts
  <2>4. ASSUME Sound(s)
        PROVE  Sound(s)'
    <3>1. due[s] + 0 = 1 /\ Idle(s) /\ Frame(s)
      BY <1>1, <1>3, <2>1, <2>3, <2>4, ResentIdle
    <3>2. StartPends(s)
      BY <1>1, <1>2, <1>3, <1>6, <2>1, PendingTakes
    <3>3. Fresh(s)
      BY <2>4, <3>2 DEF Sound, Starts
    <3> QED BY <2>3, <3>1, <3>3
  <2> QED BY <1>1, <1>3, <2>1, <2>3, <2>4, ResentKeeps
<1>7. CASE m.cmd = "update" /\ updateTracking(s, o, 0)
  <2>1. /\ UpdateUnknown(s, 0) \/ UpdateToDistance(s, o, 0) \/ UpdateDistance(s, o, 0)
        /\ waiting' = waiting
    BY <1>4, <1>5, <1>7 DEF updateTracking, Wait, UpdateToTime, UpdateTime
  <2>2. CASE UpdateUnknown(s, 0)
    <3>1. Owe(s, 0, TRUE) /\ UNCHANGED <<maps, modem>>
      BY <2>2 DEF UpdateUnknown
    <3>2. /\ Takes(s, 0, "none", "none") /\ Saves(s)
          /\ Idle(s) /\ Frame(s) => Sound(s)'
      BY <3>1, UnknownTakes
    <3>3. PICK a : a = "none"
      OBVIOUS
    <3>4. Takes(s, 0, a, a)
      BY <3>2, <3>3
    <3>5. Sound(s) => Sound(s)'
      BY <1>1, <1>3, <2>1, <3>2, <3>4, ResentIdle
    <3> QED BY <1>1, <1>3, <2>1, <3>2, <3>4, <3>5, ResentKeeps
  <2>3. CASE UpdateToDistance(s, o, 0)
    <3>1. PICK a, b : /\ Takes(s, 0, a, b) /\ Saves(s)
                      /\ Idle(s) /\ Frame(s) => Sound(s)'
      BY <2>3, ToDistanceTakes
    <3>2. Sound(s) => Sound(s)'
      BY <1>1, <1>3, <2>1, <3>1, ResentIdle
    <3> QED BY <1>1, <1>3, <2>1, <3>1, <3>2, ResentKeeps
  <2>4. CASE UpdateDistance(s, o, 0)
    <3>1. PICK a : /\ Takes(s, 0, a, "none") /\ Saves(s)
                   /\ due[s] + 0 = 1 /\ Idle(s) /\ Frame(s) => Sound(s)'
      BY <2>4, UpdateDistanceTakes
    <3>2. Sound(s) => Sound(s)'
      BY <1>1, <1>3, <2>1, <3>1, ResentIdle
    <3> QED BY <1>1, <1>3, <2>1, <3>1, <3>2, ResentKeeps
  <2> QED BY <2>1, <2>2, <2>3, <2>4
<1>8. \/ m.cmd = "start" /\ startTracking(s, o, 0)
      \/ m.cmd = "update" /\ updateTracking(s, o, 0)
  BY <1>2, <1>3, <1>4 DEF ResentCommand
<1>9. CASE IgnoreStart(s, o, 0)
  <2>1. Owe(s, 0, TRUE) /\ UNCHANGED <<maps, modem, waiting>>
    BY <1>9 DEF IgnoreStart, Owe, Types
  <2>2. /\ Takes(s, 0, "none", "none") /\ Saves(s)
        /\ Idle(s) /\ Frame(s) => Sound(s)'
    BY <2>1, UnknownTakes
  <2>3. PICK a : a = "none"
    OBVIOUS
  <2>4. Takes(s, 0, a, a)
    BY <2>2, <2>3
  <2>5. Sound(s) => Sound(s)'
    BY <1>1, <1>3, <2>1, <2>2, <2>4, ResentIdle
  <2> QED BY <1>1, <1>3, <2>1, <2>2, <2>4, <2>5, ResentKeeps
<1> QED BY <1>6, <1>7, <1>8, <1>9

-----------------------------------------------------------------------------
(* Requests for every session of a set.                                     *)

Listed(op, S) == [i \in DOMAIN SetToSeq(S) |-> Request(op, SetToSeq(S)[i], 0, NoOptions)]

LEMMA ListedIs ==
  ASSUME NEW S \in SUBSET Sessions, NEW op \in {"dgone", "dquiet"}, NEW q, q = Listed(op, S)
  PROVE  /\ q \in Seq(Requests) /\ \A i \in 1 .. Len(q) : q[i].op = op /\ q[i].s \in S
         /\ \A s \in S : \E m \in Pos : \A i \in Pos : OpOf(q, i, s) = IF i = m THEN op ELSE "none"
         /\ \A s : s \notin S => \A i \in Pos : OpOf(q, i, s) = "none"
         /\ \A s : Hits(q, Asks(s)) = 0
<1> DEFINE n == Cardinality(S)
           f == SetToSeq(S)
<1>1. IsFiniteSet(S)
  BY GnssAssumption, FS_Subset
<1>2. /\ n \in Nat /\ f \in [1 .. n -> S]
      /\ \A i, j \in 1 .. n : f[i] = f[j] => i = j
      /\ \A x \in S : \E i \in 1 .. n : f[i] = x
  BY <1>1, ListOf
<1> HIDE DEF n, f
<1>3. q = [i \in 1 .. n |-> Request(op, f[i], 0, NoOptions)]
  BY <1>2 DEF Listed, f
<1>4. \A i \in 1 .. n : Request(op, f[i], 0, NoOptions) \in Requests
  BY <1>2 DEF Request, Requests, Ops, DistanceOps
<1>5. q \in Seq(Requests) /\ Len(q) = n
  BY <1>2, <1>3, <1>4
<1>6. \A i \in 1 .. n : q[i].op = op /\ q[i].s = f[i]
  BY <1>3 DEF Request
<1>7. ASSUME NEW s \in S
      PROVE  \E m \in Pos : \A i \in Pos : OpOf(q, i, s) = IF i = m THEN op ELSE "none"
  <2>1. PICK m \in 1 .. n : f[m] = s
    BY <1>2
  <2>2. \A i \in Pos : OpOf(q, i, s) = IF i = m THEN op ELSE "none"
    BY <1>2, <1>5, <1>6, <2>1 DEF OpOf
  <2> QED BY <2>1, <2>2 DEF Pos
<1>8. ASSUME NEW s, s \notin S
      PROVE  \A i \in Pos : OpOf(q, i, s) = "none"
  BY <1>2, <1>5, <1>6, <1>8 DEF OpOf
<1>9. ASSUME NEW s
      PROVE  Hits(q, Asks(s)) = 0
  <2>1. \A i \in 1 .. Len(q) : q[i] \notin Asks(s)
    BY <1>5, <1>6 DEF Asks, Reporting, TimeOps, Strict
  <2> QED BY <1>5, <2>1, HitsOf
<1> QED BY <1>2, <1>5, <1>6, <1>7, <1>8, <1>9

LEMMA OpConcat ==
  ASSUME NEW p \in Seq(Requests), NEW q \in Seq(Requests), NEW s
  PROVE  \A i \in Pos : OpOf(p \o q, i, s) = IF i <= Len(p) THEN OpOf(p, i, s) ELSE OpOf(q, i - Len(p), s)
<1>1. /\ Len(p) \in Nat /\ Len(q) \in Nat /\ Len(p \o q) = Len(p) + Len(q)
      /\ \A i \in 1 .. Len(p) + Len(q) : (p \o q)[i] = IF i <= Len(p) THEN p[i] ELSE q[i - Len(p)]
  BY ConcatProperties, LenProperties
<1> DEFINE r == p \o q
<1> HIDE DEF r
<1> SUFFICES ASSUME NEW i \in Pos
             PROVE  OpOf(r, i, s) = IF i <= Len(p) THEN OpOf(p, i, s) ELSE OpOf(q, i - Len(p), s)
  BY DEF r
<1>2. CASE i <= Len(p)
  <2>1. i \in 1 .. Len(r) /\ i \in 1 .. Len(p) /\ r[i] = p[i]
    BY <1>1, <1>2 DEF Pos, r
  <2> QED BY <1>2, <2>1 DEF OpOf
<1>3. CASE ~(i <= Len(p))
  <2>1. (i \in 1 .. Len(r) <=> i - Len(p) \in 1 .. Len(q)) /\ (i \in 1 .. Len(r) => r[i] = q[i - Len(p)])
    BY <1>1, <1>3 DEF Pos, r
  <2> QED BY <1>3, <2>1 DEF OpOf
<1> QED BY <1>2, <1>3

-----------------------------------------------------------------------------
(* A client is removed.                                                     *)

\* Whatever is asked, the queue keeps its type and others their answers.
LEMMA ClientAsks ==
  ASSUME Types, NEW c, stopClientSessions(c)
  PROVE  \E p, q : /\ Moves(0, p \o q) /\ p \in Seq(Requests) /\ q \in Seq(Requests)
                   /\ \A i \in 1 .. Len(p) : ClientOf[p[i].s] = c
                   /\ q = Listed("dgone", {s \in dist : ClientOf[s] = c})
                   /\ {s \in InTime : ClientOf[s] = c} = {} => p = <<>>
<1> DEFINE mine == {s \in InTime : ClientOf[s] = c}
           gone == {s \in dist : ClientOf[s] = c}
           q == Listed("dgone", gone)
<1>1. PICK asked \in [mine -> UNION {stopTimeBasedTrackingMultiplex(s) : s \in mine}] :
         /\ \A s \in mine : asked[s] \in stopTimeBasedTrackingMultiplex(s)
         /\ \E order \in SetToSeqs({s \in mine : asked[s] # <<>>}) :
               Ask([i \in DOMAIN order |-> Head(asked[order[i]])] \o q)
  BY DEF stopClientSessions, Listed
<1> DEFINE A == {s \in mine : asked[s] # <<>>}
<1>2. PICK order \in SetToSeqs(A) : Ask([i \in DOMAIN order |-> Head(asked[order[i]])] \o q)
  BY <1>1
<1> DEFINE p == [i \in DOMAIN order |-> Head(asked[order[i]])]
<1>3. IsFiniteSet(A) /\ A \subseteq mine /\ mine \subseteq InTime
  <2>1. A \subseteq Sessions
    BY DEF InTime
  <2> QED BY <2>1, GnssAssumption, FS_Subset
<1>4. Cardinality(A) \in Nat /\ (Cardinality(A) = 0 <=> A = {})
  BY <1>3, FS_CardinalityType, FS_EmptySet
<1>5. order \in [1 .. Cardinality(A) -> A]
  BY DEF SetToSeqs
<1>6. \A s \in A : Single(asked[s], s) /\ asked[s] # <<>>
  BY <1>1, <1>3, StopSingle
<1>7. \A s \in A : Head(asked[s]) \in Requests /\ Head(asked[s]).s = s
  BY <1>6 DEF Single
<1> DEFINE n == Cardinality(A)
<1> HIDE DEF mine, gone, q, A, n
<1>8. DOMAIN order = 1 .. n /\ \A i \in 1 .. n : order[i] \in A
  BY <1>5 DEF n
<1>9. p \in [1 .. n -> Requests] /\ \A i \in 1 .. n : p[i] = Head(asked[order[i]])
  BY <1>7, <1>8
<1>10. p \in Seq(Requests) /\ Len(p) = n
  BY <1>4, <1>9 DEF n
<1>11. \A i \in 1 .. Len(p) : ClientOf[p[i].s] = c
  <2>1. \A s \in A : ClientOf[s] = c
    BY <1>3 DEF mine
  <2> QED BY <1>7, <1>8, <1>9, <1>10, <2>1
<1>12. q \in Seq(Requests)
  <2>1. gone \in SUBSET Sessions
    BY DEF gone, Types
  <2>2. PICK op \in {"dgone", "dquiet"} : op = "dgone"
    OBVIOUS
  <2> QED BY <2>1, <2>2, ListedIs DEF q
<1>13. mine = {} => p = <<>>
  <2> SUFFICES ASSUME mine = {} PROVE p = <<>>
    OBVIOUS
  <2>1. A = {} /\ n = 0
    BY <1>3, <1>4 DEF n
  <2> QED BY <1>10, <2>1, EmptySeq
<1>14. Moves(0, p \o q)
  BY <1>2, <1>10, <1>12, ConcatProperties DEF Moves, Ask, Rest
<1> QED BY <1>10, <1>11, <1>12, <1>13, <1>14 DEF mine, gone, q

LEMMA RemoveKeeps ==
  ASSUME Types, NEW c \in Clients, RemoveClient(c)
  PROVE  Keeps /\ (~spoilt' /\ Sounds => Steady)
<1>1. /\ c \in clients /\ NewCommand /\ clients' = clients \ {c} /\ stopClientSessions(c)
      /\ UNCHANGED <<begun, known, waiting, resent, up, engine, engineDist, due, faults>>
      /\ time' = time /\ dist' = dist
      /\ spoilt' = (spoilt \/ \E s \in begun : ClientOf[s] = c /\ (s \in InTime \/ due[s] > 0))
  BY DEF RemoveClient, maps
<1>2. PICK p, q : /\ Moves(0, p \o q) /\ p \in Seq(Requests) /\ q \in Seq(Requests)
                  /\ \A i \in 1 .. Len(p) : ClientOf[p[i].s] = c
                  /\ q = Listed("dgone", {s \in dist : ClientOf[s] = c})
                  /\ {s \in InTime : ClientOf[s] = c} = {} => p = <<>>
  BY <1>1, ClientAsks
<1> DEFINE S == {s \in dist : ClientOf[s] = c}
<1>3. PICK op \in {"dgone", "dquiet"} : op = "dgone"
  OBVIOUS
<1>4. /\ \A i \in 1 .. Len(q) : q[i].op = op /\ q[i].s \in S
      /\ \A s \in S : \E m \in Pos : \A i \in Pos : OpOf(q, i, s) = IF i = m THEN op ELSE "none"
      /\ \A s : s \notin S => \A i \in Pos : OpOf(q, i, s) = "none"
      /\ \A s : Hits(q, Asks(s)) = 0
  <2>1. S \in SUBSET Sessions
    BY DEF Types
  <2>2. q = Listed(op, S)
    BY <1>2, <1>3
  <2> HIDE DEF S
  <2> QED BY <2>1, <2>2, ListedIs
<1> HIDE DEF S
<1>5. Types'
  <2>1. modem' \in Seq(Requests)
    BY <1>2, Queued
  <2>2. commands' \in 0 .. MaxCommands
    BY <1>1, GnssAssumption DEF Types, NewCommand
  <2> QED BY <1>1, <2>1, <2>2 DEF Types
<1>6. Pending' = Pending /\ \A t : (Pends(t)' <=> Pends(t)) /\ (StartPends(t)' <=> StartPends(t))
  BY <1>1, PendingSame
<1>7. ASSUME NEW t \in Sessions, Foreign(p \o q, t)
      PROVE  Owing(t)' = Owing(t) /\ \A i \in Pos : Op(i, t)' = Op(i, t)
  <2>1. /\ \A i \in Pos : Op(i, t)' = Op(i + 0, t)
        /\ Hits(modem', Asks(t)) = Hits(modem, Asks(t))
    BY <1>2, <1>7, Elsewhere
  <2> QED BY <1>6, <2>1 DEF Owing, Asks, Waits, Pos
<1>8. ASSUME NEW t \in Sessions, Owed(t)
      PROVE  Owed(t)'
  <2> SUFFICES ASSUME ClientOf[t] \in clients' PROVE due'[t] >= Owing(t)'
    BY DEF Owed
  <2>1. ClientOf[t] # c /\ ClientOf[t] \in clients
    BY <1>1
  <2>2. Foreign(p \o q, t)
    <3>1. /\ Len(p) \in Nat /\ Len(q) \in Nat /\ Len(p \o q) = Len(p) + Len(q)
          /\ \A i \in 1 .. Len(p) + Len(q) : (p \o q)[i] = IF i <= Len(p) THEN p[i] ELSE q[i - Len(p)]
      BY <1>2, ConcatProperties, LenProperties
    <3>2. \A i \in 1 .. Len(q) : ClientOf[q[i].s] = c
      BY <1>4 DEF S
    <3> DEFINE r == p \o q
    <3> HIDE DEF r
    <3>3. ASSUME NEW i \in 1 .. Len(r)
          PROVE  ClientOf[r[i].s] = c
      <4>1. CASE i <= Len(p)
        BY <1>2, <3>1, <3>3, <4>1 DEF r
      <4>2. CASE ~(i <= Len(p))
        <5>1. i - Len(p) \in 1 .. Len(q) /\ r[i] = q[i - Len(p)]
          BY <3>1, <3>3, <4>2 DEF r
        <5> QED BY <3>2, <5>1
      <4> QED BY <4>1, <4>2
    <3>4. Foreign(r, t)
      BY <2>1, <3>3 DEF Foreign
    <3> QED BY <3>4 DEF r
  <2>3. Owing(t)' = Owing(t)
    BY <1>7, <2>2
  <2> QED BY <1>1, <1>8, <2>1, <2>3 DEF Owed
<1>9. ASSUME ~spoilt', Sounds
      PROVE  Sounds' /\ Steady
  <2>1. \A s \in Sessions : ClientOf[s] = c => s \notin InTime /\ (s \in begun => ~(due[s] > 0))
    BY <1>1, <1>9 DEF Sounds, Sound, Starts, Fresh
  <2>2. p = <<>> /\ p \o q = q /\ Moves(0, q)
    <3>1. {s \in InTime : ClientOf[s] = c} = {}
      BY <2>1 DEF InTime
    <3>2. p = <<>> /\ q \in Seq(Requests) /\ Moves(0, p \o q)
      BY <1>2, <3>1
    <3>3. p \o q = q
      BY <3>2, ConcatEmptySeq
    <3> QED BY <3>2, <3>3
  <2>3. ASSUME NEW t \in Sessions \ S
        PROVE  Sound(t)'
    <3>1. Foreign(q, t)
      BY <1>4 DEF Foreign
    <3>2. Owing(t)' = Owing(t) /\ \A i \in Pos : Op(i, t)' = Op(i + 0, t)
      BY <1>7, <2>2, <3>1 DEF Pos
    <3>3. Around(t)
      BY <1>1, <1>6 DEF Around
    <3>4. t \in InTime' <=> t \in InTime
      BY <1>1 DEF InTime
    <3> QED BY <1>1, <1>6, <1>9, <3>2, <3>3, <3>4, Untouched DEF Sounds
  <2>4. ASSUME NEW t \in S
        PROVE  Sound(t)'
    <3>1. t \in Sessions /\ t \in dist /\ ClientOf[t] = c /\ Sound(t)
      BY <1>9 DEF S, Types, Sounds
    <3>2. due[t] = 0 /\ t \in begun
      <4>1. t \in begun
        BY <3>1 DEF Sound, Starts, Fresh
      <4>2. due[t] \in Nat
        BY <3>1, OwingIs DEF Sound, Exact, Owing
      <4> QED BY <2>1, <3>1, <4>1, <4>2
    <3>3. Calm(t) /\ ~Pends(t)
      <4>1. ~Pends(t) /\ \A i \in Pos : Op(i, t) \notin Reporting
        BY <3>1, <3>2, IdleIs DEF Sound
      <4>2. \A i \in Pos : Op(i, t) # "dgone"
        BY <1>1, <3>1 DEF Sound, Gone
      <4> QED BY <4>1, <4>2, OpKinds DEF Calm
    <3>4. PICK m \in Pos : \A i \in Pos : OpOf(q, i, t) = IF i = m THEN op ELSE "none"
      BY <1>4
    <3> DEFINE L == Len(modem)
    <3>5. L \in Nat /\ \A i \in Pos : Op(i, t)' = IF i <= L THEN Op(i + 0, t) ELSE OpOf(q, i - L, t)
      <4>1. L = Len(modem) - 0 /\ L \in Nat
        BY Places
      <4> QED BY <2>2, <4>1, OpMoves
    <3>6. \A i \in Pos : i > L => Op(i, t) = "none"
      BY <3>5 DEF Op, OpOf
    <3> HIDE DEF L
    <3>7. PICK M \in Nat : M = L + m - 1 /\ L <= M
      BY <3>5 DEF Pos
    <3>8. Pushed(t, M, op, "none")
      <4>1. ASSUME NEW i \in Pos
            PROVE  Op(i, t)' = IF i <= M THEN Op(i, t)
                               ELSE IF i = M + 1 THEN op ELSE IF i = M + 2 THEN "none" ELSE "none"
        <5>1. CASE i <= L
          BY <3>5, <3>7, <5>1 DEF Pos
        <5>2. CASE ~(i <= L)
          <6>1. i - L \in Pos /\ Op(i, t)' = IF i - L = m THEN op ELSE "none"
            BY <3>4, <3>5, <5>2 DEF Pos
          <6>2. i - L = m <=> i = M + 1
            BY <3>5, <3>7 DEF Pos
          <6>3. Op(i, t) = "none" /\ (i = M + 1 => ~(i <= M))
            BY <3>6, <3>5, <3>7, <5>2 DEF Pos
          <6> QED BY <6>1, <6>2, <6>3
        <5> QED BY <5>1, <5>2
      <4>2. \A i \in Pos : i > M => Op(i, t) = "none"
        BY <3>5, <3>6, <3>7 DEF Pos
      <4> QED BY <3>7, <4>1, <4>2 DEF Pushed
    <3>9. Exact(t)'
      <4>1. Hits(modem', Asks(t)) = Hits(modem, Asks(t)) + Hits(q, Asks(t)) - 0 /\ Hits(modem, Asks(t)) \in Nat
        BY <2>2, HitsMove
      <4>2. Hits(modem', Asks(t)) = Hits(modem, Asks(t))
        BY <1>4, <4>1
      <4> QED BY <1>1, <1>6, <3>1, <4>2 DEF Sound, Exact, Owing, Asks, Waits
    <3>10. due'[t] = 0 /\ ClientOf[t] \notin clients' /\ t \in begun' /\ t \in dist' /\ t \notin InTime'
      BY <1>1, <2>1, <3>1, <3>2 DEF InTime
    <3>11. ~Pends(t)' /\ (StartPends(t)' => Pends(t)')
      BY <1>6, <3>3, StartIsPending
    <3> QED BY <1>1, <1>3, <3>1, <3>3, <3>8, <3>9, <3>10, <3>11, StrictCommand
  <2>5. Steady
    <3>1. Serves(q)
      BY <1>1, <1>3, <1>4, ServesQuietly DEF FixOps, TimeOps
    <3> QED BY <2>2, <3>1 DEF Steady
  <2> QED BY <2>3, <2>4, <2>5 DEF Sounds
<1> QED BY <1>5, <1>8, <1>9 DEF Keeps

-----------------------------------------------------------------------------
(* The answers of the engine.                                               *)

\* The request h is answered: d answers go to its session, r is asked, whose op is a.
Gives(h, r, a, d) ==
  /\ modem # <<>> /\ h = Head(modem)
  /\ Pushes(r, h.s, a, "none") /\ Moves(1, r)
  /\ due' = [due EXCEPT ![h.s] = @ - d]
  /\ UNCHANGED <<waiting, resent>>

\* How many answers go astray.
Astray(h, a, d) == (IF h.op \in Reporting THEN 1 ELSE 0) - (IF a \in Reporting THEN 1 ELSE 0) - d

LEMMA AnswerGiven ==
  ASSUME Types, NEW h \in Requests, NEW r, NEW a, NEW d \in {0, 1}, Gives(h, r, a, d)
  PROVE  /\ modem' \in Seq(Requests) /\ due' \in [Sessions -> Int]
         /\ h.s \in Sessions /\ Op(1, h.s) = IF h.op = "restart" THEN "none" ELSE h.op
         /\ Popped(h.s, Len(modem) - 1, a) /\ due'[h.s] = due[h.s] - d
         /\ Astray(h, a, d) = 0 => Evenly(h.s)
         /\ Astray(h, a, d) >= 0 /\ clients' = clients => \A t \in Sessions : Owed(t) => Owed(t)'
         /\ \A t \in Sessions : (Pends(t)' <=> Pends(t)) /\ (StartPends(t)' <=> StartPends(t))
         /\ \A t \in Sessions \ {h.s} :
              /\ Op(1, t) = "none" /\ \A i \in Pos : Op(i, t)' = Op(i + 1, t)
              /\ due'[t] = due[t] /\ Owing(t)' = Owing(t)
<1> DEFINE s == h.s
<1>1. /\ modem # <<>> /\ h = Head(modem) /\ Pushes(r, s, a, "none") /\ Moves(1, r)
      /\ due' = [due EXCEPT ![s] = @ - d] /\ UNCHANGED <<waiting, resent>> /\ s \in Sessions
  BY DEF Gives, Requests
<1> HIDE DEF s
<1>2. 1 \in 1 .. Len(modem) /\ modem[1] = h /\ h.s = s
  BY <1>1 DEF Types, s
<1>3. Op(1, s) = IF h.op = "restart" THEN "none" ELSE h.op
  BY <1>2 DEF Op, OpOf
<1>4. modem' \in Seq(Requests) /\ Popped(s, Len(modem) - 1, a)
  BY <1>1, Queued, PopsMine
<1>5. /\ due' \in [Sessions -> Int] /\ due'[s] = due[s] - d /\ due[s] \in Int
      /\ \A t \in Sessions \ {s} : due'[t] = due[t]
  BY <1>1 DEF Types
<1>6. Pending' = Pending /\ \A t \in Sessions : (Pends(t)' <=> Pends(t)) /\ (StartPends(t)' <=> StartPends(t))
  BY <1>1, PendingSame
<1>7. ASSUME NEW t \in Sessions \ {s}
      PROVE  /\ Op(1, t) = "none" /\ \A i \in Pos : Op(i, t)' = Op(i + 1, t)
             /\ due'[t] = due[t] /\ Owing(t)' = Owing(t)
  <2>1. Op(1, t) = "none"
    BY <1>2 DEF Op, OpOf
  <2>2. Foreign(r, t)
    BY <1>1 DEF Pushes, Foreign
  <2>3. /\ \A i \in Pos : Op(i, t)' = Op(i + 1, t)
        /\ Hits(modem', Asks(t)) = Hits(modem, Asks(t))
    BY <1>1, <2>1, <2>2, Elsewhere
  <2> QED BY <1>5, <1>6, <2>1, <2>3 DEF Owing, Asks, Waits
<1>8. PICK x \in {0, 1} : x = IF h.op \in Reporting THEN 1 ELSE 0
  OBVIOUS
<1>9. PICK y \in {0, 1} : y = IF a \in Reporting THEN 1 ELSE 0
  OBVIOUS
<1>10. /\ Owing(s) \in Int /\ Owing(s)' \in Int
       /\ Owing(s)' = Owing(s) + y - x
  <2>1. Hits(r, Asks(s)) = y
    <3>1. "none" \notin Reporting
      BY DEF Reporting, TimeOps, Strict
    <3> QED BY <1>1, <1>9, <3>1 DEF Pushes
  <2>2. h \in Asks(s) <=> h.op \in Reporting
    BY <1>2 DEF Asks
  <2>3. Hits(modem', Asks(s)) = Hits(modem, Asks(s)) + y - x
    <3>1. Hits(modem', Asks(s)) = Hits(modem, Asks(s)) + Hits(r, Asks(s)) - IF h \in Asks(s) THEN 1 ELSE 0
      BY <1>1, HitsMove
    <3> QED BY <1>8, <2>1, <2>2, <3>1
  <2>4. Hits(modem, Asks(s)) \in Nat /\ Hits(Pending, Waits(s)) \in Nat
    BY <1>1, OwingIs
  <2>5. Owing(s) = Hits(modem, Asks(s)) + Hits(Pending, Waits(s))
    BY DEF Owing
  <2>6. Owing(s)' = Hits(modem', Asks(s)) + Hits(Pending, Waits(s))
    BY <1>6 DEF Owing, Asks, Waits
  <2> QED BY <2>3, <2>4, <2>5, <2>6
<1>11. Astray(h, a, d) = x - y - d
  BY <1>8, <1>9 DEF Astray
<1>12. Astray(h, a, d) = 0 => Evenly(s)
  BY <1>5, <1>10, <1>11, <1>1 DEF Evenly
<1>13. ASSUME Astray(h, a, d) >= 0, clients' = clients, NEW t \in Sessions, Owed(t)
       PROVE  Owed(t)'
  <2>1. CASE t = s
    <3>1. due'[s] - Owing(s)' >= due[s] - Owing(s)
      BY <1>5, <1>10, <1>11, <1>13
    <3> QED BY <1>5, <1>10, <1>13, <2>1, <3>1 DEF Owed
  <2>2. CASE t # s
    <3>1. due'[t] = due[t] /\ Owing(t)' = Owing(t)
      BY <1>7, <2>2
    <3> QED BY <1>13, <3>1 DEF Owed
  <2> QED BY <2>1, <2>2
<1> QED BY <1>1, <1>2, <1>3, <1>4, <1>5, <1>6, <1>7, <1>12, <1>13 DEF s

\* An answer is of no concern to the other sessions.
LEMMA AnswerOthers ==
  ASSUME Types, NEW h \in Requests, NEW r, NEW a, NEW d \in {0, 1}, Gives(h, r, a, d),
         NEW t \in Sessions \ {h.s}, Sound(t), Saves(h.s),
         t \in engineDist' <=> t \in engineDist, UNCHANGED <<begun, clients, up>>
  PROVE  Sound(t)'
<1>1. /\ Op(1, t) = "none" /\ \A i \in Pos : Op(i, t)' = Op(i + 1, t)
      /\ due'[t] = due[t] /\ Owing(t)' = Owing(t)
      /\ (Pends(t)' <=> Pends(t)) /\ (StartPends(t)' <=> StartPends(t))
  BY AnswerGiven
<1>2. Around(t)
  BY <1>1 DEF Around
<1>3. (t \in dist' <=> t \in dist) /\ (t \in InTime' <=> t \in InTime)
  BY DEF Saves, InTime
<1> QED BY <1>1, <1>2, <1>3, Untouched

\* While its request is answered a session is tracked by distance, unless it is
\* to be switched.
LEMMA DistHere ==
  ASSUME NEW s \in Sessions, Sound(s), Op(1, s) \in DistanceOps \ {"dquiet"}
  PROVE  /\ s \in dist <=> Op(1, s) # "dswitch"
         /\ \A i \in Pos : i > 1 => Op(i, s) # "dswitch"
<1>1. 1 \in Pos /\ \A i \in Pos : i # 1 => 1 < i
  BY DEF Pos
<1>2. \A i \in Pos : i # 1 => Op(i, s) # "dswitch"
  BY <1>1 DEF Sound, Order, DistanceOps
<1>3. s \in dist <=> \A i \in Pos : Op(i, s) # "dswitch"
  BY <1>1 DEF Sound, Kept
<1> QED BY <1>1, <1>2, <1>3 DEF Pos

LEMMA GivesNothing ==
  ASSUME Types, modem # <<>>, NEW h, h = Head(modem), NEW d \in {0, 1}, modem' = Tail(modem),
         due' = [due EXCEPT ![h.s] = @ - d], UNCHANGED <<waiting, resent>>
  PROVE  Gives(h, <<>>, "none", d)
<1>1. Tail(modem) \o <<>> = Tail(modem) /\ Rest(1) = Tail(modem)
  <2>1. Tail(modem) \in Seq(Requests)
    BY HeadTailProperties DEF Types
  <2> QED BY <2>1, ConcatEmptySeq DEF Rest
<1>2. Moves(1, <<>>)
  BY <1>1 DEF Moves
<1> QED BY <1>2, PushesNone DEF Gives

LEMMA AnswerKeeps ==
  ASSUME Types, NEW h \in Requests, NEW r, NEW a, NEW d \in {0, 1}, Gives(h, r, a, d),
         Saves(h.s), Astray(h, a, d) >= 0,
         UNCHANGED <<begun, clients, known, up, commands>>,
         faults' \in 0 .. MaxFaults, spoilt' \in BOOLEAN,
         engine' \in [on : BOOLEAN, ivl : Nat], engineDist' \subseteq Sessions,
         ~up => engine' = Off /\ engineDist' = {},
         \A t \in Sessions \ {h.s} : t \in engineDist' <=> t \in engineDist,
         ~spoilt' /\ Sound(h.s) => Sound(h.s)'
  PROVE  Keeps
<1>1. Types'
  <2>1. modem' \in Seq(Requests) /\ due' \in [Sessions -> Int]
    BY AnswerGiven
  <2>2. waiting' = waiting /\ resent' = resent
    BY DEF Gives
  <2> QED BY <2>1, <2>2 DEF Types, Saves
<1>2. \A t \in Sessions : Owed(t) => Owed(t)'
  BY AnswerGiven
<1>3. ASSUME ~spoilt', Sounds, NEW t \in Sessions
      PROVE  Sound(t)'
  <2>1. CASE t = h.s
    BY <1>3, <2>1 DEF Sounds
  <2>2. CASE t # h.s
    BY <1>3, <2>2, AnswerOthers DEF Sounds
  <2> QED BY <2>1, <2>2
<1> QED BY <1>1, <1>2, <1>3 DEF Keeps, Sounds

\* What the session of an answered request knows.
Answering(s, a) == Sound(s) /\ Around(s) /\ Popped(s, Len(modem) - 1, a) /\ (Pends(s)' <=> Pends(s))

LEMMA AnswerFrame ==
  ASSUME Types, NEW h \in Requests, NEW r, NEW a, NEW d \in {0, 1}, Gives(h, r, a, d),
         Sound(h.s), UNCHANGED <<begun, clients, up>>
  PROVE  /\ Answering(h.s, a) /\ h.s \in Sessions /\ due'[h.s] = due[h.s] - d
         /\ Astray(h, a, d) = 0 => Exact(h.s)'
         /\ Op(1, h.s) = IF h.op = "restart" THEN "none" ELSE h.op
<1>1. /\ h.s \in Sessions /\ Popped(h.s, Len(modem) - 1, a) /\ due'[h.s] = due[h.s] - d
      /\ Op(1, h.s) = IF h.op = "restart" THEN "none" ELSE h.op
      /\ Astray(h, a, d) = 0 => Evenly(h.s)
      /\ \A t \in Sessions : (Pends(t)' <=> Pends(t)) /\ (StartPends(t)' <=> StartPends(t))
  BY AnswerGiven
<1>2. Around(h.s)
  BY <1>1 DEF Around
<1>3. Astray(h, a, d) = 0 => Exact(h.s)'
  <2>1. Exact(h.s) /\ clients' \subseteq clients
    BY DEF Sound
  <2> QED BY <1>1, <2>1, EvenlyOwed
<1> QED BY <1>1, <1>2, <1>3 DEF Answering

Steadily == \E r : Moves(1, r) /\ Serves(r)

LEMMA GivesSteadily ==
  ASSUME NEW h, NEW r, NEW a, NEW d, Gives(h, r, a, d), Serves(r)
  PROVE  Steadily
BY DEF Gives, Steadily

LEMMA ServesNothing ==
  ASSUME time' = time
  PROVE  Serves(<<>>)
<1>1. \A i \in 1 .. Len(<<>>) : <<>>[i].op \notin FixOps
  OBVIOUS
<1> QED BY <1>1, ServesQuietly

\* Whose answer changes no map: only the engine's distances may.
LEMMA PlainKeeps ==
  ASSUME Types, NEW h \in Requests, NEW d \in {0, 1}, Gives(h, <<>>, "none", d),
         h.op \in TimeOps \cup {"restart", "dquiet", "dstart", "dagain"},
         d = IF h.op \in Reporting THEN 1 ELSE 0,
         UNCHANGED <<begun, clients, known, up, commands, faults, spoilt, time>>, up,
         dist' = dist \/ (h.op = "dagain" /\ dist' = dist \cup {h.s}),
         engine' \in [on : BOOLEAN, ivl : Nat],
         engineDist' = IF h.op \in {"dquiet", "dstart", "dagain"} THEN engineDist \cup {h.s} ELSE engineDist
  PROVE  Keeps /\ Steadily
<1> DEFINE s == h.s
<1>1. s \in Sessions
  BY DEF Requests
<1>2. Saves(s)
  BY <1>1 DEF Types, Saves
<1>3. Astray(h, "none", d) = 0
  BY DEF Astray, Reporting, TimeOps, Strict
<1>4. engineDist' \subseteq Sessions /\ \A t \in Sessions \ {s} : t \in engineDist' <=> t \in engineDist
  BY <1>1 DEF Types
<1>5. ASSUME Sound(s)
      PROVE  Sound(s)'
  <2>1. PICK a : a = "none"
    OBVIOUS
  <2>2. Gives(h, <<>>, a, d) /\ Astray(h, a, d) = 0
    BY <1>3, <2>1
  <2>3. /\ Answering(s, a) /\ due'[s] = due[s] - d /\ Exact(s)'
        /\ Op(1, s) = IF h.op = "restart" THEN "none" ELSE h.op
    BY <1>5, <2>2, AnswerFrame
  <2> HIDE DEF s
  <2>4. s \in InTime' <=> s \in InTime
    BY DEF InTime
  <2>5. due[s] \in Int
    BY <1>1 DEF Types
  <2>6. CASE h.op \in TimeOps
    <3>1. Op(1, s) \in TimeOps /\ d = 1 /\ dist' = dist /\ engineDist' = engineDist
      BY <2>3, <2>6 DEF Reporting, TimeOps
    <3>2. Types'
      <4>1. modem' \in Seq(Requests) /\ due' \in [Sessions -> Int]
        BY AnswerGiven
      <4> QED BY <1>2, <4>1, <3>1 DEF Types, Gives, Saves, s
    <3> QED BY <1>1, <1>5, <2>1, <2>3, <2>4, <3>1, <3>2, TimeAnswered DEF Answering
  <2>7. CASE h.op = "restart"
    <3>1. d = 0 /\ dist' = dist /\ engineDist' = engineDist /\ due'[s] = due[s] /\ Op(1, s) = "none"
      BY <2>3, <2>5, <2>7 DEF Reporting, TimeOps, Strict
    <3>2. \A i \in Pos : Op(i, s)' = Op(i + 1, s)
      BY <2>1, <2>3 DEF Answering, Popped, Pos
    <3>3. Owing(s)' = Owing(s)
      BY <1>5, <2>3, <3>1 DEF Sound, Exact
    <3> QED BY <1>1, <1>5, <2>3, <2>4, <3>1, <3>2, <3>3, Untouched DEF Answering
  <2>8. CASE h.op = "dquiet"
    <3>1. d = 0 /\ dist' = dist /\ s \in engineDist' /\ due'[s] = due[s] /\ Op(1, s) = "dquiet"
      BY <2>3, <2>5, <2>8 DEF Reporting, TimeOps, Strict, s
    <3> QED BY <1>1, <1>5, <2>1, <2>3, <2>4, <3>1, QuietlyAnswered DEF Answering
  <2>9. CASE h.op \in {"dstart", "dagain"}
    <3>1. d = 1 /\ s \in engineDist' /\ Op(1, s) \in {"dstart", "dagain"}
      BY <2>3, <2>9 DEF Reporting, TimeOps, Strict, s
    <3>2. s \in dist
      BY <1>1, <1>5, <3>1, DistHere DEF DistanceOps
    <3>3. s \in dist' <=> s \in dist
      BY <3>2
    <3>4. Types'
      <4>1. modem' \in Seq(Requests) /\ due' \in [Sessions -> Int]
        BY AnswerGiven
      <4> QED BY <1>2, <1>4, <4>1 DEF Types, Gives, Saves, s
    <3> QED BY <1>1, <1>5, <2>1, <2>3, <2>4, <3>1, <3>3, <3>4, DistanceStarted DEF Answering
  <2> QED BY <2>6, <2>7, <2>8, <2>9
<1>6. Keeps
  <2>1. spoilt' \in BOOLEAN /\ faults' \in 0 .. MaxFaults
    BY DEF Types
  <2>2. PICK a : a = "none"
    OBVIOUS
  <2>3. Gives(h, <<>>, a, d) /\ Astray(h, a, d) >= 0
    BY <1>3, <2>2
  <2> QED BY <1>2, <1>4, <1>5, <2>1, <2>3, AnswerKeeps
<1> QED BY <1>6, ServesNothing, GivesSteadily

\* A distance was stopped.
LEMMA StopOfDistanceKeeps ==
  ASSUME Types, NEW h \in Requests, NEW d \in {0, 1}, Gives(h, <<>>, "none", d),
         h.op \in {"dstop", "dgone"}, d = IF h.op = "dstop" THEN 1 ELSE 0, eraseTrackingSession(h.s),
         UNCHANGED <<begun, clients, known, up, commands, faults, spoilt, engine>>, up,
         engineDist' = engineDist \ {h.s}
  PROVE  Keeps /\ (Sounds => Steadily)
<1> DEFINE s == h.s
<1>1. s \in Sessions
  BY DEF Requests
<1>2. Saves(s)
  BY <1>1, MapsSaved DEF eraseTrackingSession, TimeOptions
<1>3. Astray(h, "none", d) = 0
  BY DEF Astray, Reporting, TimeOps, Strict
<1>4. engineDist' \subseteq Sessions /\ \A t \in Sessions \ {s} : t \in engineDist' <=> t \in engineDist
  BY <1>1 DEF Types
<1>5. PICK a : a = "none"
  OBVIOUS
<1>6. Gives(h, <<>>, a, d) /\ Astray(h, a, d) = 0
  BY <1>3, <1>5
<1>7. Types'
  <2>1. modem' \in Seq(Requests) /\ due' \in [Sessions -> Int]
    BY <1>6, AnswerGiven
  <2> QED BY <1>2, <1>4, <2>1 DEF Types, Gives, Saves, s
<1>8. ASSUME Sound(s)
      PROVE  Sound(s)' /\ time' = time
  <2>1. /\ Answering(s, a) /\ due'[s] = due[s] - d /\ Exact(s)'
        /\ Op(1, s) = IF h.op = "restart" THEN "none" ELSE h.op
    BY <1>6, <1>8, AnswerFrame
  <2>2. s \notin engineDist'
    BY DEF s
  <2>3. dist' = dist \ {s} \/ s \in InTime
    BY DEF eraseTrackingSession, s
  <2>4. dist' = dist \ {s} => time' = time \/ s \in InTime
    BY DEF eraseTrackingSession, s
  <2>5. Op(1, s) = h.op /\ Op(1, s) \in {"dstop", "dgone"}
    BY <2>1
  <2>6. d = IF Op(1, s) = "dstop" THEN 1 ELSE 0
    BY <2>5
  <2> HIDE DEF s
  <2>7. s \in dist /\ s \notin InTime
    <3>1. s \in dist
      BY <1>1, <1>8, <2>5, DistHere DEF DistanceOps
    <3> QED BY <1>8, <3>1 DEF Sound, OneWay
  <2>8. dist' = dist \ {s} /\ time' = time
    BY <2>3, <2>4, <2>7
  <2>9. due'[s] = 0
    <3>1. 1 \in Pos
      BY DEF Pos
    <3>2. due[s] = d
      BY <1>8, <2>5, <2>6, <3>1 DEF Sound, Sole, Gone, Strict
    <3> QED BY <2>1, <3>2
  <2>10. s \in InTime' => s \in InTime
    BY <2>8 DEF InTime
  <2> QED BY <1>1, <1>5, <1>7, <1>8, <2>1, <2>2, <2>5, <2>8, <2>9, <2>10, DistanceStopped DEF Answering
<1>9. Keeps
  <2>1. spoilt' \in BOOLEAN /\ faults' \in 0 .. MaxFaults /\ engine' \in [on : BOOLEAN, ivl : Nat]
    BY DEF Types
  <2>2. Astray(h, a, d) >= 0
    BY <1>6
  <2> QED BY <1>2, <1>4, <1>6, <1>8, <2>1, <2>2, AnswerKeeps
<1>10. Sounds => Steadily
  BY <1>1, <1>6, <1>8, ServesNothing, GivesSteadily DEF Sounds
<1> QED BY <1>9, <1>10

\* A distance was stopped to go on by time, whatever the answer.
LEMMA SwitchGives ==
  ASSUME Types, NEW h \in Requests, modem # <<>>, h = Head(modem), SwitchAnswered(h),
         UNCHANGED <<waiting, resent>>
  PROVE  \E r, a, d : /\ Gives(h, r, a, d) /\ a \in TimeOps \cup {"none"} /\ d \in {0, 1}
                      /\ Saves(h.s) /\ Serves(r) /\ Astray(h, a, d) = 0 /\ dist' = dist
<1>1. h.op = "dswitch" /\ h.s \in Sessions
  BY DEF SwitchAnswered, Requests
<1>2. PICK s \in Sessions : s = h.s
  BY <1>1
<1>3. PICK o \in Options : o = h.o /\ ~o.dist
  BY <1>1 DEF Requests
<1>4. PICK asked \in startTimeBasedTrackingMultiplex(s, o) :
         /\ modem' = Tail(modem) \o asked
         /\ Owe(s, 0, asked = <<>>)
  BY <1>2, <1>3 DEF SwitchAnswered
<1>5. time' = [time EXCEPT ![s] = o] /\ dist' = dist /\ o \in TimeOptions
  BY <1>2, <1>3 DEF SwitchAnswered, saveTrackingSession, TimeOptions
<1>6. Single(asked, s) /\ Serves(asked)
  BY <1>3, <1>4, <1>5, StartAsks
<1>7. PICK a \in TimeOps \cup {"none"} : Pushes(asked, s, a, "none") /\ (a = "none" <=> asked = <<>>)
  BY <1>6, SinglePushes
<1>8. Moves(1, asked)
  BY <1>4, <1>7 DEF Moves, Rest, Pushes
<1>9. PICK d \in {0, 1} : d = IF asked = <<>> THEN 1 ELSE 0
  OBVIOUS
<1>10. due' = [due EXCEPT ![s] = @ - d]
  <2>1. due' = [due EXCEPT ![s] = @ + 0 - d]
    BY <1>4, <1>9 DEF Owe
  <2>2. due[s] \in Int
    BY DEF Types
  <2>3. due[s] + 0 - d = due[s] - d
    BY <2>2
  <2> QED BY <2>1, <2>3
<1>11. Gives(h, asked, a, d)
  BY <1>2, <1>7, <1>8, <1>10 DEF Gives
<1>12. Astray(h, a, d) = 0
  BY <1>1, <1>7, <1>9 DEF Astray, Reporting, TimeOps, Strict
<1>13. Saves(h.s)
  BY <1>2, <1>5, MapsSaved
<1> QED BY <1>5, <1>6, <1>11, <1>12, <1>13

LEMMA SwitchKeeps ==
  ASSUME Types, NEW h \in Requests, modem # <<>>, h = Head(modem), SwitchAnswered(h),
         UNCHANGED <<waiting, resent, begun, clients, known, up, commands, faults, spoilt, engine>>, up,
         engineDist' = engineDist \ {h.s}
  PROVE  Keeps /\ Steadily
<1>1. PICK r, a, d : /\ Gives(h, r, a, d) /\ a \in TimeOps \cup {"none"} /\ d \in {0, 1}
                     /\ Saves(h.s) /\ Serves(r) /\ Astray(h, a, d) = 0 /\ dist' = dist
  BY SwitchGives
<1>2. h.op = "dswitch" /\ h.s \in Sessions
  BY DEF SwitchAnswered, Requests
<1>3. PICK s \in Sessions : s = h.s
  BY <1>2
<1>4. engineDist' \subseteq Sessions /\ s \notin engineDist'
      /\ \A t \in Sessions \ {s} : t \in engineDist' <=> t \in engineDist
  BY <1>3 DEF Types
<1>5. ASSUME Sound(s)
      PROVE  Sound(s)'
  <2>1. Answering(s, a) /\ Exact(s)' /\ Op(1, s) = "dswitch"
    BY <1>1, <1>2, <1>3, <1>5, AnswerFrame
  <2> QED BY <1>1, <1>4, <1>5, <2>1, Switched DEF Answering
<1>6. spoilt' \in BOOLEAN /\ faults' \in 0 .. MaxFaults /\ engine' \in [on : BOOLEAN, ivl : Nat]
  BY DEF Types
<1>7. Keeps
  <2>1. Astray(h, a, d) >= 0
    BY <1>1
  <2> QED BY <1>1, <1>3, <1>4, <1>5, <1>6, <2>1, AnswerKeeps
<1> QED BY <1>1, <1>7, GivesSteadily

\* A distance was stopped to go on with other options.
LEMMA ChangeKeeps ==
  ASSUME Types, NEW h \in Requests, modem # <<>>, h = Head(modem), h.op = "dupdate",
         modem' = Tail(modem) \o <<Request("dagain", h.s, 0, h.o)>>,
         UNCHANGED <<maps, due, waiting, resent, begun, clients, known, up, commands, faults, spoilt, engine>>,
         up, engineDist' = engineDist \ {h.s}
  PROVE  Keeps /\ Steadily
<1>1. PICK s \in Sessions : s = h.s
  BY DEF Requests
<1>2. PICK a : a = "dagain"
  OBVIOUS
<1>3. PICK x \in Requests : x = Request("dagain", s, 0, h.o) /\ x.s = s /\ x.op = a
  <2>1. Request("dagain", s, 0, h.o) \in Requests
    BY <1>1 DEF Request, Requests, Ops, DistanceOps
  <2> QED BY <1>2, <2>1 DEF Request
<1>4. Pushes(<<x>>, s, a, "none")
  BY <1>2, <1>3, PushesOne
<1>5. Moves(1, <<x>>)
  BY <1>1, <1>3 DEF Moves, Rest
<1>6. Gives(h, <<x>>, a, 0)
  <2>1. due' = [due EXCEPT ![s] = @ - 0]
    BY DEF Types
  <2> QED BY <1>1, <1>4, <1>5, <2>1 DEF Gives
<1>7. Astray(h, a, 0) = 0
  BY <1>2 DEF Astray, Reporting, TimeOps, Strict
<1>8. Saves(s) /\ time' = time /\ dist' = dist
  BY MapsSaved DEF maps
<1>9. engineDist' \subseteq Sessions /\ \A t \in Sessions \ {s} : t \in engineDist' <=> t \in engineDist
  BY <1>1 DEF Types
<1>10. ASSUME Sound(s)
       PROVE  Sound(s)'
  <2>1. PICK d \in {0, 1} : d = 0
    OBVIOUS
  <2>2. Gives(h, <<x>>, a, d) /\ Astray(h, a, d) = 0
    BY <1>6, <1>7, <2>1
  <2>3. Answering(s, a) /\ Exact(s)' /\ Op(1, s) = "dupdate" /\ due'[s] = due[s]
    BY <1>1, <1>10, <2>2, AnswerFrame
  <2>4. s \in InTime' <=> s \in InTime
    BY <1>8 DEF InTime
  <2> QED BY <1>2, <1>8, <1>10, <2>3, <2>4, Changed DEF Answering
<1>11. Serves(<<x>>)
  <2>1. \A i \in 1 .. Len(<<x>>) : <<x>>[i] = x
    OBVIOUS
  <2>2. x.op \notin FixOps
    BY <1>2, <1>3 DEF FixOps, TimeOps
  <2> QED BY <1>8, <2>1, <2>2, ServesQuietly
<1>12. Keeps
  <2>1. PICK d \in {0, 1} : d = 0
    OBVIOUS
  <2>2. Gives(h, <<x>>, a, d) /\ Astray(h, a, d) >= 0
    BY <1>6, <1>7, <2>1
  <2>3. spoilt' \in BOOLEAN /\ faults' \in 0 .. MaxFaults /\ engine' \in [on : BOOLEAN, ivl : Nat]
    BY DEF Types
  <2> QED BY <1>1, <1>8, <1>9, <1>10, <2>2, <2>3, AnswerKeeps
<1> QED BY <1>6, <1>11, <1>12, GivesSteadily

LEMMA AnswersKeep ==
  ASSUME Types, EngineAnswers
  PROVE  Keeps /\ (Sounds => Steadily)
<1>1. PICK h \in Requests : h = Head(modem)
  BY HeadTailProperties DEF Types, EngineAnswers
<1>2. /\ modem # <<>> /\ up /\ EngineServes(h) /\ Answered(h, TRUE)
      /\ UNCHANGED <<begun, clients, known, waiting, resent, up, commands, faults, spoilt>>
  BY <1>1 DEF EngineAnswers, counters
<1>3. h.ivl \in Nat /\ h.s \in Sessions
  BY DEF Requests
<1>4. /\ h.op \in TimeOps \cup {"restart", "dquiet", "dstart", "dagain"} =>
           engineDist' = IF h.op \in {"dquiet", "dstart", "dagain"} THEN engineDist \cup {h.s} ELSE engineDist
      /\ h.op \in {"dstop", "dgone", "dswitch", "dupdate"} => engineDist' = engineDist \ {h.s} /\ engine' = engine
      /\ engine' \in [on : BOOLEAN, ivl : Nat]
  BY <1>2, <1>3 DEF EngineServes, TimeOps, Off, Types
<1>5. ASSUME h.op \in {"start", "dstart", "update", "stop", "dagain"}, modem' = Tail(modem),
             due' = [due EXCEPT ![h.s] = @ - 1], time' = time,
             dist' = dist \/ (h.op = "dagain" /\ dist' = dist \cup {h.s})
      PROVE  Keeps /\ Steadily
  <2>1. PICK d \in {0, 1} : d = 1
    OBVIOUS
  <2>2. Gives(h, <<>>, "none", d)
    BY <1>1, <1>2, <1>5, <2>1, GivesNothing
  <2>3. d = IF h.op \in Reporting THEN 1 ELSE 0
    BY <1>5, <2>1 DEF Reporting, TimeOps, Strict
  <2>4. h.op \in TimeOps \cup {"restart", "dquiet", "dstart", "dagain"}
    BY <1>5 DEF TimeOps
  <2> QED BY <1>2, <1>4, <1>5, <2>2, <2>3, <2>4, PlainKeeps
<1>6. CASE StartAnswered(h, TRUE)
  <2>1. /\ h.op \in {"start", "dstart", "update", "stop", "dagain"} /\ modem' = Tail(modem)
        /\ due' = [due EXCEPT ![h.s] = @ - 1] /\ time' = time /\ dist' = dist
    BY <1>6 DEF StartAnswered, Reported, maps
  <2> QED BY <1>5, <2>1
<1>7. CASE UpdateAnswered(h, TRUE)
  <2>1. /\ h.op \in {"start", "dstart", "update", "stop", "dagain"} /\ modem' = Tail(modem)
        /\ due' = [due EXCEPT ![h.s] = @ - 1] /\ time' = time /\ dist' = dist
    BY <1>7 DEF UpdateAnswered, Reported, maps
  <2> QED BY <1>5, <2>1
<1>8. CASE StopAnswered(h)
  <2>1. /\ h.op \in {"start", "dstart", "update", "stop", "dagain"} /\ modem' = Tail(modem)
        /\ due' = [due EXCEPT ![h.s] = @ - 1] /\ time' = time /\ dist' = dist
    BY <1>8 DEF StopAnswered, Reported, maps
  <2> QED BY <1>5, <2>1
<1>9. CASE QuietAnswered(h)
  <2>1. h.op \in {"restart", "dquiet"} /\ modem' = Tail(modem) /\ time' = time /\ dist' = dist /\ due' = due
    BY <1>9 DEF QuietAnswered, maps
  <2>2. PICK d \in {0, 1} : d = 0
    OBVIOUS
  <2>3. due' = [due EXCEPT ![h.s] = @ - d]
    BY <1>3, <2>1, <2>2 DEF Types
  <2>4. Gives(h, <<>>, "none", d)
    BY <1>1, <1>2, <2>1, <2>3, GivesNothing
  <2>5. d = IF h.op \in Reporting THEN 1 ELSE 0
    BY <2>1, <2>2 DEF Reporting, TimeOps, Strict
  <2>6. h.op \in TimeOps \cup {"restart", "dquiet", "dstart", "dagain"}
    BY <2>1
  <2> QED BY <1>2, <1>4, <2>1, <2>4, <2>5, <2>6, PlainKeeps
<1>10. CASE DistanceStopAnswered(h, TRUE)
  <2>1. /\ h.op \in {"dstop", "dgone"} /\ eraseTrackingSession(h.s) /\ modem' = Tail(modem)
        /\ IF h.op = "dstop" THEN due' = [due EXCEPT ![h.s] = @ - 1] ELSE due' = due
    BY <1>10 DEF DistanceStopAnswered, Reported
  <2>2. PICK d \in {0, 1} : d = IF h.op = "dstop" THEN 1 ELSE 0
    OBVIOUS
  <2>3. due' = [due EXCEPT ![h.s] = @ - d]
    BY <1>3, <2>1, <2>2 DEF Types
  <2>4. Gives(h, <<>>, "none", d)
    BY <1>1, <1>2, <2>1, <2>3, GivesNothing
  <2> QED BY <1>2, <1>4, <2>1, <2>2, <2>4, StopOfDistanceKeeps
<1>11. CASE SwitchAnswered(h)
  <2>1. h.op = "dswitch"
    BY <1>11 DEF SwitchAnswered
  <2> QED BY <1>1, <1>2, <1>4, <1>11, <2>1, SwitchKeeps
<1>12. CASE DistanceUpdateAnswered(h, TRUE)
  <2>1. CASE h.op = "dupdate"
    <3>1. modem' = Tail(modem) \o <<Request("dagain", h.s, 0, h.o)>> /\ UNCHANGED <<maps, due>>
      BY <1>12, <2>1 DEF DistanceUpdateAnswered
    <3> QED BY <1>1, <1>2, <1>4, <2>1, <3>1, ChangeKeeps
  <2>2. CASE h.op = "dagain"
    <3>1. /\ modem' = Tail(modem) /\ due' = [due EXCEPT ![h.s] = @ - 1]
          /\ saveTrackingSession(h.s, h.o) /\ h.o.dist
      BY <1>12, <2>2 DEF DistanceUpdateAnswered, Reported, Requests
    <3>2. time' = time /\ dist' = dist \cup {h.s}
      BY <3>1 DEF saveTrackingSession
    <3> QED BY <1>5, <2>2, <3>1, <3>2
  <2> QED BY <1>12, <2>1, <2>2 DEF DistanceUpdateAnswered
<1> QED BY <1>2, <1>6, <1>7, <1>8, <1>9, <1>10, <1>11, <1>12 DEF Answered

\* A refusal.  Where it is not made good only the answers are accounted for.
LEMMA RefusalKeeps ==
  ASSUME Types, NEW h \in Requests, NEW d \in {0, 1}, Gives(h, <<>>, "none", d), Saves(h.s),
         h.op \in Reporting => d = 1 \/ h.op = "dupdate", h.op \notin Reporting => d = 0,
         UNCHANGED <<begun, clients, known, up, commands, engine, engineDist>>,
         faults' \in 0 .. MaxFaults, spoilt' \in BOOLEAN,
         ~spoilt' /\ Sound(h.s) => Sound(h.s)'
  PROVE  Keeps
<1>1. Astray(h, "none", d) >= 0
  BY DEF Astray, Reporting, TimeOps, Strict
<1>2. PICK a : a = "none"
  OBVIOUS
<1>3. Gives(h, <<>>, a, d) /\ Astray(h, a, d) >= 0
  BY <1>1, <1>2
<1>4. /\ engine' \in [on : BOOLEAN, ivl : Nat] /\ engineDist' \subseteq Sessions
      /\ ~up => engine' = Off /\ engineDist' = {}
  BY DEF Types
<1> QED BY <1>3, <1>4, AnswerKeeps

\* The refusals that are made good: the queue was the request alone.
LEMMA RepairedKeeps ==
  ASSUME Types, NEW h \in Requests, NEW d \in {0, 1}, Gives(h, <<>>, "none", d), Tail(modem) = <<>>,
         h.op \in {"start", "dstart", "dstop", "dgone"}, d = IF h.op = "dgone" THEN 0 ELSE 1,
         UNCHANGED <<begun, clients, up, engineDist>>,
         IF h.op \in {"start", "dstart"} THEN eraseTrackingSession(h.s) ELSE UNCHANGED maps,
         Sound(h.s)
  PROVE  Sound(h.s)' /\ (h.op # "start" => time' = time)
<1>1. PICK a : a = "none"
  OBVIOUS
<1>2. PICK s \in Sessions : s = h.s
  BY DEF Requests
<1>3. Gives(h, <<>>, a, d) /\ Astray(h, a, d) = 0
  BY <1>1 DEF Astray, Reporting, TimeOps, Strict
<1>4. /\ Answering(s, a) /\ due'[s] = due[s] - d /\ Exact(s)' /\ Op(1, s) = h.op
  BY <1>2, <1>3, AnswerFrame
<1>5. Len(modem) = 1
  <2>1. modem # <<>> /\ modem \in Seq(Requests)
    BY DEF Gives, Types
  <2>2. Len(modem) \in Nat \ {0} /\ Len(Tail(modem)) = Len(modem) - 1
    BY <2>1, HeadTailProperties, EmptySeq
  <2>3. Len(Tail(modem)) = Len(<<>>) /\ Len(<<>>) = 0
    <3>1. Len(<<>>) = 0
      OBVIOUS
    <3> QED BY <3>1, Zenon
  <2> QED BY <2>2, <2>3
<1>6. \A i \in Pos : i # 1 => Op(i, s) = "none"
  BY <1>5 DEF Op, OpOf
<1>7. \A i \in Pos : Op(i, s)' = "none"
  BY <1>1, <1>4, <1>5, <1>6 DEF Answering, Popped, Pos
<1>8. ~Pends(s)
  <2>1. 1 \in Pos
    BY DEF Pos
  <2>2. CASE h.op = "dgone"
    <3>1. due[s] = 0
      BY <1>2, <1>4, <2>1, <2>2 DEF Sound, Gone
    <3> QED BY <1>2, <3>1, IdleIs DEF Sound
  <2>3. CASE h.op # "dgone"
    <3>1. Hits(modem, Asks(s)) \in Nat /\ Hits(modem, Asks(s)) # 0 /\ Hits(Pending, Waits(s)) \in Nat
      BY <1>4, <2>1, <2>3, OwingIs DEF Reporting, TimeOps, Strict
    <3>2. due[s] = Hits(modem, Asks(s)) + Hits(Pending, Waits(s))
      BY <1>2 DEF Sound, Exact, Owing
    <3>3. Pends(s) => due[s] = 1
      BY <1>2 DEF Sound, Sole
    <3> QED BY <3>1, <3>2, <3>3, OwingIs
  <2> QED BY <2>2, <2>3
<1>9. s \in dist <=> h.op # "start"
  <2>1. CASE h.op = "start"
    <3>1. \A j \in Pos : j > 1 => Op(j, s) # "dquiet"
      BY <1>6 DEF Pos
    <3>2. 1 \in Pos /\ Op(1, s) \in TimeOps
      BY <1>4, <2>1 DEF TimeOps, Pos
    <3> QED BY <1>2, <2>1, <3>1, <3>2 DEF Sound, Over
  <2>2. CASE h.op # "start"
    <3>1. Op(1, s) \in DistanceOps \ {"dquiet"} /\ Op(1, s) # "dswitch"
      BY <1>4, <2>2 DEF DistanceOps
    <3> QED BY <1>2, <2>2, <3>1, DistHere
  <2> QED BY <2>1, <2>2
<1>10. h.op # "start" => s \notin InTime
  BY <1>2, <1>9 DEF Sound, OneWay
<1>11. CASE h.op = "start"
  <2>1. dist' = dist /\ s \notin dist
    BY <1>2, <1>9, <1>11 DEF eraseTrackingSession
  <2>2. OneWay(s)'
    BY <2>1 DEF OneWay
  <2>3. up' => (s \in dist' <=> s \in engineDist')
    <3>1. \A i \in Pos : Op(i, s) \notin DistanceOps
      BY <1>4, <1>6, <1>11 DEF DistanceOps
    <3> QED BY <1>2, <2>1, <3>1 DEF Sound, Kept
  <2>4. s \in begun'
    BY <1>2, <1>4, <1>11 DEF Sound, Starts, Fresh, Pos
  <2> QED BY <1>2, <1>4, <1>7, <1>8, <1>11, <2>2, <2>3, <2>4, Emptied, StartIsPending DEF Answering
<1>12. CASE h.op = "dstart"
  <2>1. dist' = dist \ {s} /\ time' = time
    BY <1>2, <1>10, <1>12 DEF eraseTrackingSession
  <2>2. OneWay(s)'
    BY <2>1 DEF OneWay
  <2>3. up' => (s \in dist' <=> s \in engineDist')
    BY <1>2, <1>4, <1>12, <2>1 DEF Sound, Begins, Pos
  <2>4. s \in begun'
    BY <1>2, <1>4, <1>12 DEF Sound, Starts, Fresh, Pos
  <2> QED BY <1>2, <1>4, <1>7, <1>8, <1>12, <2>1, <2>2, <2>3, <2>4, Emptied, StartIsPending DEF Answering
<1>13. CASE h.op \in {"dstop", "dgone"}
  <2>1. dist' = dist /\ time' = time /\ s \in dist
    BY <1>9, <1>13 DEF maps
  <2>2. OneWay(s)'
    BY <1>10, <1>13, <2>1 DEF OneWay, InTime
  <2>3. up' => (s \in dist' <=> s \in engineDist')
    <3>1. 1 \in Pos /\ ~ \E j \in Pos : j < 1
      BY DEF Pos
    <3>2. Op(1, s) \in {"dstop", "dgone"}
      BY <1>4, <1>13
    <3>3. up => s \in engineDist
      BY <1>2, <3>1, <3>2 DEF Sound, Held
    <3> QED BY <2>1, <3>3
  <2>4. s \in begun'
    BY <1>2, <1>4, <1>13 DEF Sound, Starts, Fresh, Pos
  <2> QED BY <1>2, <1>4, <1>7, <1>8, <1>13, <2>1, <2>2, <2>3, <2>4, Emptied, StartIsPending DEF Answering
<1> QED BY <1>11, <1>12, <1>13

\* What is left of the fix session after a refusal that is made good.
Mended ==
  /\ up' = up /\ engine' = engine
  /\ \/ Steadily /\ Head(modem).op \notin FixOps
     \/ modem' = <<>> /\ ~engine.on /\ InTime' = {}

LEMMA RefusesKeep ==
  ASSUME Types, EngineRefuses
  PROVE  Keeps /\ (~spoilt' /\ Sounds => Mended)
<1>1. PICK h \in Requests : h = Head(modem)
  BY HeadTailProperties DEF Types, EngineRefuses
<1>2. /\ modem # <<>> /\ Answered(h, FALSE)
      /\ UNCHANGED <<begun, clients, known, waiting, resent, up, engine, engineDist, commands>>
      /\ spoilt' = (spoilt \/ ~Repaired(h)) /\ spoilt' \in BOOLEAN
  BY <1>1 DEF EngineRefuses, Types
<1>3. faults' \in 0 .. MaxFaults
  BY GnssAssumption DEF EngineRefuses, Fault, Types
<1>4. PICK s \in Sessions : s = h.s
  BY DEF Requests
<1>5. ASSUME NEW d \in {0, 1}, modem' = Tail(modem), due' = [due EXCEPT ![h.s] = @ - d], Saves(h.s),
             h.op \in Reporting => d = 1 \/ h.op = "dupdate", h.op \notin Reporting => d = 0,
             ~spoilt' => /\ h.op \in {"start", "dstart", "dstop", "dgone"} /\ d = IF h.op = "dgone" THEN 0 ELSE 1
                         /\ IF h.op \in {"start", "dstart"} THEN eraseTrackingSession(h.s) ELSE UNCHANGED maps
      PROVE  Keeps /\ (~spoilt' /\ Sounds => Mended)
  <2>1. Gives(h, <<>>, "none", d)
    BY <1>1, <1>2, <1>5, GivesNothing
  <2>2. ~spoilt' => Tail(modem) = <<>>
    BY <1>2 DEF Repaired
  <2>3. ~spoilt' /\ Sound(h.s) => Sound(h.s)' /\ (h.op # "start" => time' = time)
    BY <1>2, <1>5, <2>1, <2>2, RepairedKeeps
  <2>4. Keeps
    BY <1>2, <1>3, <1>5, <2>1, <2>3, RefusalKeeps
  <2>5. ASSUME ~spoilt', Sounds
        PROVE  Mended
    <3>1. CASE h.op = "start"
      <4>1. InTime \subseteq {s} /\ ~engine.on
        BY <1>2, <1>4, <2>5, <3>1 DEF Repaired
      <4>2. eraseTrackingSession(s)
        BY <1>4, <1>5, <2>5, <3>1
      <4>3. InTime' = {}
        BY <4>1, <4>2 DEF eraseTrackingSession, InTime, Types
      <4> QED BY <1>2, <1>5, <2>2, <2>5, <4>1, <4>3 DEF Mended
    <3>2. CASE h.op # "start"
      <4>1. time' = time
        BY <1>4, <2>3, <2>5, <3>2 DEF Sounds
      <4>2. Steadily
        BY <2>1, <4>1, ServesNothing, GivesSteadily
      <4>3. h.op \notin FixOps
        BY <1>5, <2>5, <3>2 DEF FixOps, TimeOps
      <4> QED BY <1>1, <1>2, <4>2, <4>3 DEF Mended
    <3> QED BY <3>1, <3>2
  <2> QED BY <2>4, <2>5
<1>6. UNCHANGED maps => Saves(h.s)
  BY <1>4, MapsSaved
<1>7. ~spoilt' => Repaired(h)
  BY <1>2
<1>8. CASE StartAnswered(h, FALSE)
  <2>1. /\ h.op \in {"start", "dstart"} /\ eraseTrackingSession(h.s) /\ modem' = Tail(modem)
        /\ due' = [due EXCEPT ![h.s] = @ - 1]
    BY <1>8 DEF StartAnswered, Reported
  <2>2. Saves(h.s)
    BY <1>4, <2>1, MapsSaved DEF eraseTrackingSession, TimeOptions
  <2>3. PICK d \in {0, 1} : d = 1
    OBVIOUS
  <2>4. h.op \in Reporting
    BY <2>1 DEF Reporting, TimeOps, Strict
  <2> QED BY <1>5, <2>1, <2>2, <2>3, <2>4
<1>9. CASE UpdateAnswered(h, FALSE)
  <2>1. /\ h.op = "update" /\ saveTrackingSession(h.s, h.o) /\ modem' = Tail(modem)
        /\ due' = [due EXCEPT ![h.s] = @ - 1]
    BY <1>9 DEF UpdateAnswered, Reported
  <2>2. Saves(h.s)
    <3>1. h.o \in Options \cup {NoOptions}
      BY DEF Requests
    <3>2. ~h.o.dist => h.o \in TimeOptions
      BY <3>1 DEF TimeOptions
    <3> QED BY <1>4, <2>1, <3>2, MapsSaved DEF saveTrackingSession
  <2>3. PICK d \in {0, 1} : d = 1
    OBVIOUS
  <2>4. h.op \in Reporting /\ ~Repaired(h)
    BY <2>1 DEF Reporting, TimeOps, Strict, Repaired
  <2> QED BY <1>5, <1>7, <2>1, <2>2, <2>3, <2>4
<1>10. CASE StopAnswered(h)
  <2>1. /\ h.op = "stop" /\ UNCHANGED maps /\ modem' = Tail(modem)
        /\ due' = [due EXCEPT ![h.s] = @ - 1]
    BY <1>10 DEF StopAnswered, Reported
  <2>2. PICK d \in {0, 1} : d = 1
    OBVIOUS
  <2>3. h.op \in Reporting /\ ~Repaired(h)
    BY <2>1 DEF Reporting, TimeOps, Strict, Repaired
  <2> QED BY <1>5, <1>6, <1>7, <2>1, <2>2, <2>3
<1>11. CASE QuietAnswered(h)
  <2>1. h.op \in {"restart", "dquiet"} /\ modem' = Tail(modem) /\ UNCHANGED maps /\ due' = due
    BY <1>11 DEF QuietAnswered
  <2>2. PICK d \in {0, 1} : d = 0
    OBVIOUS
  <2>3. due' = [due EXCEPT ![h.s] = @ - d]
    BY <1>4, <2>1, <2>2 DEF Types
  <2>4. h.op \notin Reporting /\ ~Repaired(h)
    BY <2>1 DEF Reporting, TimeOps, Strict, Repaired
  <2> QED BY <1>5, <1>6, <1>7, <2>1, <2>2, <2>3, <2>4
<1>12. CASE DistanceStopAnswered(h, FALSE)
  <2>1. /\ h.op \in {"dstop", "dgone"} /\ UNCHANGED maps /\ modem' = Tail(modem)
        /\ IF h.op = "dstop" THEN due' = [due EXCEPT ![h.s] = @ - 1] ELSE due' = due
    BY <1>12 DEF DistanceStopAnswered, Reported
  <2>2. PICK d \in {0, 1} : d = IF h.op = "dgone" THEN 0 ELSE 1
    OBVIOUS
  <2>3. due' = [due EXCEPT ![h.s] = @ - d]
    BY <1>4, <2>1, <2>2 DEF Types
  <2>4. h.op \in Reporting <=> h.op = "dstop"
    BY <2>1 DEF Reporting, TimeOps, Strict
  <2> QED BY <1>5, <1>6, <2>1, <2>2, <2>3, <2>4
<1>13. CASE SwitchAnswered(h)
  <2>1. PICK r, a, d : /\ Gives(h, r, a, d) /\ a \in TimeOps \cup {"none"} /\ d \in {0, 1}
                       /\ Saves(h.s) /\ Serves(r) /\ Astray(h, a, d) = 0 /\ dist' = dist
    BY <1>1, <1>2, <1>13, SwitchGives
  <2>2. spoilt'
    BY <1>7, <1>13, <1>2 DEF SwitchAnswered, Repaired
  <2>3. /\ engine' \in [on : BOOLEAN, ivl : Nat] /\ engineDist' \subseteq Sessions
        /\ ~up => engine' = Off /\ engineDist' = {}
    BY <1>2 DEF Types
  <2>4. Astray(h, a, d) >= 0
    BY <2>1
  <2>5. Keeps
    BY <1>2, <1>3, <2>1, <2>2, <2>3, <2>4, AnswerKeeps
  <2> QED BY <2>2, <2>5
<1>14. CASE DistanceUpdateAnswered(h, FALSE)
  <2>1. CASE h.op = "dupdate"
    <3>1. modem' = Tail(modem) /\ UNCHANGED maps /\ due' = due
      <4>1. modem' = Tail(modem) \o <<>> /\ UNCHANGED maps /\ due' = due
        BY <1>14, <2>1 DEF DistanceUpdateAnswered
      <4>2. Tail(modem) \in Seq(Requests)
        BY <1>2, HeadTailProperties DEF Types
      <4> QED BY <4>1, <4>2, ConcatEmptySeq
    <3>2. PICK d \in {0, 1} : d = 0
      OBVIOUS
    <3>3. due' = [due EXCEPT ![h.s] = @ - d]
      BY <1>4, <3>1, <3>2 DEF Types
    <3>4. h.op \in Reporting /\ ~Repaired(h)
      BY <2>1 DEF Reporting, TimeOps, Strict, Repaired
    <3> QED BY <1>5, <1>6, <1>7, <2>1, <3>1, <3>2, <3>3, <3>4
  <2>2. CASE h.op = "dagain"
    <3>1. /\ modem' = Tail(modem) /\ due' = [due EXCEPT ![h.s] = @ - 1] /\ UNCHANGED maps
      BY <1>14, <2>2 DEF DistanceUpdateAnswered, Reported
    <3>2. PICK d \in {0, 1} : d = 1
      OBVIOUS
    <3>3. h.op \in Reporting /\ ~Repaired(h)
      BY <2>2 DEF Reporting, TimeOps, Strict, Repaired
    <3> QED BY <1>5, <1>6, <1>7, <3>1, <3>2, <3>3
  <2> QED BY <1>14, <2>1, <2>2 DEF DistanceUpdateAnswered
<1> QED BY <1>2, <1>8, <1>9, <1>10, <1>11, <1>12, <1>13, <1>14 DEF Answered

-----------------------------------------------------------------------------
(* The engine goes down and comes up.                                       *)

LEMMA DiesKeeps ==
  ASSUME Types, EngineDies
  PROVE  Keeps /\ Steady
<1>1. /\ up /\ up' = FALSE /\ engine' = Off /\ engineDist' = {} /\ faults' \in 0 .. MaxFaults
      /\ UNCHANGED <<begun, clients, known, waiting, resent, modem, due, commands, spoilt>>
      /\ time' = time /\ dist' = dist
  BY GnssAssumption DEF EngineDies, maps, Fault, Types
<1>2. Types'
  <2>1. engine' \in [on : BOOLEAN, ivl : Nat] /\ engineDist' \subseteq Sessions
    BY <1>1 DEF Off
  <2>2. /\ waiting' \in Seq(Waiters) /\ resent' \in Seq(Waiters) /\ modem' \in Seq(Requests)
        /\ known' => waiting' = <<>>
        /\ ~known' => resent' = <<>>
    BY <1>1 DEF Types
  <2>3. /\ clients' \subseteq Clients /\ begun' \subseteq Sessions
        /\ time' \in [Sessions -> TimeOptions] /\ dist' \subseteq Sessions
        /\ known' \in BOOLEAN /\ up' \in BOOLEAN /\ spoilt' \in BOOLEAN
        /\ due' \in [Sessions -> Int] /\ commands' \in 0 .. MaxCommands
    BY <1>1 DEF Types
  <2> QED BY <1>1, <2>1, <2>2, <2>3 DEF Types
<1>3. Pending' = Pending /\ \A t : (Pends(t)' <=> Pends(t)) /\ (StartPends(t)' <=> StartPends(t))
  BY <1>1, PendingSame
<1>4. \A t \in Sessions : Owing(t)' = Owing(t)
  BY <1>1, <1>3 DEF Owing, Asks, Waits
<1>5. \A t \in Sessions : Owed(t) => Owed(t)'
  BY <1>1, <1>4 DEF Owed
<1>6. ASSUME NEW t \in Sessions, Sound(t)
      PROVE  Sound(t)'
  <2>1. Around(t)
    BY <1>1, <1>3 DEF Around
  <2>2. Exact(t)'
    BY <1>1, <1>4, <1>6 DEF Sound, Exact
  <2>3. (\A i \in Pos : Op(i, t)' = Op(i, t)) /\ (t \in InTime' <=> t \in InTime)
    BY <1>1 DEF Op, InTime
  <2> QED BY <1>1, <1>3, <1>6, <2>1, <2>2, <2>3, Died
<1>7. Steady
  <2>1. Moves(0, <<>>)
    BY <1>1 DEF Moves, Rest, Types
  <2> QED BY <1>1, <2>1, ServesNothing DEF Steady
<1> QED BY <1>2, <1>5, <1>6, <1>7 DEF Keeps, Sounds

LEMMA UpKeeps ==
  ASSUME Types, EngineUp
  PROVE  /\ Keeps
         /\ \E r : /\ Moves(0, r) /\ Serves(r)
                   /\ InTime' = {} \/ \E i \in 1 .. Len(r) : r[i].op \in FixOps
         /\ ~up /\ engine' = Off
<1>1. /\ ~up /\ up' = TRUE /\ known' = TRUE /\ restartSessions
      /\ resent' = resent \o waiting /\ waiting' = <<>>
      /\ spoilt' = (spoilt \/ \E i \in DOMAIN modem : modem[i].op \in {"dstop", "dgone"})
      /\ UNCHANGED <<begun, clients, engine, engineDist, due, commands, faults>>
      /\ time' = time /\ dist' = dist
  BY DEF EngineUp, maps, counters
<1>2. engine = Off /\ engineDist = {}
  BY <1>1 DEF Types
<1> DEFINE f == IF InTime = {} THEN <<>>
                ELSE <<Request("restart", CHOOSE s \in InTime : TRUE, SmallestIvl(InTime), NoOptions)>>
           q == Listed("dquiet", dist)
           F == Len(f)
           L == Len(modem)
<1>3. PICK op \in {"dgone", "dquiet"} : op = "dquiet"
  OBVIOUS
<1>4. /\ q \in Seq(Requests) /\ \A i \in 1 .. Len(q) : q[i].op = op /\ q[i].s \in dist
      /\ \A s \in dist : \E m \in Pos : \A i \in Pos : OpOf(q, i, s) = IF i = m THEN op ELSE "none"
      /\ \A s : s \notin dist => \A i \in Pos : OpOf(q, i, s) = "none"
      /\ \A s : Hits(q, Asks(s)) = 0
  <2>1. dist \in SUBSET Sessions /\ q = Listed(op, dist)
    BY <1>3 DEF Types
  <2> HIDE DEF q
  <2> QED BY <2>1, ListedIs
<1>5. /\ f \in Seq(Requests) /\ F \in Nat /\ (InTime # {} => F = 1 /\ f[1].op = "restart")
      /\ \A i \in 1 .. F : f[i].op = "restart"
      /\ InTime # {} => \A s \in InTime : f[1].ivl <= time[s].ivl
  <2>1. CASE InTime = {}
    BY <2>1
  <2>2. CASE InTime # {}
    <3>1. PICK t \in Sessions : t = CHOOSE s \in InTime : TRUE
      BY <2>2 DEF InTime
    <3>2. PICK least \in Nat : least = SmallestIvl(InTime) /\ \A s \in InTime : least <= time[s].ivl
      BY <2>2, SmallestIs
    <3>3. PICK x : x = Request("restart", t, least, NoOptions)
      OBVIOUS
    <3>4. x \in Requests /\ x.op = "restart" /\ x.ivl = least
      BY <3>3 DEF Request, Requests, Ops
    <3>5. f = <<x>>
      BY <2>2, <3>1, <3>2, <3>3
    <3>6. <<x>> \in Seq(Requests) /\ Len(<<x>>) = 1 /\ <<x>>[1] = x
      BY <3>4
    <3> HIDE DEF f
    <3> QED BY <2>2, <3>2, <3>4, <3>5, <3>6
  <2> QED BY <2>1, <2>2
<1>6. Ask(f \o q)
  BY <1>1 DEF restartSessions, Listed
<1> HIDE DEF f, q, F, L
<1>7. \A s : \A i \in Pos : OpOf(f, i, s) = "none"
  BY <1>5 DEF OpOf, F
<1>8. Moves(0, f \o q)
  BY <1>4, <1>5, <1>6, ConcatProperties DEF Moves, Ask, Rest
<1>9. \A s \in Sessions : Hits(f \o q, Asks(s)) = 0
  <2> TAKE s \in Sessions
  <2>1. Hits(f, Asks(s)) = 0
    <3>1. \A i \in 1 .. Len(f) : f[i] \notin Asks(s)
      BY <1>5 DEF Asks, Reporting, TimeOps, Strict, F
    <3> QED BY <1>5, <3>1, HitsOf
  <2>2. Hits(f \o q, Asks(s)) = Hits(f, Asks(s)) + Hits(q, Asks(s))
    BY <1>4, <1>5, HitsConcat
  <2> QED BY <1>4, <2>1, <2>2
<1>10. resent' \in Seq(Waiters) /\ Pending' = Pending
  BY <1>1, PendingBack
<1>11. \A t : (Pends(t)' <=> Pends(t)) /\ (StartPends(t)' <=> StartPends(t))
  <2>1. waiting' \o resent' = waiting \o resent
    BY <1>10 DEF Pending
  <2> QED BY <1>10, <2>1 DEF Pends, StartPends
<1>12. \A t \in Sessions : Owing(t)' = Owing(t)
  <2> TAKE t \in Sessions
  <2>1. Hits(modem', Asks(t)) = Hits(modem, Asks(t)) + Hits(f \o q, Asks(t)) - 0 /\ Hits(modem, Asks(t)) \in Nat
    BY <1>8, HitsMove
  <2>2. Hits(modem', Asks(t)) = Hits(modem, Asks(t))
    BY <1>9, <2>1
  <2> QED BY <1>10, <2>2 DEF Owing, Asks, Waits
<1>13. Types'
  <2>1. modem' \in Seq(Requests)
    BY <1>8, Queued
  <2>2. /\ time' \in [Sessions -> TimeOptions] /\ dist' \subseteq Sessions /\ due' \in [Sessions -> Int]
        /\ clients' \subseteq Clients /\ begun' \subseteq Sessions
        /\ engine' \in [on : BOOLEAN, ivl : Nat] /\ engineDist' \subseteq Sessions
        /\ commands' \in 0 .. MaxCommands /\ faults' \in 0 .. MaxFaults /\ spoilt' \in BOOLEAN
    BY <1>1 DEF Types
  <2>3. waiting' \in Seq(Waiters)
    BY <1>1
  <2> QED BY <1>1, <1>10, <2>1, <2>2, <2>3 DEF Types
<1>14. \A t \in Sessions : Owed(t) => Owed(t)'
  BY <1>1, <1>12 DEF Owed
<1>15. ASSUME ~spoilt', NEW t \in Sessions, Sound(t)
       PROVE  Sound(t)'
  <2>1. \A i \in Pos : Op(i, t) \notin {"dstop", "dgone"}
    BY <1>1, <1>15, Places DEF Op, OpOf
  <2>2. L \in Nat /\ \A i \in Pos : Op(i, t)' = IF i <= L THEN Op(i + 0, t) ELSE OpOf(f \o q, i - L, t)
    <3>1. L = Len(modem) - 0 /\ L \in Nat
      BY Places DEF L
    <3> QED BY <1>8, <3>1, OpMoves
  <2>3. \A i \in Pos : i > L => Op(i, t) = "none"
    BY <2>2 DEF Op, OpOf, L
  <2>4. \A i \in Pos : OpOf(f \o q, i, t) = IF i <= F THEN "none" ELSE OpOf(q, i - F, t)
    BY <1>4, <1>5, <1>7, OpConcat DEF F
  <2>5. PICK m \in Pos : \A i \in Pos : OpOf(q, i, t) = IF i = m /\ t \in dist THEN "dquiet" ELSE "none"
    <3>1. CASE t \in dist
      BY <1>3, <1>4, <3>1
    <3>2. CASE t \notin dist
      <4>1. 1 \in Pos
        BY DEF Pos
      <4> QED BY <1>4, <3>2, <4>1
    <3> QED BY <3>1, <3>2
  <2>6. PICK M \in Pos : M = L + F + m /\ M > L
    BY <1>5, <2>2 DEF Pos
  <2>7. ASSUME NEW i \in Pos
        PROVE  Op(i, t)' = IF i <= L THEN Op(i, t) ELSE IF i = M /\ t \in dist THEN "dquiet" ELSE "none"
    <3>1. CASE i <= L
      BY <2>2, <3>1 DEF Pos
    <3>2. CASE ~(i <= L) /\ i - L <= F
      <4>1. i - L \in Pos /\ i # M
        BY <1>5, <2>2, <2>6, <3>2 DEF Pos
      <4> QED BY <2>2, <2>4, <3>2, <4>1
    <3>3. CASE ~(i <= L) /\ ~(i - L <= F)
      <4>1. i - L \in Pos /\ (i - L) - F \in Pos /\ ((i - L) - F = m <=> i = M)
        BY <1>5, <2>2, <2>6, <3>3 DEF Pos
      <4> QED BY <2>2, <2>4, <2>5, <3>3, <4>1
    <3> QED BY <3>1, <3>2, <3>3
  <2>8. Exact(t)'
    BY <1>1, <1>12, <1>15 DEF Sound, Exact
  <2>9. t \in InTime' <=> t \in InTime
    BY <1>1 DEF InTime
  <2>10. t \notin engineDist /\ t \notin engineDist'
    BY <1>1, <1>2
  <2> QED BY <1>1, <1>11, <1>15, <2>1, <2>2, <2>3, <2>6, <2>7, <2>8, <2>9, <2>10, Restarted
<1>16. Keeps
  BY <1>13, <1>14, <1>15 DEF Keeps, Sounds
<1>17. PICK r : r = f \o q
  OBVIOUS
<1>18. /\ Serves(r)
       /\ InTime' = {} \/ \E i \in 1 .. Len(r) : r[i].op \in FixOps
  <2>1. /\ Len(r) = F + Len(q) /\ Len(q) \in Nat
        /\ \A i \in 1 .. F + Len(q) : r[i] = IF i <= F THEN f[i] ELSE q[i - F]
    BY <1>4, <1>5, <1>17, ConcatProperties, LenProperties DEF F
  <2>2. \A i \in 1 .. Len(r) : i > F => r[i].op \notin FixOps
    <3> TAKE i \in 1 .. Len(r)
    <3>1. i > F => i - F \in 1 .. Len(q) /\ r[i] = q[i - F]
      BY <1>5, <2>1
    <3> QED BY <1>3, <1>4, <3>1 DEF FixOps, TimeOps
  <2>3. InTime' = InTime
    BY <1>1 DEF InTime
  <2>4. CASE InTime = {}
    <3>1. f = <<>> /\ F = 0
      BY <2>4 DEF f, F
    <3>2. \A i \in 1 .. Len(r) : r[i].op \notin FixOps
      BY <2>2, <3>1
    <3>3. Serves(r)
      BY <1>1, <3>2, ServesQuietly
    <3> QED BY <2>3, <2>4, <3>3
  <2>5. CASE InTime # {}
    <3>1. F = 1 /\ f[1].op = "restart" /\ r[1] = f[1] /\ 1 \in 1 .. Len(r)
      BY <1>5, <2>1, <2>5
    <3>2. r[1].op \in FixOps
      BY <3>1 DEF FixOps
    <3>3. Agrees(r[1].op # "stop", r[1].ivl)'
      <4>1. r[1].op # "stop" /\ \A s \in InTime : r[1].ivl <= time[s].ivl
        BY <1>5, <2>5, <3>1
      <4> QED BY <1>1, <2>3, <2>5, <4>1 DEF Agrees
    <3>4. Serves(r)
      BY <2>2, <3>1, <3>2, <3>3 DEF Serves
    <3> QED BY <3>1, <3>2, <3>4
  <2> QED BY <2>4, <2>5
<1> QED BY <1>1, <1>2, <1>8, <1>16, <1>17, <1>18

-----------------------------------------------------------------------------
(* The fix session follows the map: the last request that changes it, or,    *)
(* without one, the engine itself, fits the time-based sessions.             *)

NoneIn(q) == \A i \in 1 .. Len(q) : q[i].op \notin FixOps
LastIn(q, i) == i \in 1 .. Len(q) /\ q[i].op \in FixOps /\ \A j \in 1 .. Len(q) : j > i => q[j].op \notin FixOps
LastFits == \A i \in Pos : LastIn(modem, i) => Agrees(modem[i].op # "stop", modem[i].ivl)
Fix == LastFits /\ (up /\ NoneIn(modem) => Agrees(engine.on, engine.ivl))

LEMMA MovedPlaces ==
  ASSUME Types, NEW k, NEW r, Moves(k, r)
  PROVE  \E L \in Nat :
           /\ Len(modem) = L + k /\ k \in {0, 1} /\ Len(r) \in Nat /\ Len(modem') = L + Len(r)
           /\ \A i \in 1 .. L : modem'[i] = modem[i + k]
           /\ \A i \in 1 .. Len(r) : modem'[L + i] = r[i]
           /\ \A i \in 1 .. Len(modem') : modem'[i] \in Requests
<1>1. PICK L : L = Len(modem) - k
  OBVIOUS
<1>2. k \in {0, 1} /\ Len(r) \in Nat /\ Len(modem) \in Nat
  BY Places, LenProperties DEF Moves
<1>3. /\ L \in Nat /\ modem' \in Seq(Requests) /\ Len(modem') = L + Len(r)
      /\ \A i \in 1 .. L : modem'[i] = modem[i + k]
      /\ \A i \in 1 .. Len(r) : modem'[L + i] = r[i]
  BY <1>1, Queued
<1>4. \A i \in 1 .. Len(modem') : modem'[i] \in Requests
  BY <1>3, ElementOfSeq
<1>5. Len(modem) = L + k
  BY <1>1, <1>2
<1> QED BY <1>2, <1>3, <1>4, <1>5

LEMMA QuietlyServed ==
  ASSUME NEW r, Serves(r), NoneIn(r), NEW on \in BOOLEAN, NEW ivl \in Nat, Agrees(on, ivl)
  PROVE  Agrees(on, ivl)'
BY DEF Serves, NoneIn

LEMMA LastFollows ==
  ASSUME Types, LastFits, NEW k, NEW r, Moves(k, r), Serves(r)
  PROVE  LastFits'
<1>1. PICK L \in Nat :
        /\ Len(modem) = L + k /\ k \in {0, 1} /\ Len(r) \in Nat /\ Len(modem') = L + Len(r)
        /\ \A i \in 1 .. L : modem'[i] = modem[i + k]
        /\ \A i \in 1 .. Len(r) : modem'[L + i] = r[i]
        /\ \A i \in 1 .. Len(modem') : modem'[i] \in Requests
  BY MovedPlaces
<1> SUFFICES ASSUME NEW i \in Pos, LastIn(modem', i)
             PROVE  Agrees(modem[i].op # "stop", modem[i].ivl)'
  BY DEF LastFits
<1>2. i \in 1 .. L + Len(r) /\ \A j \in 1 .. L + Len(r) : j > i => modem'[j].op \notin FixOps
  BY <1>1 DEF LastIn
<1>3. PICK x \in Requests : x = modem'[i] /\ x.op \in FixOps
  BY <1>1 DEF LastIn
<1>4. PICK on \in BOOLEAN : on <=> x.op # "stop"
  OBVIOUS
<1>5. PICK ivl \in Nat : ivl = x.ivl
  BY <1>3 DEF Requests
<1>6. Agrees(on, ivl)'
  <2>1. CASE i <= L
    <3>1. i \in 1 .. L /\ i + k \in Pos /\ x = modem[i + k]
      BY <1>1, <1>3, <2>1 DEF Pos
    <3>2. ASSUME NEW j \in 1 .. L + k, j > i + k
          PROVE  modem[j].op \notin FixOps
      <4>1. j - k \in 1 .. L /\ j - k > i /\ (j - k) + k = j /\ j - k \in 1 .. L + Len(r)
        BY <1>1, <3>1, <3>2
      <4> QED BY <1>1, <1>2, <4>1
    <3>3. LastIn(modem, i + k)
      BY <1>1, <1>3, <3>1, <3>2 DEF LastIn
    <3>4. Agrees(on, ivl)
      BY <1>4, <1>5, <3>1, <3>3 DEF LastFits, Agrees
    <3>5. NoneIn(r)
      <4> SUFFICES ASSUME NEW m \in 1 .. Len(r)
                   PROVE  r[m].op \notin FixOps
        BY DEF NoneIn
      <4>1. L + m \in 1 .. L + Len(r) /\ L + m > i
        BY <1>1, <3>1
      <4> QED BY <1>1, <1>2, <4>1
    <3> QED BY <3>4, <3>5, QuietlyServed
  <2>2. CASE ~(i <= L)
    <3>1. PICK m \in 1 .. Len(r) : i = L + m
      <4>1. i - L \in 1 .. Len(r) /\ i = L + (i - L)
        BY <1>1, <1>2, <2>2
      <4> QED BY <4>1
    <3>2. r[m] = x /\ r[m].op \in FixOps
      BY <1>1, <1>3, <3>1
    <3>3. m = 1 \/ m \in 2 .. Len(r)
      BY <1>1
    <3>4. m = 1 /\ Agrees(r[1].op # "stop", r[1].ivl)'
      BY <3>2, <3>3 DEF Serves
    <3> QED BY <1>4, <1>5, <3>2, <3>4 DEF Agrees
  <2> QED BY <2>1, <2>2
<1> QED BY <1>3, <1>4, <1>5, <1>6 DEF Agrees

\* The engine has served the request h.
Served(h) ==
  engine' = CASE h.op \in {"start", "update", "restart"} -> [on |-> TRUE, ivl |-> h.ivl]
              [] h.op = "stop" -> Off
              [] OTHER -> engine

LEMMA EngineFollows ==
  ASSUME Types, Fix, NEW k, NEW r, Moves(k, r), Serves(r), up, NoneIn(modem'), engine' \in [on : BOOLEAN, ivl : Nat],
         IF k = 1 THEN Served(modem[1]) \/ (engine' = engine /\ modem[1].op \notin FixOps) ELSE engine' = engine
  PROVE  Agrees(engine.on, engine.ivl)'
<1>1. PICK L \in Nat :
        /\ Len(modem) = L + k /\ k \in {0, 1} /\ Len(r) \in Nat /\ Len(modem') = L + Len(r)
        /\ \A i \in 1 .. L : modem'[i] = modem[i + k]
        /\ \A i \in 1 .. Len(r) : modem'[L + i] = r[i]
        /\ \A i \in 1 .. Len(modem') : modem'[i] \in Requests
  BY MovedPlaces
<1>2. PICK on \in BOOLEAN : on = engine'.on
  OBVIOUS
<1>3. PICK ivl \in Nat : ivl = engine'.ivl
  OBVIOUS
<1>4. NoneIn(r)
  <2> SUFFICES ASSUME NEW m \in 1 .. Len(r)
               PROVE  r[m].op \notin FixOps
    BY DEF NoneIn
  <2>1. L + m \in 1 .. L + Len(r)
    BY <1>1
  <2> QED BY <1>1, <2>1 DEF NoneIn
<1>5. \A j \in 1 .. L + k : j > k => modem[j].op \notin FixOps
  <2> SUFFICES ASSUME NEW j \in 1 .. L + k, j > k
               PROVE  modem[j].op \notin FixOps
    OBVIOUS
  <2>1. j - k \in 1 .. L /\ (j - k) + k = j /\ j - k \in 1 .. L + Len(r)
    BY <1>1
  <2> QED BY <1>1, <2>1 DEF NoneIn
<1>6. CASE k = 0 \/ modem[1].op \notin FixOps
  <2>1. NoneIn(modem)
    BY <1>1, <1>5, <1>6 DEF NoneIn
  <2>2. engine' = engine
    <3>1. CASE k = 0
      BY <3>1
    <3>2. CASE k = 1 /\ modem[1].op \notin FixOps
      BY <3>2 DEF Served, FixOps, TimeOps
    <3> QED BY <1>1, <1>6, <3>1, <3>2
  <2>3. Agrees(on, ivl)
    BY <1>2, <1>3, <2>1, <2>2 DEF Fix, Agrees
  <2> QED BY <1>2, <1>3, <1>4, <2>3, QuietlyServed DEF Agrees
<1>7. CASE k = 1 /\ modem[1].op \in FixOps
  <2>1. 1 \in Pos /\ LastIn(modem, 1)
    BY <1>1, <1>5, <1>7 DEF LastIn, Pos
  <2>2. Agrees(modem[1].op # "stop", modem[1].ivl)
    BY <2>1 DEF Fix, LastFits
  <2>3. Agrees(on, ivl)
    <3>1. CASE modem[1].op = "stop"
      <4>1. engine' = Off
        BY <1>7, <3>1 DEF Served
      <4> QED BY <1>2, <1>3, <2>2, <3>1, <4>1 DEF Agrees, Off
    <3>2. CASE modem[1].op # "stop"
      <4>1. engine' = [on |-> TRUE, ivl |-> modem[1].ivl]
        BY <1>7, <3>2 DEF Served, FixOps, TimeOps
      <4> QED BY <1>2, <1>3, <2>2, <3>2, <4>1 DEF Agrees
    <3> QED BY <3>1, <3>2
  <2> QED BY <1>2, <1>3, <1>4, <2>3, QuietlyServed DEF Agrees
<1> QED BY <1>1, <1>6, <1>7

\* A step at which nothing is taken from the queue and the engine stays.
LEMMA SteadyFix ==
  ASSUME Types, Fix, Steady, engine' = engine, up' = up \/ up' = FALSE
  PROVE  Fix'
<1>1. PICK r : Moves(0, r) /\ Serves(r)
  BY DEF Steady
<1>2. PICK k : k = 0
  OBVIOUS
<1>3. Moves(k, r)
  BY <1>1, <1>2
<1>4. LastFits'
  BY <1>1, <1>3, LastFollows DEF Fix
<1>5. ASSUME up', NoneIn(modem')
      PROVE  Agrees(engine.on, engine.ivl)'
  <2>1. up /\ engine' \in [on : BOOLEAN, ivl : Nat]
    BY <1>5 DEF Types
  <2> QED BY <1>1, <1>2, <1>3, <1>5, <2>1, EngineFollows
<1> QED BY <1>4, <1>5 DEF Fix

\* An answer of the engine, or a refusal that leaves the fix session alone.
LEMMA SteadilyFix ==
  ASSUME Types, Fix, Steadily, up' = up, engine' \in [on : BOOLEAN, ivl : Nat],
         Served(Head(modem)) \/ (engine' = engine /\ Head(modem).op \notin FixOps)
  PROVE  Fix'
<1>1. PICK r : Moves(1, r) /\ Serves(r)
  BY DEF Steadily
<1>2. PICK k : k = 1
  OBVIOUS
<1>3. Moves(k, r)
  BY <1>1, <1>2
<1>4. LastFits'
  BY <1>1, <1>3, LastFollows DEF Fix
<1>5. ASSUME up', NoneIn(modem')
      PROVE  Agrees(engine.on, engine.ivl)'
  <2>1. Head(modem) = modem[1]
    BY <1>1 DEF Moves, Types
  <2>2. up /\ (Served(modem[1]) \/ (engine' = engine /\ modem[1].op \notin FixOps))
    BY <1>5, <2>1
  <2> QED BY <1>1, <1>2, <1>3, <1>5, <2>2, EngineFollows
<1> QED BY <1>4, <1>5 DEF Fix

LEMMA AnswersFix ==
  ASSUME Types, Sounds, Fix, EngineAnswers, Keeps
  PROVE  Fix'
<1>1. Steadily
  BY AnswersKeep
<1>2. up' = up /\ Served(Head(modem))
  BY DEF EngineAnswers, EngineServes, Served
<1>3. engine' \in [on : BOOLEAN, ivl : Nat]
  BY DEF Keeps, Types
<1> QED BY <1>1, <1>2, <1>3, SteadilyFix

LEMMA RefusesFix ==
  ASSUME Types, Sounds, Fix, EngineRefuses, ~spoilt', Keeps
  PROVE  Fix'
<1>1. Mended
  BY RefusesKeep
<1>2. engine' \in [on : BOOLEAN, ivl : Nat]
  BY DEF Keeps, Types
<1>3. CASE Steadily /\ Head(modem).op \notin FixOps
  BY <1>1, <1>2, <1>3, SteadilyFix DEF Mended
<1>4. CASE modem' = <<>> /\ ~engine.on /\ InTime' = {}
  <2>1. Len(modem') = 0 /\ engine' = engine
    BY <1>1, <1>4 DEF Mended
  <2>2. LastFits'
    BY <2>1 DEF LastFits, LastIn
  <2>3. Agrees(engine.on, engine.ivl)'
    BY <1>4, <2>1 DEF Agrees
  <2> QED BY <2>2, <2>3 DEF Fix
<1> QED BY <1>1, <1>3, <1>4 DEF Mended

LEMMA UpFix ==
  ASSUME Types, Fix, EngineUp
  PROVE  Fix'
<1>1. ~up /\ engine' = Off
  BY UpKeeps
<1>2. PICK r : /\ Moves(0, r) /\ Serves(r)
               /\ InTime' = {} \/ \E i \in 1 .. Len(r) : r[i].op \in FixOps
  BY UpKeeps
<1>3. PICK k : k = 0
  OBVIOUS
<1>4. Moves(k, r)
  BY <1>2, <1>3
<1>5. LastFits'
  BY <1>2, <1>4, LastFollows DEF Fix
<1>6. ASSUME NoneIn(modem')
      PROVE  InTime' = {}
  <2>1. PICK L \in Nat :
          /\ Len(modem) = L + k /\ k \in {0, 1} /\ Len(r) \in Nat /\ Len(modem') = L + Len(r)
          /\ \A i \in 1 .. L : modem'[i] = modem[i + k]
          /\ \A i \in 1 .. Len(r) : modem'[L + i] = r[i]
          /\ \A i \in 1 .. Len(modem') : modem'[i] \in Requests
    BY <1>4, MovedPlaces
  <2>2. \A i \in 1 .. Len(r) : L + i \in 1 .. L + Len(r)
    BY <2>1
  <2>3. \A i \in 1 .. Len(r) : r[i].op \notin FixOps
    BY <1>6, <2>1, <2>2 DEF NoneIn
  <2> QED BY <1>2, <2>3
<1>7. NoneIn(modem') => Agrees(engine.on, engine.ivl)'
  BY <1>1, <1>6 DEF Agrees, Off
<1> QED BY <1>5, <1>7 DEF Fix

-----------------------------------------------------------------------------
(* The inductive invariant: the types, what is owed to the sessions of the   *)
(* clients that are there, and, unless the run is spoilt, the soundness of   *)
(* every session and the fix session that follows the map.                   *)

Settled == Sounds /\ Fix
Inv == Types /\ (\A s \in Sessions : Owed(s)) /\ (~spoilt => Settled)

LEMMA InitInv ==
  ASSUME Init
  PROVE  Inv
<1>1. Types
  <2>1. time \in [Sessions -> TimeOptions] /\ due \in [Sessions -> Int] /\ engine \in [on : BOOLEAN, ivl : Nat]
    BY DEF Init, TimeOptions, Off
  <2>2. waiting \in Seq(Waiters) /\ resent \in Seq(Waiters) /\ modem \in Seq(Requests)
    BY DEF Init
  <2>3. commands \in 0 .. MaxCommands /\ faults \in 0 .. MaxFaults
    BY GnssAssumption DEF Init
  <2> QED BY <2>1, <2>2, <2>3 DEF Init, Types
<1>2. InTime = {} /\ dist = {} /\ modem = <<>> /\ Pending = <<>> /\ ~up /\ begun = {} /\ engineDist = {}
  BY DEF Init, InTime, Pending
<1>3. Len(modem) = 0 /\ Len(Pending) = 0
  BY <1>2
<1>4. \A s \in Sessions : due[s] = 0
  BY DEF Init
<1>5. \A s \in Sessions : Owing(s) = 0
  <2> TAKE s \in Sessions
  <2>1. Hits(modem, Asks(s)) = 0
    BY <1>1, <1>3, HitsOf DEF Types
  <2>2. Hits(Pending, Waits(s)) = 0
    <3>1. Pending \in Seq(Waiters) /\ \A i \in 1 .. Len(Pending) : Pending[i] \notin Waits(s)
      BY <1>1, <1>3, Places
    <3> QED BY <3>1, HitsOf
  <2> QED BY <2>1, <2>2 DEF Owing
<1>6. \A s : ~Pends(s) /\ ~StartPends(s) /\ \A i \in Pos : Op(i, s) = "none"
  <2>1. DOMAIN Pending = {}
    BY <1>2
  <2> QED BY <1>3, <2>1 DEF Pends, StartPends, Pending, Op, OpOf
<1>7. \A s \in Sessions : Owed(s)
  BY <1>4, <1>5 DEF Owed
<1>8. Sounds
  <2> SUFFICES ASSUME NEW s \in Sessions
               PROVE  Sound(s)
    BY DEF Sounds
  <2>1. Exact(s) /\ Sole(s) /\ Gone(s)
    BY <1>4, <1>5, <1>6 DEF Exact, Sole, Gone, Strict
  <2>2. Order(s) /\ Kept(s) /\ Over(s)
    BY <1>2, <1>6 DEF Order, Kept, Over, DistanceOps
  <2>3. Begins(s) /\ Held(s) /\ Starts(s) /\ OneWay(s)
    BY <1>2, <1>6 DEF Begins, Held, Starts, Fresh, OneWay
  <2> QED BY <2>1, <2>2, <2>3 DEF Sound
<1>9. Fix
  BY <1>2, <1>3 DEF Fix, LastFits, LastIn
<1> QED BY <1>1, <1>7, <1>8, <1>9 DEF Inv, Settled

LEMMA NextKeeps ==
  ASSUME Types, Next
  PROVE  Keeps /\ (~spoilt' /\ Sounds /\ Fix => Fix')
<1>1. ASSUME NEW s \in Sessions, NEW o \in Options, StartCommand(s, o)
      PROVE  Keeps /\ (~spoilt' /\ Sounds /\ Fix => Fix')
  <2>1. Keeps /\ Steady
    BY <1>1, StartKeeps
  <2>2. engine' = engine /\ up' = up
    BY <1>1 DEF StartCommand
  <2> QED BY <2>1, <2>2, SteadyFix
<1>2. ASSUME NEW s \in Sessions, NEW o \in Options, UpdateCommand(s, o)
      PROVE  Keeps /\ (~spoilt' /\ Sounds /\ Fix => Fix')
  <2>1. Keeps /\ Steady
    BY <1>2, UpdateKeeps
  <2>2. engine' = engine /\ up' = up
    BY <1>2 DEF UpdateCommand
  <2> QED BY <2>1, <2>2, SteadyFix
<1>3. ASSUME NEW s \in Sessions, StopCommand(s)
      PROVE  Keeps /\ (~spoilt' /\ Sounds /\ Fix => Fix')
  <2>1. Keeps /\ Steady
    BY <1>3, StopKeeps
  <2>2. engine' = engine /\ up' = up
    BY <1>3 DEF StopCommand
  <2> QED BY <2>1, <2>2, SteadyFix
<1>4. ASSUME NEW c \in Clients, RemoveClient(c)
      PROVE  Keeps /\ (~spoilt' /\ Sounds /\ Fix => Fix')
  <2>1. Keeps /\ (~spoilt' /\ Sounds => Steady)
    BY <1>4, RemoveKeeps
  <2>2. engine' = engine /\ up' = up
    BY <1>4 DEF RemoveClient
  <2> QED BY <2>1, <2>2, SteadyFix
<1>5. CASE ResentCommand
  <2>1. Keeps /\ Steady
    BY <1>5, ResentCommandKeeps
  <2>2. engine' = engine /\ up' = up
    BY <1>5 DEF ResentCommand
  <2> QED BY <2>1, <2>2, SteadyFix
<1>6. CASE EngineAnswers
  BY <1>6, AnswersKeep, AnswersFix
<1>7. CASE EngineRefuses
  BY <1>7, RefusesKeep, RefusesFix
<1>8. CASE EngineDies
  <2>1. Keeps /\ Steady
    BY <1>8, DiesKeeps
  <2>2. up' = FALSE /\ engine' = Off
    BY <1>8 DEF EngineDies
  <2>3. Fix => Fix'
    <3>1. PICK r : Moves(0, r) /\ Serves(r)
      BY <2>1 DEF Steady
    <3>2. LastFits => LastFits'
      BY <3>1, LastFollows
    <3> QED BY <2>2, <3>2 DEF Fix
  <2> QED BY <2>1, <2>3
<1>9. CASE EngineUp
  BY <1>9, UpKeeps, UpFix
<1> QED BY <1>1, <1>2, <1>3, <1>4, <1>5, <1>6, <1>7, <1>8, <1>9 DEF Next

\* What the adapter does not repair is never forgotten.
LEMMA SpoiltStays ==
  ASSUME Types, Next, spoilt
  PROVE  spoilt'
BY DEF Next, StartCommand, UpdateCommand, StopCommand, RemoveClient, ResentCommand, EngineAnswers, EngineRefuses,
       EngineDies, EngineUp

LEMMA NextInv ==
  ASSUME Inv, [Next]_vars
  PROVE  Inv'
<1>1. CASE Next
  <2>1. Types /\ Keeps /\ (~spoilt' /\ Sounds /\ Fix => Fix')
    BY <1>1, NextKeeps DEF Inv
  <2>2. Types' /\ \A s \in Sessions : Owed(s)'
    BY <2>1 DEF Inv, Keeps
  <2>3. ~spoilt' => ~spoilt
    BY <1>1, <2>1, SpoiltStays
  <2>4. ~spoilt' => Sounds' /\ Fix'
    BY <2>1, <2>3 DEF Inv, Settled, Keeps
  <2> QED BY <2>2, <2>4 DEF Inv, Settled
<1>2. CASE UNCHANGED vars
  <2>1. UNCHANGED <<clients, time, dist, known, waiting, resent, modem, up, engine, engineDist, due,
                    begun, commands, faults, spoilt>>
    BY <1>2 DEF vars, maps, counters
  <2>2. Types'
    BY <2>1 DEF Inv, Types
  <2>3. \A s \in Sessions : Owed(s)'
    BY <2>1 DEF Inv, Owed, Owing, Asks, Waits, Pending
  <2>4. InTime' = InTime
    BY <2>1 DEF InTime
  <2>5. ~spoilt' => Fix'
    BY <2>1, <2>4 DEF Inv, Settled, Fix, LastFits, Agrees
  <2>6. ASSUME NEW s \in Sessions, Sound(s)
        PROVE  Sound(s)'
    <3>1. /\ Owing(s)' = Owing(s) /\ (Pends(s)' <=> Pends(s)) /\ (StartPends(s)' <=> StartPends(s))
          /\ \A i \in Pos : Op(i, s)' = Op(i, s)
      BY <2>1 DEF Owing, Asks, Waits, Pending, Pends, StartPends, Op
    <3>2. Exact(s)' /\ Sole(s)' /\ Gone(s)'
      BY <2>1, <2>6, <3>1 DEF Sound, Exact, Sole, Gone
    <3>3. Order(s)' /\ Kept(s)' /\ Over(s)'
      BY <2>1, <2>6, <3>1 DEF Sound, Order, Kept, Over
    <3>4. Begins(s)' /\ Held(s)' /\ Starts(s)' /\ OneWay(s)'
      BY <2>1, <2>4, <2>6, <3>1 DEF Sound, Begins, Held, Starts, Fresh, OneWay
    <3> QED BY <3>2, <3>3, <3>4 DEF Sound
  <2>7. ~spoilt' => Sounds'
    BY <2>1, <2>6 DEF Inv, Settled, Sounds
  <2> QED BY <2>2, <2>3, <2>5, <2>7 DEF Inv, Settled
<1> QED BY <1>1, <1>2

\* The invariant always holds.
THEOREM InvAlways == Spec => []Inv
<1>1. Init => Inv
  BY InitInv
<1>2. Inv /\ [Next]_vars => Inv'
  BY NextInv
<1> QED BY <1>1, <1>2, PTL DEF Spec

-----------------------------------------------------------------------------
(* What the invariant says of the tracking sessions.                        *)

LEMMA OwingNat ==
  ASSUME Types, NEW s \in Sessions
  PROVE  /\ Owing(s) \in Nat
         /\ Quiet => Owing(s) = 0
<1>1. modem \in Seq(Requests) /\ Pending \in Seq(Waiters)
  BY Places DEF Types
<1>2. Hits(modem, Asks(s)) \in Nat /\ Hits(Pending, Waits(s)) \in Nat
  BY <1>1, HitsOf
<1>3. ASSUME Quiet
      PROVE  Hits(modem, Asks(s)) = 0 /\ Hits(Pending, Waits(s)) = 0
  <2>1. Len(modem) = 0 /\ Len(Pending) = 0
    BY <1>3 DEF Quiet, Pending
  <2>2. (\A i \in 1 .. Len(modem) : modem[i] \notin Asks(s))
        /\ (\A i \in 1 .. Len(Pending) : Pending[i] \notin Waits(s))
    BY <2>1
  <2> QED BY <1>1, <2>2, HitsOf
<1> QED BY <1>2, <1>3 DEF Owing

\* The variables keep their types, in particular the options of
\* mTimeBasedTrackingSessions are never those of a session that saveTrackingSession
\* would have put among the distance-based ones.
THEOREM TypedAlways == Spec => []TypeOK
<1>1. Inv => TypeOK
  <2> SUFFICES ASSUME Inv
               PROVE  TypeOK
    OBVIOUS
  <2>1. Types
    BY DEF Inv
  <2>2. \A i \in DOMAIN modem : modem[i] \in [op : Ops, s : Sessions, ivl : Nat, o : Options \cup {NoOptions}]
    BY <2>1, Places DEF Requests
  <2>3. \A i \in DOMAIN (waiting \o resent) :
          (waiting \o resent)[i] \in [cmd : {"start", "update"}, s : Sessions, o : Options]
    BY <2>1, Places DEF Waiters, Pending
  <2>4. time \in [Sessions -> {o \in Options : ~o.dist} \cup {NoOptions}]
    BY <2>1 DEF Types, TimeOptions
  <2> QED BY <2>1, <2>2, <2>3, <2>4 DEF Types, TypeOK
<1> QED BY <1>1, InvAlways, PTL

\* Each command of a client that is still there (MsgStartTracking, MsgUpdateTracking,
\* MsgStopTracking) is answered once: by the adapter, or by the handler of the
\* engine's answer, never by both, and by one of them, but for a start that
\* MsgStartTracking refuses, which neither answers.
THEOREM AnsweredOnceAlways == Spec => []AnsweredOnce
<1>1. Inv => AnsweredOnce
  <2> SUFFICES ASSUME Inv, NEW s \in Sessions, ClientOf[s] \in clients
               PROVE  due[s] >= 0 /\ (Quiet /\ ~spoilt => due[s] = 0)
    BY DEF AnsweredOnce
  <2>1. Types /\ due[s] \in Int /\ due[s] >= Owing(s)
    BY DEF Inv, Owed, Types
  <2>2. Owing(s) \in Nat /\ (Quiet => Owing(s) = 0)
    BY <2>1, OwingNat
  <2>3. ~spoilt => due[s] = Owing(s)
    BY DEF Inv, Settled, Sounds, Sound, Exact
  <2> QED BY <2>1, <2>2, <2>3
<1> QED BY <1>1, InvAlways, PTL

\* When nothing is on its way the fix session of the engine runs iff a time-based
\* session exists and as often as each of them asks, whatever the multiplexing
\* functions found by their scans, and the engine tracks what
\* mDistanceBasedTrackingSessions says.
THEOREM EngineServesSessionsAlways == Spec => []EngineServesSessions
<1>1. Inv => EngineServesSessions
  <2> SUFFICES ASSUME Inv, Quiet, ~spoilt
               PROVE  /\ engine.on <=> InTime # {}
                      /\ \A s \in InTime : engine.ivl <= time[s].ivl
                      /\ engineDist = dist
    BY DEF EngineServesSessions
  <2>1. Types /\ Sounds /\ Fix /\ up /\ Len(modem) = 0
    BY DEF Inv, Settled, Quiet
  <2>2. Agrees(engine.on, engine.ivl)
    BY <2>1 DEF Fix, NoneIn
  <2>3. ASSUME NEW s \in Sessions
        PROVE  s \in dist <=> s \in engineDist
    <3>1. \A i \in Pos : Op(i, s) = "none"
      BY <2>1 DEF Op, OpOf
    <3>2. Kept(s)
      BY <2>1 DEF Sounds, Sound
    <3> QED BY <2>1, <3>1, <3>2 DEF Kept, DistanceOps
  <2>4. engineDist = dist
    BY <2>1, <2>3 DEF Types
  <2> QED BY <2>2, <2>4 DEF Agrees
<1> QED BY <1>1, InvAlways, PTL

\* A session is in mTimeBasedTrackingSessions or in mDistanceBasedTrackingSessions,
\* not in both: the updates that switch it, and the answers that come late, leave it
\* in one.
THEOREM TrackedOneWayAlways == Spec => []TrackedOneWay
<1>1. Inv => TrackedOneWay
  BY DEF Inv, Settled, Sounds, Sound, OneWay, TrackedOneWay, InTime
<1> QED BY <1>1, InvAlways, PTL
=============================================================================
