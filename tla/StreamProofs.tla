---------------------------- MODULE StreamProofs ----------------------------
(***************************************************************************)
(* Safety of the streams of mm-camera-interface.                            *)
(*                                                                          *)
(* The reference counts and the polling of StreamBuf for any number of      *)
(* buffers and every kind of stream: each reference is owed by somebody,    *)
(* the driver has no buffer that is in use, the stream is polled while the  *)
(* driver has buffers, and the count of these keeps its range.              *)
(* As mm_camera.c expects of them, the owners are done with a stream before *)
(* it is stopped (Quiet).                                                   *)
(*                                                                          *)
(* The poll thread of PollThread for any number of      *)
(* streams and threads: a synchronous delete ends the notifications of its  *)
(* stream, the thread never sleeps on a stale set of streams, every thread  *)
(* that waits for it is owed a wakeup, and the variables keep their types.  *)
(***************************************************************************)
EXTENDS StreamBuf, PollThread, Integers, SequenceTheorems, FiniteSetTheorems, FunctionTheorems, TLAPS

-----------------------------------------------------------------------------
(* Data.                                                                    *)

\* Places and steps are told apart by their names and their buffers.
LEMMA Apart ==
  /\ \A p, q, b, c : At(p, b) = At(q, c) <=> p = q /\ b = c
  /\ \A p, b : p # "idle" => At(p, b) # Idle
  /\ \A p, b : At(p, b).at = p
  /\ Idle.at = "idle"
<1>1. \A p, b : At(p, b).at = p /\ At(p, b).b = b
  BY DEF At
<1>2. Idle.at = "idle"
  BY DEF Idle
<1>3. \A p, q, b, c : At(p, b) = At(q, c) => p = q /\ b = c
  BY <1>1
<1>4. \A p, b : p # "idle" => At(p, b) # Idle
  BY <1>1, <1>2
<1> QED BY <1>1, <1>2, <1>3, <1>4

\* The 8-bit count counts as long as it is small.
LEMMA Bytes ==
  /\ \A n \in Int : Byte(n) \in 0 .. 255
  /\ \A n \in 0 .. 255 : Byte(n) = n
  /\ \A n \in 1 .. 255 : Byte(n + 255) = n - 1
BY SMT DEF Byte

\* How many of the owners are in a set of them.
Count(S) == Bit("cmd" \in S) + Bit("chan" \in S) + Bit("link" \in S) + Bit("app" \in S)

LEMMA OwnersCount ==
  ASSUME NEW S \in SUBSET Owners
  PROVE  Cardinality(S) = Count(S) /\ IsFiniteSet(S)
<1> DEFINE s0 == {}
           s1 == s0 \cup (S \cap {"cmd"})
           s2 == s1 \cup (S \cap {"chan"})
           s3 == s2 \cup (S \cap {"link"})
<1>1. ASSUME NEW T, IsFiniteSet(T), NEW x, x \notin T
      PROVE  IsFiniteSet(T \cup (S \cap {x})) /\ Cardinality(T \cup (S \cap {x})) = Cardinality(T) + Bit(x \in S)
  <2>1. CASE x \in S
    <3>1. T \cup (S \cap {x}) = T \cup {x}
      BY <2>1
    <3> QED BY <1>1, <2>1, <3>1, FS_AddElement DEF Bit
  <2>2. CASE x \notin S
    <3>1. T \cup (S \cap {x}) = T
      BY <2>2
    <3>2. Cardinality(T) \in Nat
      BY <1>1, FS_CardinalityType
    <3>3. Bit(x \in S) = 0
      BY <2>2 DEF Bit
    <3>4. Cardinality(T) = Cardinality(T) + Bit(x \in S)
      BY <3>2, <3>3
    <3> QED BY <1>1, <3>1, <3>4
  <2> QED BY <2>1, <2>2
<1>2. IsFiniteSet(s0) /\ Cardinality(s0) = 0
  BY FS_EmptySet
<1>3. IsFiniteSet(s1) /\ Cardinality(s1) = Bit("cmd" \in S)
  BY <1>1, <1>2 DEF Bit
<1>4. IsFiniteSet(s2) /\ Cardinality(s2) = Bit("cmd" \in S) + Bit("chan" \in S)
  BY <1>1, <1>3
<1>5. IsFiniteSet(s3) /\ Cardinality(s3) = Bit("cmd" \in S) + Bit("chan" \in S) + Bit("link" \in S)
  BY <1>1, <1>4
<1>6. S = s3 \cup (S \cap {"app"}) /\ "app" \notin s3
  BY DEF Owners
<1> HIDE DEF s3
<1> QED BY <1>1, <1>5, <1>6 DEF Count

-----------------------------------------------------------------------------
(* The invariant.                                                           *)

Types ==
  /\ st \in {"BUFFED", "REG", "ACTIVE", "OFF"}
  /\ ctl \in {"idle", "del", "off", "join"}
  /\ refcnt \in [Bufs -> 0 .. 255]
  /\ kernel \subseteq Bufs
  /\ linked \in BOOLEAN /\ cmdActive \in BOOLEAN
  /\ poll \in {Idle} \cup [at : Places, b : Bufs]
  /\ held \in [Owners -> SUBSET Bufs]
  /\ done \in [Owners -> {Idle} \cup [at : Steps, b : Bufs]]

\* Who may be doing something in each part of the stream's life.
Life ==
  /\ ctl # "idle" => st = "ACTIVE" /\ OthersIdle
  /\ st # "ACTIVE" => /\ held["cmd"] = {} /\ ~cmdActive
                      /\ \A h \in Owners : done[h] = Idle
  /\ st = "ACTIVE" => cmdActive = HasCb
  /\ st \in {"BUFFED", "REG"} => poll = Idle
  /\ st = "BUFFED" => kernel = {} /\ \A h \in Owners : held[h] = {}
  /\ st = "REG" => held["chan"] = {} /\ held["link"] = {}
  /\ linked => MayLink

Holds(h, b) == b \in held[h]
Checks(h, b) == done[h] = At("checked", b)
Returns(h, b) == done[h] \in {At("qbuf", b), At("ioctl", b)}

\* buf_refcnt counts who is known to give the buffer back.
Counted(b) ==
  refcnt[b] = pending(b)
    + (Bit(Holds("cmd", b)) + Bit(Holds("chan", b)) + Bit(Holds("link", b)) + Bit(Holds("app", b)))
    + (Bit(Checks("cmd", b)) + Bit(Checks("chan", b)) + Bit(Checks("link", b)) + Bit(Checks("app", b)))

Unused(b) == \A h \in Owners : ~Holds(h, b) /\ ~Checks(h, b)
PollAt(p, b) == poll = At(p, b)
Early(b) == PollAt("read", b) \/ PollAt("counted", b)
Late(b) == PollAt("ref", b) \/ (HasCb /\ (PollAt("link", b) \/ PollAt("cb", b)))

\* A buffer is with the driver, with the poll thread before it is counted, with
\* an owner that queues it again, or in use; never with two of them.
OnePlace(b) ==
  /\ b \in kernel => /\ refcnt[b] = 0 /\ Unused(b) /\ ~Early(b) /\ ~Late(b)
                     /\ \A h \in Owners : ~Returns(h, b)
  /\ Early(b) => Unused(b) /\ \A h \in Owners : ~Returns(h, b)
  /\ \A h \in Owners : Returns(h, b) =>
       Unused(b) /\ ~Late(b) /\ \A g \in Owners \ {h} : ~Returns(g, b)

\* Nobody is handed a buffer that they have.
Handed(b) ==
  /\ PollAt("ref", b) => Unused(b)
  /\ PollAt("link", b) => \A h \in {"cmd", "link", "app"} : ~Holds(h, b) /\ ~Checks(h, b)
  /\ PollAt("cb", b) => \A h \in {"cmd", "app"} : ~Holds(h, b) /\ ~Checks(h, b)
  /\ Holds("cmd", b) => ~Holds("app", b) /\ ~Checks("app", b)

Buffer(b) == (st # "OFF" => Counted(b)) /\ OnePlace(b) /\ Handed(b)
Ind == Types /\ Life /\ \A b \in Bufs : Buffer(b)

-----------------------------------------------------------------------------
(* What a step changes, as the invariant sees it.                           *)

LEMMA DoneChanges ==
  ASSUME Types, NEW h \in Owners, NEW s, done' = [done EXCEPT ![h] = s], NEW b
  PROVE  /\ Checks(h, b)' <=> s = At("checked", b)
         /\ Returns(h, b)' <=> s \in {At("qbuf", b), At("ioctl", b)}
         /\ \A g \in Owners \ {h} : (Checks(g, b)' <=> Checks(g, b)) /\ (Returns(g, b)' <=> Returns(g, b))
BY DEF Types, Checks, Returns

LEMMA DoneGoes ==
  ASSUME Types, NEW h \in Owners, NEW p, NEW c, p # "idle",
         done' = [done EXCEPT ![h] = At(p, c)], NEW b
  PROVE  /\ Checks(h, b)' <=> p = "checked" /\ b = c
         /\ Returns(h, b)' <=> p \in {"qbuf", "ioctl"} /\ b = c
         /\ \A g \in Owners \ {h} : (Checks(g, b)' <=> Checks(g, b)) /\ (Returns(g, b)' <=> Returns(g, b))
<1>1. At(p, c) = At("checked", b) <=> p = "checked" /\ b = c
  BY Apart
<1>2. At(p, c) \in {At("qbuf", b), At("ioctl", b)} <=> p \in {"qbuf", "ioctl"} /\ b = c
  BY Apart
<1> DEFINE s == At(p, c)
<1>3. done' = [done EXCEPT ![h] = s]
  OBVIOUS
<1> HIDE DEF s
<1>4. /\ Checks(h, b)' <=> s = At("checked", b)
      /\ Returns(h, b)' <=> s \in {At("qbuf", b), At("ioctl", b)}
      /\ \A g \in Owners \ {h} : (Checks(g, b)' <=> Checks(g, b)) /\ (Returns(g, b)' <=> Returns(g, b))
  BY <1>3, DoneChanges
<1> QED BY <1>1, <1>2, <1>4 DEF s

LEMMA DoneRests ==
  ASSUME Types, NEW h \in Owners, done' = [done EXCEPT ![h] = Idle], NEW b
  PROVE  /\ ~Checks(h, b)' /\ ~Returns(h, b)'
         /\ \A g \in Owners \ {h} : (Checks(g, b)' <=> Checks(g, b)) /\ (Returns(g, b)' <=> Returns(g, b))
<1>1. Idle # At("checked", b) /\ Idle \notin {At("qbuf", b), At("ioctl", b)}
  BY Apart
<1> QED BY <1>1, DoneChanges

LEMMA PollMoves ==
  ASSUME NEW q \in Places, NEW c, poll' = At(q, c), NEW b
  PROVE  \A p \in Places : PollAt(p, b)' <=> p = q /\ b = c
BY Apart DEF PollAt

LEMMA PollIs ==
  ASSUME NEW q \in Places, NEW c, poll = At(q, c), NEW b
  PROVE  \A p \in Places : PollAt(p, b) <=> p = q /\ b = c
BY Apart DEF PollAt

LEMMA PollRests ==
  ASSUME poll' = Idle, NEW b
  PROVE  \A p \in Places : ~PollAt(p, b)'
BY Apart DEF PollAt, Places

LEMMA SumOfBits == \A x : Bit(x) \in {0, 1}
BY DEF Bit

LEMMA PendingIsSmall == \A b : pending(b) \in 0 .. 2
BY DEF pending, Bit

LEMMA Pending ==
  ASSUME NEW b
  PROVE  pending(b) = IF PollAt("ref", b) THEN Bit(Bundled) + Bit(HasCb)
                      ELSE IF PollAt("link", b) \/ PollAt("cb", b) THEN Bit(HasCb) ELSE 0
BY Apart DEF pending, PollAt

LEMMA PendingNext ==
  ASSUME NEW b
  PROVE  pending(b)' = IF PollAt("ref", b)' THEN Bit(Bundled) + Bit(HasCb)
                       ELSE IF PollAt("link", b)' \/ PollAt("cb", b)' THEN Bit(HasCb) ELSE 0
BY Apart DEF pending, PollAt

\* A buffer that a step does not touch stays as it is.
LEMMA Same ==
  ASSUME NEW b \in Bufs, Buffer(b), refcnt'[b] = refcnt[b],
         st' # "OFF" => st # "OFF", b \in kernel' => b \in kernel,
         \A h \in Owners : /\ Holds(h, b)' <=> Holds(h, b)
                           /\ Checks(h, b)' <=> Checks(h, b)
                           /\ Returns(h, b)' => Returns(h, b),
         \A p \in Places : PollAt(p, b)' <=> PollAt(p, b)
  PROVE  Buffer(b)'
<1>1. st' # "OFF" => Counted(b)'
  <2>1. pending(b)' = pending(b)
    BY Pending, PendingNext DEF Places
  <2> QED BY <2>1 DEF Buffer, Counted, Owners, Bit
<1>2. OnePlace(b)'
  BY DEF Buffer, OnePlace, Unused, Early, Late, Places
<1>3. Handed(b)'
  BY DEF Buffer, Handed, Unused, Places, Owners
<1> QED BY <1>1, <1>2, <1>3 DEF Buffer

-----------------------------------------------------------------------------
(* The steps of one buffer's way, each for the buffer that it is about.      *)

\* Small numbers: no count comes near the width of buf_refcnt.
LEMMA Small ==
  ASSUME NEW b \in Bufs, Counted(b)
  PROVE  refcnt[b] \in 0 .. 10
BY Pending DEF Counted, Bit

LEMMA ReadStep ==
  ASSUME Ind, NEW c \in Bufs, read_msm_frame(c), NEW b \in Bufs
  PROVE  Buffer(b)'
<1>1. \A p \in Places : PollAt(p, b)' <=> p = "read" /\ b = c
  BY PollMoves DEF read_msm_frame, Places
<1>2. \A p \in Places : ~PollAt(p, b)
  BY Apart DEF read_msm_frame, PollAt, Places
<1>3. /\ refcnt'[b] = refcnt[b] /\ st' = st
      /\ \A h \in Owners : /\ Holds(h, b)' <=> Holds(h, b)
                           /\ Checks(h, b)' <=> Checks(h, b)
                           /\ Returns(h, b)' <=> Returns(h, b)
  BY DEF read_msm_frame, Holds, Checks, Returns
<1>4. CASE b # c
  BY <1>1, <1>2, <1>3, <1>4, Same DEF Ind, read_msm_frame
<1>5. CASE b = c
  <2>1. Unused(b) /\ (\A h \in Owners : ~Returns(h, b)) /\ b \notin kernel'
    BY <1>5 DEF Ind, Buffer, OnePlace, read_msm_frame
  <2>2. pending(b) = 0 /\ pending(b)' = 0
    BY <1>1, <1>2, Pending, PendingNext DEF Places
  <2>3. st' # "OFF" => Counted(b)'
    BY <1>3, <2>2 DEF Ind, Buffer, Counted, Owners, Bit
  <2> QED BY <1>1, <1>3, <2>1, <2>3 DEF Buffer, OnePlace, Handed, Unused, Early, Late, Owners, Places
<1> QED BY <1>4, <1>5

LEMMA CountsStep ==
  ASSUME Ind, NEW c \in Bufs, read_counts(c), NEW b \in Bufs
  PROVE  Buffer(b)'
<1>1. /\ \A p \in Places : PollAt(p, b)' <=> p = "counted" /\ b = c
      /\ \A p \in Places : PollAt(p, b) <=> p = "read" /\ b = c
  BY PollMoves, PollIs DEF read_counts, Places
<1>2. /\ refcnt'[b] = refcnt[b] /\ st' = st /\ kernel' = kernel
      /\ \A h \in Owners : /\ Holds(h, b)' <=> Holds(h, b)
                           /\ Checks(h, b)' <=> Checks(h, b)
                           /\ Returns(h, b)' <=> Returns(h, b)
  BY DEF read_counts, Holds, Checks, Returns
<1>3. pending(b) = 0 /\ pending(b)' = 0
  BY <1>1, Pending, PendingNext DEF Places
<1>4. st' # "OFF" => Counted(b)'
  BY <1>2, <1>3 DEF Ind, Buffer, Counted, Owners, Bit
<1> QED
  BY <1>1, <1>2, <1>4 DEF Ind, Buffer, OnePlace, Handed, Unused, Early, Late, Owners, Places

LEMMA ReadFailsStep ==
  ASSUME Ind, NEW c \in Bufs, read_fails(c), NEW b \in Bufs
  PROVE  Buffer(b)'
<1>1. /\ \A p \in Places : ~PollAt(p, b)'
      /\ \A p \in Places : PollAt(p, b) <=> p = "counted" /\ b = c
  BY PollRests, PollIs DEF read_fails, Places
<1>2. /\ refcnt'[b] = refcnt[b] /\ st' = st /\ kernel' = kernel
      /\ \A h \in Owners : /\ Holds(h, b)' <=> Holds(h, b)
                           /\ Checks(h, b)' <=> Checks(h, b)
                           /\ Returns(h, b)' <=> Returns(h, b)
  BY DEF read_fails, Holds, Checks, Returns
<1>3. pending(b) = 0 /\ pending(b)' = 0
  BY <1>1, Pending, PendingNext DEF Places
<1>4. st' # "OFF" => Counted(b)'
  BY <1>2, <1>3 DEF Ind, Buffer, Counted, Owners, Bit
<1> QED
  BY <1>1, <1>2, <1>4 DEF Ind, Buffer, OnePlace, Handed, Unused, Early, Late, Owners, Places

LEMMA DataStep ==
  ASSUME Ind, NEW c \in Bufs, data_notify(c), NEW b \in Bufs
  PROVE  Buffer(b)'
<1>1. /\ \A p \in Places : PollAt(p, b)' <=> p = "ref" /\ b = c
      /\ \A p \in Places : PollAt(p, b) <=> p = "counted" /\ b = c
  BY PollMoves, PollIs DEF data_notify, Places
<1>2. /\ st' = st /\ kernel' = kernel
      /\ refcnt' = [refcnt EXCEPT ![c] = Byte(@ + Bit(Bundled) + Bit(HasCb))]
      /\ \A h \in Owners : /\ Holds(h, b)' <=> Holds(h, b)
                           /\ Checks(h, b)' <=> Checks(h, b)
                           /\ Returns(h, b)' <=> Returns(h, b)
  BY DEF data_notify, Holds, Checks, Returns
<1>3. CASE b # c
  BY <1>1, <1>2, <1>3, Same DEF Ind, Types
<1>4. CASE b = c
  <2>1. Unused(b) /\ (\A h \in Owners : ~Returns(h, b)) /\ b \notin kernel
    BY <1>1, <1>4 DEF Ind, Buffer, OnePlace, Early, Places
  <2>2. pending(b) = 0 /\ pending(b)' = Bit(Bundled) + Bit(HasCb)
    BY <1>1, <1>4, Pending, PendingNext DEF Places
  <2>3. ASSUME st' # "OFF" PROVE Counted(b)'
    <3>1. refcnt[b] = 0
      BY <1>2, <2>1, <2>2, <2>3 DEF Ind, Buffer, Counted, Unused, Owners, Bit
    <3>2. refcnt'[b] = Byte(Bit(Bundled) + Bit(HasCb))
      BY <1>2, <1>4, <3>1 DEF Ind, Types, Bit
    <3>3. refcnt'[b] = Bit(Bundled) + Bit(HasCb)
      BY <3>2, Bytes DEF Bit
    <3> QED BY <1>2, <2>1, <2>2, <3>3 DEF Counted, Unused, Owners, Bit
  <2> QED
    BY <1>1, <1>2, <2>1, <2>3 DEF Buffer, OnePlace, Handed, Unused, Early, Late, Owners, Places
<1> QED BY <1>3, <1>4

LEMMA ChannelStep ==
  ASSUME Ind, NEW c \in Bufs, notify_channel(c), NEW b \in Bufs
  PROVE  Buffer(b)'
<1>1. /\ \A p \in Places : PollAt(p, b)' <=> p = "link" /\ b = c
      /\ \A p \in Places : PollAt(p, b) <=> p = "ref" /\ b = c
  BY PollMoves, PollIs DEF notify_channel, Places
<1>2. /\ st' = st /\ kernel' = kernel /\ refcnt' = refcnt
      /\ \A h \in Owners : /\ Holds(h, b)' <=> Holds(h, b) \/ (Bundled /\ h = "chan" /\ b = c)
                           /\ Checks(h, b)' <=> Checks(h, b)
                           /\ Returns(h, b)' <=> Returns(h, b)
  BY DEF notify_channel, give, Ind, Types, Holds, Checks, Returns
<1>3. CASE b # c
  BY <1>1, <1>2, <1>3, Same DEF Ind
<1>4. CASE b = c
  <2>1. Unused(b) /\ (\A h \in Owners : ~Returns(h, b)) /\ b \notin kernel
    BY <1>1, <1>4 DEF Ind, Buffer, OnePlace, Handed, Late, Places
  <2>2. pending(b) = Bit(Bundled) + Bit(HasCb) /\ pending(b)' = Bit(HasCb)
    BY <1>1, <1>4, Pending, PendingNext DEF Places
  <2>3. st' # "OFF" => Counted(b)'
    BY <1>2, <1>4, <2>1, <2>2 DEF Ind, Buffer, Counted, Unused, Owners, Bit
  <2> QED
    BY <1>1, <1>2, <1>4, <2>1, <2>3
    DEF Buffer, OnePlace, Handed, Unused, Early, Late, Owners, Places
<1> QED BY <1>3, <1>4

LEMMA LinkedStep ==
  ASSUME Ind, NEW c \in Bufs, notify_linked(c), NEW b \in Bufs
  PROVE  Buffer(b)'
<1>1. /\ \A p \in Places : PollAt(p, b)' <=> p = "cb" /\ b = c
      /\ \A p \in Places : PollAt(p, b) <=> p = "link" /\ b = c
  BY PollMoves, PollIs DEF notify_linked, Places
<1>2. /\ st' = st /\ kernel' = kernel
      /\ refcnt' = IF linked THEN [refcnt EXCEPT ![c] = Byte(@ + 1)] ELSE refcnt
      /\ \A h \in Owners : /\ Holds(h, b)' <=> Holds(h, b) \/ (linked /\ h = "link" /\ b = c)
                           /\ Checks(h, b)' <=> Checks(h, b)
                           /\ Returns(h, b)' <=> Returns(h, b)
  BY DEF notify_linked, give, Ind, Types, Holds, Checks, Returns
<1>3. CASE b # c
  BY <1>1, <1>2, <1>3, Same DEF Ind, Types
<1>4. CASE b = c
  <2>1. \A h \in {"cmd", "link", "app"} : ~Holds(h, b) /\ ~Checks(h, b)
    BY <1>1, <1>4 DEF Ind, Buffer, Handed, Places
  <2>2. linked => HasCb
    BY StreamBufAssumption DEF Ind, Life
  <2>3. linked => (\A h \in Owners : ~Returns(h, b)) /\ b \notin kernel
    BY <1>1, <1>4, <2>2 DEF Ind, Buffer, OnePlace, Late, Places
  <2>4. pending(b) = Bit(HasCb) /\ pending(b)' = Bit(HasCb)
    BY <1>1, <1>4, Pending, PendingNext DEF Places
  <2>5. ASSUME st' # "OFF" PROVE Counted(b)'
    <3>1. Counted(b) /\ refcnt[b] \in 0 .. 10
      BY <1>2, <2>5, Small DEF Ind, Buffer
    <3>2. refcnt'[b] = refcnt[b] + Bit(linked)
      BY <1>2, <1>4, <3>1, Bytes DEF Ind, Types, Bit
    <3> QED BY <1>2, <1>4, <2>1, <2>4, <3>1, <3>2 DEF Counted, Owners, Bit
  <2>6. OnePlace(b)'
    BY <1>1, <1>2, <1>4, <2>3 DEF Ind, Buffer, OnePlace, Unused, Early, Late, Owners, Places
  <2>7. Handed(b)'
    BY <1>1, <1>2, <1>4, <2>1 DEF Ind, Buffer, Handed, Unused, Owners, Places
  <2> QED BY <2>5, <2>6, <2>7 DEF Buffer
<1> QED BY <1>3, <1>4

LEMMA CmdThreadStep ==
  ASSUME Ind, NEW c \in Bufs, notify_cmd_thread(c), NEW b \in Bufs
  PROVE  Buffer(b)'
<1>1. /\ \A p \in Places : ~PollAt(p, b)'
      /\ \A p \in Places : PollAt(p, b) <=> p = "cb" /\ b = c
  BY PollRests, PollIs DEF notify_cmd_thread, Places
<1>2. /\ st' = st /\ kernel' = kernel /\ refcnt' = refcnt
      /\ \A h \in Owners : /\ Holds(h, b)' <=> Holds(h, b) \/ (HasCb /\ cmdActive /\ h = "cmd" /\ b = c)
                           /\ Checks(h, b)' <=> Checks(h, b)
                           /\ Returns(h, b)' <=> Returns(h, b)
  BY DEF notify_cmd_thread, give, Ind, Types, Holds, Checks, Returns
<1>3. CASE b # c
  BY <1>1, <1>2, <1>3, Same DEF Ind
<1>4. CASE b = c
  <2>1. \A h \in {"cmd", "app"} : ~Holds(h, b) /\ ~Checks(h, b)
    BY <1>1, <1>4 DEF Ind, Buffer, Handed, Places
  <2>2. st # "OFF" => cmdActive = HasCb
    BY <1>1, <1>4, Apart DEF Ind, Life, Types, notify_cmd_thread
  <2>3. HasCb => (\A h \in Owners : ~Returns(h, b)) /\ b \notin kernel
    BY <1>1, <1>4 DEF Ind, Buffer, OnePlace, Late, Places
  <2>4. pending(b) = Bit(HasCb) /\ pending(b)' = 0
    BY <1>1, <1>4, Pending, PendingNext DEF Places
  <2>5. st' # "OFF" => Counted(b)'
    BY <1>2, <1>4, <2>1, <2>2, <2>4 DEF Ind, Buffer, Counted, Owners, Bit
  <2>6. OnePlace(b)'
    BY <1>1, <1>2, <1>4, <2>3 DEF Ind, Buffer, OnePlace, Unused, Early, Late, Owners, Places
  <2>7. Handed(b)'
    BY <1>1, <1>2, <1>4, <2>1 DEF Ind, Buffer, Handed, Unused, Owners, Places
  <2> QED BY <2>5, <2>6, <2>7 DEF Buffer
<1> QED BY <1>3, <1>4

LEMMA BufDoneStep ==
  ASSUME Ind, NEW h \in Owners, NEW c \in Bufs, buf_done(h, c), NEW b \in Bufs
  PROVE  Buffer(b)'
<1>1. Counted(c) /\ Holds(h, c) /\ ~Checks(h, c) /\ h # "cmd"
  BY Apart DEF buf_done, Ind, Buffer, Holds, Checks
<1>2. refcnt[c] # 0
  BY <1>1, Pending DEF Counted, Bit, Owners
<1>3. done' = [done EXCEPT ![h] = At("checked", c)]
  BY <1>2 DEF buf_done
<1>4. ~Returns(h, b)
  BY Apart DEF buf_done, Returns
<1>5. /\ Checks(h, b)' <=> b = c
      /\ ~Returns(h, b)'
      /\ \A g \in Owners \ {h} : (Checks(g, b)' <=> Checks(g, b)) /\ (Returns(g, b)' <=> Returns(g, b))
  BY <1>3, DoneGoes DEF Ind
<1>6. \A g \in Owners : Holds(g, b)' <=> Holds(g, b) /\ ~(g = h /\ b = c)
  BY DEF buf_done, Ind, Types, Holds
<1>7. /\ st' = st /\ kernel' = kernel /\ refcnt' = refcnt
      /\ \A p \in Places : PollAt(p, b)' <=> PollAt(p, b)
  BY DEF buf_done, PollAt
<1>8. ~Checks(h, b)
  BY Apart DEF buf_done, Checks
<1>9. CASE b # c
  BY <1>4, <1>5, <1>6, <1>7, <1>8, <1>9, Same DEF Ind
<1>10. CASE b = c
  <2>1. pending(b)' = pending(b)
    BY <1>7, Pending, PendingNext DEF Places
  <2>2. Counted(b)'
    <3>1. ASSUME NEW g \in Owners
          PROVE  Bit(Holds(g, b)') + Bit(Checks(g, b)') = Bit(Holds(g, b)) + Bit(Checks(g, b))
      BY <1>1, <1>5, <1>6, <1>10 DEF Bit
    <3> QED BY <1>1, <1>7, <1>10, <2>1, <3>1, SumOfBits, PendingIsSmall DEF Counted, Owners
  <2>3. OnePlace(b)'
    BY <1>1, <1>4, <1>5, <1>6, <1>7, <1>10 DEF Ind, Buffer, OnePlace, Unused, Early, Late, Owners, Places
  <2>4. Handed(b)'
    BY <1>1, <1>5, <1>6, <1>7, <1>10 DEF Ind, Buffer, Handed, Unused, Owners, Places
  <2> QED BY <2>2, <2>3, <2>4 DEF Buffer
<1> QED BY <1>9, <1>10

LEMMA DispatchStep ==
  ASSUME Ind, NEW c \in Bufs, dispatch_app_data(c), NEW b \in Bufs
  PROVE  Buffer(b)'
<1>1. "cmd" \in Owners /\ "app" \in Owners
  BY DEF Owners
<1>2. Holds("cmd", c) /\ ~Checks("cmd", b) /\ ~Returns("cmd", b)
  BY Apart DEF dispatch_app_data, Holds, Checks, Returns
<1>3. /\ Checks("cmd", b)' <=> b = c
      /\ ~Returns("cmd", b)'
      /\ \A g \in Owners \ {"cmd"} : (Checks(g, b)' <=> Checks(g, b)) /\ (Returns(g, b)' <=> Returns(g, b))
  BY <1>1, DoneGoes DEF Ind, dispatch_app_data
<1>4. \A g \in Owners : Holds(g, b)' <=> \/ Holds(g, b) /\ ~(g = "cmd" /\ b = c)
                                         \/ g = "app" /\ b = c
  BY <1>1 DEF dispatch_app_data, Ind, Types, Holds
<1>5. /\ st' = st /\ kernel' = kernel /\ refcnt' = [refcnt EXCEPT ![c] = Byte(@ + 1)]
      /\ \A p \in Places : PollAt(p, b)' <=> PollAt(p, b)
  BY DEF dispatch_app_data, PollAt
<1>6. CASE b # c
  BY <1>2, <1>3, <1>4, <1>5, <1>6, Same DEF Ind, Types
<1>7. CASE b = c
  <2>1. ~Holds("app", b) /\ ~Checks("app", b)
    BY <1>2, <1>7 DEF Ind, Buffer, Handed
  <2>2. ASSUME st' # "OFF" PROVE Counted(b)'
    <3>1. Counted(b) /\ refcnt[b] \in 0 .. 10
      BY <1>5, <2>2, Small DEF Ind, Buffer
    <3>2. refcnt'[b] = refcnt[b] + 1
      BY <1>5, <1>7, <3>1, Bytes DEF Ind, Types
    <3>3. pending(b)' = pending(b)
      BY <1>5, Pending, PendingNext DEF Places
    <3>4. /\ Bit(Holds("cmd", b)') = 0 /\ Bit(Checks("cmd", b)') = 1
          /\ Bit(Holds("app", b)') = 1 /\ Bit(Checks("app", b)') = 0
          /\ Bit(Holds("cmd", b)) = 1 /\ Bit(Checks("cmd", b)) = 0
          /\ Bit(Holds("app", b)) = 0 /\ Bit(Checks("app", b)) = 0
      BY <1>1, <1>2, <1>3, <1>4, <1>7, <2>1 DEF Bit
    <3>5. ASSUME NEW g \in {"chan", "link"}
          PROVE  Bit(Holds(g, b)') = Bit(Holds(g, b)) /\ Bit(Checks(g, b)') = Bit(Checks(g, b))
      BY <1>3, <1>4 DEF Bit, Owners
    <3> QED BY <3>1, <3>2, <3>3, <3>4, <3>5, SumOfBits, PendingIsSmall DEF Counted
  <2>3. OnePlace(b)'
    BY <1>1, <1>2, <1>3, <1>4, <1>5, <1>7 DEF Ind, Buffer, OnePlace, Unused, Early, Late, Owners, Places
  <2>4. Handed(b)'
    BY <1>1, <1>2, <1>3, <1>4, <1>5, <1>7 DEF Ind, Buffer, Handed, Unused, Owners, Places
  <2> QED BY <2>2, <2>3, <2>4 DEF Buffer
<1> QED BY <1>6, <1>7

LEMMA DecrementStep ==
  ASSUME Ind, NEW h \in Owners, NEW c \in Bufs, buf_done_decrement(h, c), NEW b \in Bufs
  PROVE  Buffer(b)'
<1>1. /\ \A x \in Bufs : Checks(h, x) <=> x = c
      /\ \A x \in Bufs : ~Returns(h, x)
  BY Apart DEF buf_done_decrement, Checks, Returns
<1>2. st # "OFF"
  BY Apart DEF Ind, Life, buf_done_decrement
<1>3. Counted(c) /\ refcnt[c] \in 1 .. 10
  <2>1. Counted(c) /\ refcnt[c] \in 0 .. 10
    BY <1>2, Small DEF Ind, Buffer
  <2>2. refcnt[c] # 0
    BY <1>1, <2>1, Pending DEF Counted, Bit, Owners
  <2> QED BY <2>1, <2>2
<1>4. refcnt' = [refcnt EXCEPT ![c] = refcnt[c] - 1]
  <2>1. Byte(refcnt[c] + 255) = refcnt[c] - 1
    BY <1>3, Bytes
  <2> QED BY <2>1 DEF Ind, Types, buf_done_decrement
<1>5. /\ ~Checks(h, b)'
      /\ Returns(h, b)' <=> b = c /\ refcnt[c] = 1
      /\ \A g \in Owners \ {h} : (Checks(g, b)' <=> Checks(g, b)) /\ (Returns(g, b)' <=> Returns(g, b))
  <2> DEFINE s == IF refcnt'[c] = 0 THEN At("qbuf", c) ELSE Idle
  <2>1. done' = [done EXCEPT ![h] = s]
    BY DEF buf_done_decrement
  <2>2. refcnt'[c] = 0 <=> refcnt[c] = 1
    BY <1>3, <1>4 DEF Ind, Types
  <2>3. s # At("checked", b) /\ (s \in {At("qbuf", b), At("ioctl", b)} <=> b = c /\ refcnt[c] = 1)
    BY <2>2, Apart
  <2> HIDE DEF s
  <2> QED BY <2>1, <2>3, DoneChanges DEF Ind
<1>6. /\ st' = st /\ kernel' = kernel
      /\ \A g \in Owners : Holds(g, b)' <=> Holds(g, b)
      /\ \A p \in Places : PollAt(p, b)' <=> PollAt(p, b)
  BY DEF buf_done_decrement, PollAt, Holds
<1>7. CASE b # c
  BY <1>1, <1>4, <1>5, <1>6, <1>7, Same DEF Ind, Types
<1>8. CASE b = c
  <2>1. pending(b)' = pending(b)
    BY <1>6, Pending, PendingNext DEF Places
  <2>2. refcnt'[b] = refcnt[b] - 1
    BY <1>4, <1>8 DEF Ind, Types
  <2>3. Counted(b)'
    <3>1. Bit(Checks(h, b)) = 1 /\ Bit(Checks(h, b)') = 0
      BY <1>1, <1>5, <1>8 DEF Bit
    <3>2. \A g \in Owners : Bit(Holds(g, b)') = Bit(Holds(g, b))
      BY <1>6 DEF Bit
    <3>3. \A g \in Owners \ {h} : Bit(Checks(g, b)') = Bit(Checks(g, b))
      BY <1>5 DEF Bit
    <3> QED BY <1>3, <1>8, <2>1, <2>2, <3>1, <3>2, <3>3, SumOfBits, PendingIsSmall DEF Counted, Owners
  <2>4. b \notin kernel /\ ~Early(b) /\ \A g \in Owners : ~Returns(g, b)
    BY <1>1, <1>8 DEF Ind, Buffer, OnePlace, Unused
  <2>5. ASSUME refcnt[c] = 1 PROVE Unused(b)' /\ ~Late(b)
    <3>1. pending(b) = 0
      BY <1>1, <1>3, <1>8, <2>5, Pending DEF Counted, Owners, Bit
    <3>2. ~Late(b)
      BY <3>1, Pending, StreamBufAssumption DEF Late, Bit
    <3>3. Unused(b)'
      BY <1>8, <2>2, <2>3, <2>5, <2>1, <3>1 DEF Counted, Unused, Owners, Bit
    <3> QED BY <3>2, <3>3
  <2>6. OnePlace(b)'
    BY <1>1, <1>5, <1>6, <1>8, <2>4, <2>5 DEF OnePlace, Unused, Early, Late, Owners, Places
  <2>7. Handed(b)'
    BY <1>1, <1>5, <1>6, <1>8 DEF Ind, Buffer, Handed, Unused, Owners, Places
  <2> QED BY <2>3, <2>6, <2>7 DEF Buffer
<1> QED BY <1>7, <1>8

LEMMA IoctlStep ==
  ASSUME Ind, NEW h \in Owners, NEW c \in Bufs, qbuf_ioctl(h, c), NEW b \in Bufs
  PROVE  Buffer(b)'
<1>1. /\ Returns(h, b) <=> b = c
      /\ ~Checks(h, b)
  BY Apart DEF qbuf_ioctl, Checks, Returns
<1>2. PICK s \in {At("queued", c), At("failed", c)} :
        done' = [done EXCEPT ![h] = s] /\ kernel' \subseteq kernel \cup {c}
  BY DEF qbuf_ioctl
<1>3. s # At("checked", b) /\ s \notin {At("qbuf", b), At("ioctl", b)}
  BY <1>2, Apart
<1>4. /\ ~Checks(h, b)' /\ ~Returns(h, b)'
      /\ \A g \in Owners \ {h} : (Checks(g, b)' <=> Checks(g, b)) /\ (Returns(g, b)' <=> Returns(g, b))
  BY <1>2, <1>3, DoneChanges DEF Ind
<1>5. /\ st' = st /\ refcnt' = refcnt
      /\ \A g \in Owners : Holds(g, b)' <=> Holds(g, b)
      /\ \A p \in Places : PollAt(p, b)' <=> PollAt(p, b)
  BY DEF qbuf_ioctl, PollAt, Holds
<1>6. CASE b # c
  BY <1>1, <1>2, <1>4, <1>5, <1>6, Same DEF Ind
<1>7. CASE b = c
  <2>1. pending(b)' = pending(b)
    BY <1>5, Pending, PendingNext DEF Places
  <2>2. st' # "OFF" => Counted(b)'
    BY <1>1, <1>4, <1>5, <2>1 DEF Ind, Buffer, Counted, Owners, Bit
  <2>3. Unused(b) /\ ~Early(b) /\ ~Late(b) /\ \A g \in Owners \ {h} : ~Returns(g, b)
    BY <1>1, <1>7 DEF Ind, Buffer, OnePlace
  <2>4. OnePlace(b)'
    <3>1. st # "OFF"
      BY Apart DEF Ind, Life, qbuf_ioctl
    <3>2. pending(b) = 0
      BY <2>3, Pending DEF Late, Bit
    <3>3. refcnt[b] = 0
      BY <2>3, <3>1, <3>2 DEF Ind, Buffer, Counted, Unused, Owners, Bit
    <3>4. Unused(b)' /\ ~Early(b)' /\ ~Late(b)' /\ \A g \in Owners : ~Returns(g, b)'
      BY <1>4, <1>5, <2>3 DEF Unused, Early, Late, Places
    <3> QED BY <1>5, <3>3, <3>4 DEF OnePlace
  <2>5. Handed(b)'
    BY <1>1, <1>4, <1>5 DEF Ind, Buffer, Handed, Unused, Owners, Places
  <2> QED BY <2>2, <2>4, <2>5 DEF Buffer
<1> QED BY <1>6, <1>7

\* The steps that are about no reference.
LEMMA AsideStep ==
  ASSUME Ind, NEW h \in Owners, NEW c \in Bufs,
         qbuf(h, c) \/ qbuf_failed(h, c) \/ mark_in_kernel(h, c), NEW b \in Bufs
  PROVE  Buffer(b)'
<1>1. /\ st' = st /\ refcnt' = refcnt /\ kernel' = kernel
      /\ \A g \in Owners : Holds(g, b)' <=> Holds(g, b)
      /\ \A p \in Places : PollAt(p, b)' <=> PollAt(p, b)
  BY DEF qbuf, qbuf_failed, mark_in_kernel, PollAt, Holds
<1>2. CASE qbuf(h, c)
  <2>1. ~Checks(h, b) /\ (Returns(h, b) <=> b = c)
    BY <1>2, Apart DEF qbuf, Checks, Returns
  <2>2. done' = [done EXCEPT ![h] = At("ioctl", c)] \/ done' = [done EXCEPT ![h] = Idle]
    BY <1>2 DEF qbuf
  <2>3. /\ ~Checks(h, b)' /\ (Returns(h, b)' => b = c)
        /\ \A g \in Owners \ {h} : (Checks(g, b)' <=> Checks(g, b)) /\ (Returns(g, b)' <=> Returns(g, b))
    BY <2>2, DoneGoes, DoneRests DEF Ind
  <2> QED BY <1>1, <2>1, <2>3, Same DEF Ind
<1>3. CASE qbuf_failed(h, c) \/ mark_in_kernel(h, c)
  <2>1. ~Checks(h, b) /\ ~Returns(h, b)
    BY <1>3, Apart DEF qbuf_failed, mark_in_kernel, Checks, Returns
  <2>2. done' = [done EXCEPT ![h] = Idle]
    BY <1>3 DEF qbuf_failed, mark_in_kernel
  <2>3. /\ ~Checks(h, b)' /\ ~Returns(h, b)'
        /\ \A g \in Owners \ {h} : (Checks(g, b)' <=> Checks(g, b)) /\ (Returns(g, b)' <=> Returns(g, b))
    BY <2>2, DoneRests DEF Ind
  <2> QED BY <1>1, <2>1, <2>3, Same DEF Ind
<1> QED BY <1>2, <1>3

\* The steps of the stream's life.
LEMMA LifeBuffer ==
  ASSUME Quiet, Ind, reg_buf \/ start \/ start_fails \/ stop_del \/ Stop \/ unreg_buf \/ link,
         NEW b \in Bufs
  PROVE  Buffer(b)'
<1>1. /\ \A p \in Places : PollAt(p, b)' <=> PollAt(p, b)
      /\ \A g \in Owners : (Checks(g, b)' <=> Checks(g, b)) /\ (Returns(g, b)' <=> Returns(g, b))
  BY DEF reg_buf, start, start_fails, stop_del, Stop, stop_waited, streamoff, cmd_thread_release,
         unreg_buf, link, PollAt, Checks, Returns
<1>2. CASE reg_buf \/ unreg_buf
  <2>1. \A p \in Places : ~PollAt(p, b)
    BY <1>2, Apart DEF reg_buf, unreg_buf, Ind, Life, PollAt, Places
  <2>2. \A g \in Owners : ~Checks(g, b) /\ ~Returns(g, b)
    <3>1. \A g \in Owners : done[g] = Idle
      BY <1>2 DEF reg_buf, unreg_buf, Ind, Life
    <3> QED BY <3>1, Apart DEF Checks, Returns
  <2>3. \A g \in Owners : Holds(g, b)' <=> reg_buf /\ g = "app" /\ b \notin InitialRegs
    <3>1. CASE reg_buf
      BY <3>1 DEF reg_buf, Ind, Life, Types, Holds, Owners
    <3>2. CASE unreg_buf
      BY <3>2 DEF reg_buf, unreg_buf, Holds
    <3> QED BY <1>2, <3>1, <3>2
  <2>4. /\ refcnt'[b] = Bit(reg_buf /\ b \notin InitialRegs)
        /\ b \in kernel' <=> reg_buf /\ b \in InitialRegs
    BY <1>2 DEF reg_buf, unreg_buf, Bit
  <2>5. pending(b)' = 0
    BY <1>1, <2>1, PendingNext DEF Places
  <2>6. Counted(b)'
    BY <1>1, <2>2, <2>3, <2>4, <2>5 DEF Counted, Owners, Bit
  <2>7. OnePlace(b)' /\ Handed(b)'
    <3>1. b \in kernel' => refcnt'[b] = 0 /\ \A g \in Owners : ~Holds(g, b)'
      BY <2>3, <2>4 DEF Bit
    <3>2. \A g \in Owners \ {"app"} : ~Holds(g, b)'
      BY <2>3
    <3> QED BY <1>1, <2>1, <2>2, <3>1, <3>2
            DEF OnePlace, Handed, Unused, Early, Late, Owners, Places
  <2> QED BY <2>6, <2>7 DEF Buffer
<1>3. CASE start \/ start_fails \/ stop_del \/ Stop \/ link
  <2>1. /\ refcnt' = refcnt /\ held' = held /\ kernel' \subseteq kernel
        /\ st' # "OFF" => st # "OFF"
    BY <1>3 DEF start, start_fails, stop_del, Stop, stop_waited, streamoff, cmd_thread_release, link
  <2>2. \A g \in Owners : Holds(g, b)' <=> Holds(g, b)
    BY <2>1 DEF Holds
  <2> QED BY <1>1, <2>1, <2>2, Same DEF Ind
<1> QED BY <1>2, <1>3

LEMMA BufferStep ==
  ASSUME Quiet, Ind, Next, NEW b \in Bufs
  PROVE  Buffer(b)'
<1>1. CASE Notify
  BY <1>1, ReadStep, CountsStep, ReadFailsStep, DataStep, ChannelStep, LinkedStep, CmdThreadStep DEF Notify
<1>2. CASE \E c \in Bufs : dispatch_app_data(c)
  BY <1>2, DispatchStep
<1>3. CASE \E c \in Bufs, h \in Owners : Done(h, c)
  BY <1>3, BufDoneStep, DecrementStep, IoctlStep, AsideStep DEF Done
<1>4. CASE reg_buf \/ start \/ start_fails \/ stop_del \/ Stop \/ unreg_buf \/ link
  BY <1>4, LifeBuffer
<1> QED BY <1>1, <1>2, <1>3, <1>4 DEF Next

-----------------------------------------------------------------------------
(* The rest of the invariant.                                               *)

LEMMA Words ==
  /\ \A p \in Places, b \in Bufs : At(p, b) \in {Idle} \cup [at : Places, b : Bufs]
  /\ \A p \in Steps, b \in Bufs : At(p, b) \in {Idle} \cup [at : Steps, b : Bufs]
BY DEF At

LEMMA CountTyped ==
  ASSUME refcnt \in [Bufs -> 0 .. 255], NEW c \in Bufs, NEW n \in Nat,
         refcnt' = [refcnt EXCEPT ![c] = Byte(@ + n)]
  PROVE  refcnt' \in [Bufs -> 0 .. 255]
<1>1. refcnt[c] + n \in Int
  OBVIOUS
<1>2. Byte(refcnt[c] + n) \in 0 .. 255
  BY <1>1, Bytes
<1> QED BY <1>2

LEMMA NotifyTypes ==
  ASSUME Types, NEW c \in Bufs,
         \/ read_msm_frame(c) \/ read_counts(c) \/ read_fails(c) \/ data_notify(c)
         \/ notify_channel(c) \/ notify_linked(c) \/ notify_cmd_thread(c)
  PROVE  Types'
<1>1. /\ st' = st /\ ctl' = ctl /\ linked' = linked /\ cmdActive' = cmdActive /\ done' = done
      /\ kernel' \subseteq kernel
  BY DEF read_msm_frame, read_counts, read_fails, data_notify, notify_channel, notify_linked, notify_cmd_thread
<1>2. poll' = Idle \/ \E p \in Places : poll' = At(p, c)
  BY DEF read_msm_frame, read_counts, read_fails, data_notify, notify_channel, notify_linked, notify_cmd_thread, Places
<1>3. poll' \in {Idle} \cup [at : Places, b : Bufs]
  BY <1>2, Words
<1>4. held' = held \/ \E h \in Owners : give(h, c)
  BY DEF read_msm_frame, read_counts, read_fails, data_notify, notify_channel, notify_linked, notify_cmd_thread, Owners
<1>5. held' \in [Owners -> SUBSET Bufs]
  BY <1>4 DEF Types, give
<1>6. \/ refcnt' = refcnt
      \/ refcnt' = [refcnt EXCEPT ![c] = Byte(@ + 1)]
      \/ refcnt' = [refcnt EXCEPT ![c] = Byte(@ + (Bit(Bundled) + Bit(HasCb)))]
  <2>1. CASE data_notify(c)
    <3>1. refcnt[c] + Bit(Bundled) + Bit(HasCb) = refcnt[c] + (Bit(Bundled) + Bit(HasCb))
      BY DEF Types, Bit
    <3> QED BY <2>1, <3>1 DEF data_notify
  <2>2. CASE ~data_notify(c)
    BY <2>2 DEF read_msm_frame, read_counts, read_fails, notify_channel, notify_linked, notify_cmd_thread
  <2> QED BY <2>1, <2>2
<1>7. Bit(Bundled) + Bit(HasCb) \in Nat
  BY DEF Bit
<1>8. refcnt' \in [Bufs -> 0 .. 255]
  BY <1>6, <1>7, CountTyped DEF Types
<1> QED BY <1>1, <1>3, <1>5, <1>8 DEF Types

LEMMA DoneTypes ==
  ASSUME Types, NEW h \in Owners, NEW c \in Bufs, Done(h, c) \/ (h = "cmd" /\ dispatch_app_data(c))
  PROVE  Types'
<1> USE DEF Done
<1>1. /\ st' = st /\ ctl' = ctl /\ linked' = linked /\ cmdActive' = cmdActive /\ poll' = poll
      /\ kernel' \subseteq kernel \cup {c}
  BY DEF buf_done, dispatch_app_data, buf_done_decrement, qbuf, qbuf_ioctl, qbuf_failed, mark_in_kernel
<1>2. \/ done' = [done EXCEPT ![h] = Idle]
      \/ \E p \in Steps : done' = [done EXCEPT ![h] = At(p, c)]
  BY DEF buf_done, dispatch_app_data, buf_done_decrement, qbuf, qbuf_ioctl, qbuf_failed, mark_in_kernel, Steps
<1>3. done' \in [Owners -> {Idle} \cup [at : Steps, b : Bufs]]
  BY <1>2, Words DEF Types
<1>4. \/ held' = held
      \/ held' = [held EXCEPT ![h] = @ \ {c}]
      \/ held' = [held EXCEPT !["cmd"] = @ \ {c}, !["app"] = @ \cup {c}]
  BY DEF buf_done, dispatch_app_data, buf_done_decrement, qbuf, qbuf_ioctl, qbuf_failed, mark_in_kernel
<1>5. held' \in [Owners -> SUBSET Bufs]
  BY <1>4 DEF Types, Owners
<1>6. \/ refcnt' = refcnt
      \/ refcnt' = [refcnt EXCEPT ![c] = Byte(@ + 1)]
      \/ refcnt' = [refcnt EXCEPT ![c] = Byte(@ + 255)]
  BY DEF buf_done, dispatch_app_data, buf_done_decrement, qbuf, qbuf_ioctl, qbuf_failed, mark_in_kernel
<1>7. refcnt' \in [Bufs -> 0 .. 255]
  BY <1>6, CountTyped DEF Types
<1> QED BY <1>1, <1>3, <1>5, <1>7 DEF Types

LEMMA LifeTypes ==
  ASSUME Types, reg_buf \/ start \/ start_fails \/ stop_del \/ Stop \/ unreg_buf \/ link
  PROVE  Types'
<1>1. CASE reg_buf
  <2>1. held' \in [Owners -> SUBSET Bufs] /\ refcnt' \in [Bufs -> 0 .. 255]
    BY <1>1 DEF reg_buf, Types, Owners, Bit
  <2> QED BY <1>1, <2>1, StreamBufAssumption DEF reg_buf, Types
<1>2. CASE unreg_buf
  BY <1>2 DEF unreg_buf, Types
<1>3. CASE start \/ start_fails \/ stop_del \/ Stop \/ link
  <2>1. /\ refcnt' = refcnt /\ held' = held /\ done' = done /\ poll' = poll /\ kernel' \subseteq kernel
        /\ st' \in {"BUFFED", "REG", "ACTIVE", "OFF"} /\ ctl' \in {"idle", "del", "off", "join"}
        /\ linked' \in BOOLEAN /\ cmdActive' \in BOOLEAN
    BY <1>3, StreamBufAssumption
    DEF start, start_fails, stop_del, Stop, stop_waited, streamoff, cmd_thread_release, link, Types
  <2> QED BY <2>1 DEF Types
<1> QED BY <1>1, <1>2, <1>3

LEMMA NotifyLife ==
  ASSUME Ind, NEW c \in Bufs,
         \/ read_msm_frame(c) \/ read_counts(c) \/ read_fails(c) \/ data_notify(c)
         \/ notify_channel(c) \/ notify_linked(c) \/ notify_cmd_thread(c)
  PROVE  Life'
<1>1. /\ st' = st /\ ctl' = ctl /\ linked' = linked /\ cmdActive' = cmdActive /\ done' = done
      /\ kernel' \subseteq kernel
  BY DEF read_msm_frame, read_counts, read_fails, data_notify, notify_channel, notify_linked, notify_cmd_thread
<1>2. st \notin {"BUFFED", "REG"}
  BY Apart DEF Ind, Life, read_msm_frame, read_counts, read_fails, data_notify, notify_channel, notify_linked, notify_cmd_thread
<1>3. st # "ACTIVE" => held'["cmd"] = {}
  <2>1. CASE notify_cmd_thread(c)
    BY <2>1 DEF Ind, Life, notify_cmd_thread
  <2>2. CASE ~notify_cmd_thread(c)
    <3>1. held' = held \/ give("chan", c) \/ give("link", c)
      BY <2>2 DEF read_msm_frame, read_counts, read_fails, data_notify, notify_channel, notify_linked
    <3> QED BY <3>1 DEF Ind, Life, Types, give, Owners
  <2> QED BY <2>1, <2>2
<1> QED BY <1>1, <1>2, <1>3 DEF Ind, Life, OthersIdle

LEMMA DoneLife ==
  ASSUME Quiet, Ind, NEW h \in Owners, NEW c \in Bufs, Done(h, c) \/ (h = "cmd" /\ dispatch_app_data(c))
  PROVE  Life'
<1> USE DEF Done
<1>1. /\ st' = st /\ ctl' = ctl /\ linked' = linked /\ cmdActive' = cmdActive /\ poll' = poll
  BY DEF buf_done, dispatch_app_data, buf_done_decrement, qbuf, qbuf_ioctl, qbuf_failed, mark_in_kernel
<1>2. \E s : done' = [done EXCEPT ![h] = s]
  BY DEF buf_done, dispatch_app_data, buf_done_decrement, qbuf, qbuf_ioctl, qbuf_failed, mark_in_kernel
<1>3. \A g \in Owners \ {h} : done'[g] = done[g]
  BY <1>2 DEF Ind, Types
<1>4. st = "ACTIVE"
  <2>1. done[h] # Idle \/ held["cmd"] # {} \/ st = "ACTIVE"
    BY Apart DEF buf_done, dispatch_app_data, buf_done_decrement, qbuf, qbuf_ioctl, qbuf_failed, mark_in_kernel
  <2> QED BY <2>1 DEF Ind, Life
<1>5. h = "cmd" \/ ctl = "idle"
  <2>1. done[h] # Idle \/ h = "cmd" \/ ctl = "idle"
    BY Apart DEF buf_done, dispatch_app_data, buf_done_decrement, qbuf, qbuf_ioctl, qbuf_failed, mark_in_kernel
  <2> QED BY <2>1 DEF Ind, Life, OthersIdle, Others
<1>6. ctl' # "idle" => OthersIdle'
  BY <1>1, <1>3, <1>5 DEF Ind, Life, OthersIdle, Others
<1> QED BY <1>1, <1>4, <1>6 DEF Ind, Life

LEMMA LifeLife ==
  ASSUME Quiet, Ind, reg_buf \/ start \/ start_fails \/ stop_del \/ Stop \/ unreg_buf \/ link
  PROVE  Life'
<1>1. done' = done /\ poll' = poll
  BY DEF reg_buf, start, start_fails, stop_del, Stop, stop_waited, streamoff, cmd_thread_release, unreg_buf, link
<1>2. OthersIdle' <=> OthersIdle
  BY <1>1 DEF OthersIdle
<1>3. CASE reg_buf
  BY <1>1, <1>2, <1>3 DEF Ind, Life, Types, reg_buf, Owners
<1>4. CASE start
  BY <1>1, <1>2, <1>4 DEF Ind, Life, start
<1>5. CASE start_fails
  BY <1>1, <1>2, <1>5 DEF Ind, Life, start_fails
<1>6. CASE stop_del
  BY <1>1, <1>2, <1>6 DEF Ind, Life, stop_del
<1>7. CASE stop_waited \/ streamoff
  BY <1>1, <1>2, <1>7 DEF Ind, Life, stop_waited, streamoff
<1>8. CASE cmd_thread_release
  <2>1. \A g \in Owners : done[g] = Idle
    BY <1>8 DEF Ind, Life, cmd_thread_release, OthersIdle, Others
  <2> QED BY <1>1, <1>2, <1>8, <2>1 DEF Ind, Life, cmd_thread_release
<1>9. CASE unreg_buf
  BY <1>1, <1>2, <1>9 DEF Ind, Life, unreg_buf, Owners
<1>10. CASE link
  BY <1>1, <1>2, <1>10 DEF Ind, Life, link
<1> QED BY <1>3, <1>4, <1>5, <1>6, <1>7, <1>8, <1>9, <1>10 DEF Stop

LEMMA Begins ==
  ASSUME Init
  PROVE  Ind
<1>1. Types /\ Life
  <2>1. Idle \in {Idle} \cup [at : Places, b : Bufs] /\ Idle \in {Idle} \cup [at : Steps, b : Bufs]
    OBVIOUS
  <2>2. refcnt \in [Bufs -> 0 .. 255]
    BY DEF Init
  <2>3. Types
    BY <2>1, <2>2 DEF Init, Types
  <2>4. Life
    BY DEF Init, Life, OthersIdle, Others, Owners
  <2> QED BY <2>3, <2>4
<1>2. ASSUME NEW b \in Bufs PROVE Buffer(b)
  <2>1. /\ \A p \in Places : ~PollAt(p, b)
        /\ \A h \in Owners : ~Holds(h, b) /\ ~Checks(h, b) /\ ~Returns(h, b)
    BY Apart DEF Init, PollAt, Holds, Checks, Returns, Places
  <2>2. pending(b) = 0
    BY <2>1, Pending DEF Places
  <2>3. Counted(b)
    BY <2>1, <2>2 DEF Init, Counted, Owners, Bit
  <2> QED BY <2>1, <2>3 DEF Init, Buffer, OnePlace, Handed, Unused, Early, Late, Owners, Places
<1> QED BY <1>1, <1>2 DEF Ind

LEMMA NextKeeps ==
  ASSUME Quiet, Ind, [Next]_vars
  PROVE  Ind'
<1>1. CASE UNCHANGED vars
  <2>1. Types' /\ Life'
    BY <1>1 DEF vars, Ind, Types, Life, OthersIdle
  <2>2. ASSUME NEW b \in Bufs PROVE Buffer(b)'
    BY <1>1, Same DEF vars, Ind, PollAt, Holds, Checks, Returns
  <2> QED BY <2>1, <2>2 DEF Ind
<1>2. CASE Next
  <2>1. Types' /\ Life'
    <3>1. CASE Notify
      BY <3>1, NotifyTypes, NotifyLife DEF Notify, Ind
    <3>2. CASE \E c \in Bufs : dispatch_app_data(c)
      BY <3>2, DoneTypes, DoneLife DEF Ind, Owners
    <3>3. CASE \E c \in Bufs, h \in Owners : Done(h, c)
      BY <3>3, DoneTypes, DoneLife DEF Ind
    <3>4. CASE reg_buf \/ start \/ start_fails \/ stop_del \/ Stop \/ unreg_buf \/ link
      BY <3>4, LifeTypes, LifeLife DEF Ind
    <3> QED BY <1>2, <3>1, <3>2, <3>3, <3>4 DEF Next
  <2> QED BY <1>2, <2>1, BufferStep DEF Ind
<1> QED BY <1>1, <1>2

\* buf_refcnt is the number of its owners who are to give the buffer back.
LEMMA CountedIsOwed ==
  ASSUME Ind
  PROVE  RefcntIsOwed
<1>1. ASSUME st = "ACTIVE", NEW b \in Bufs
      PROVE refcnt[b] = pending(b)
                        + Cardinality({h \in Owners : b \in held[h]})
                        + Cardinality({h \in Owners : done[h] = At("checked", b)})
  <2> DEFINE H == {h \in Owners : b \in held[h]}
             C == {h \in Owners : done[h] = At("checked", b)}
  <2>1. Cardinality(H) = Count(H) /\ Cardinality(C) = Count(C)
    BY OwnersCount
  <2>2. Count(H) = Bit(Holds("cmd", b)) + Bit(Holds("chan", b)) + Bit(Holds("link", b)) + Bit(Holds("app", b))
    BY DEF Count, Holds, Owners, Bit
  <2>3. Count(C) = Bit(Checks("cmd", b)) + Bit(Checks("chan", b)) + Bit(Checks("link", b)) + Bit(Checks("app", b))
    BY DEF Count, Checks, Owners, Bit
  <2>4. Counted(b)
    BY <1>1 DEF Ind, Buffer
  <2> HIDE DEF H, C
  <2>5. refcnt[b] = pending(b) + Cardinality(H) + Cardinality(C)
    BY <2>1, <2>2, <2>3, <2>4 DEF Counted
  <2> QED BY <2>5 DEF H, C
<1>2. ASSUME NEW b \in kernel PROVE refcnt[b] = 0 /\ \A h \in Owners : b \notin held[h]
  <2>1. refcnt[b] = 0 /\ Unused(b)
    BY <1>2 DEF Ind, Types, Buffer, OnePlace
  <2> QED BY <2>1 DEF Unused, Holds
<1> QED BY <1>1, <1>2 DEF RefcntIsOwed

\* Every reference that buf_refcnt counts while the stream runs is held by
\* somebody who will return it, and the driver has no buffer in use, for any
\* number of buffers and every kind of stream (mm_stream_data_notify,
\* mm_stream_buf_done).
THEOREM RefcntIsOwedAlways ==
  ASSUME Quiet
  PROVE  Spec => []RefcntIsOwed
<1>1. Init => Ind
  BY Begins
<1>2. Ind /\ [Next]_vars => Ind'
  BY NextKeeps
<1>3. Ind => RefcntIsOwed
  BY CountedIsOwed
<1> QED BY <1>1, <1>2, <1>3, PTL DEF Spec

-----------------------------------------------------------------------------
(* queued_buffer_count and the entry in the poll thread.                     *)

Reading == poll.at = "read"
Offers(h) == done[h].at \in {"ioctl", "failed"}
Offering == Bit(Offers("cmd")) + Bit(Offers("chan")) + Bit(Offers("link")) + Bit(Offers("app"))

\* When the count is kept, and when the polling goes by it.
Counting == st = "REG" \/ (st = "ACTIVE" /\ ctl # "join")
Polling == st = "REG" \/ (st = "ACTIVE" /\ ctl = "idle")

Queue ==
  /\ count \in Int /\ polled \in BOOLEAN
  /\ Counting => count = Cardinality(kernel) + Bit(Reading) + Offering
  /\ Polling => (count > 0 => polled) /\ (polled => count > 0 \/ InitialRegs = {})

LEMMA KernelIsFinite ==
  ASSUME Types
  PROVE  IsFiniteSet(kernel) /\ Cardinality(kernel) \in Nat
BY StreamBufAssumption, FS_Subset, FS_CardinalityType DEF Types

LEMMA OffersNext ==
  ASSUME Types, NEW h \in Owners, NEW s, done' = [done EXCEPT ![h] = s]
  PROVE  /\ Offers(h)' <=> s.at \in {"ioctl", "failed"}
         /\ \A g \in Owners \ {h} : Offers(g)' <=> Offers(g)
BY DEF Types, Offers

LEMMA OffersGoes ==
  ASSUME Types, NEW h \in Owners, NEW p, NEW c, done' = [done EXCEPT ![h] = At(p, c)]
  PROVE  /\ Offers(h)' <=> p \in {"ioctl", "failed"}
         /\ \A g \in Owners \ {h} : Offers(g)' <=> Offers(g)
<1>1. At(p, c).at = p
  BY Apart
<1> QED BY <1>1, OffersNext

LEMMA OffersRests ==
  ASSUME Types, NEW h \in Owners, done' = [done EXCEPT ![h] = Idle]
  PROVE  /\ ~Offers(h)'
         /\ \A g \in Owners \ {h} : Offers(g)' <=> Offers(g)
<1>1. Idle.at \notin {"ioctl", "failed"}
  BY Apart
<1> QED BY <1>1, OffersNext

\* A step that is about none of these.
LEMMA QueueSame ==
  ASSUME Queue, kernel' = kernel, count' = count, polled' = polled, Reading' <=> Reading,
         \A h \in Owners : Offers(h)' <=> Offers(h), Counting' => Counting, Polling' => Polling
  PROVE  Queue'
<1>1. Offering' = Offering
  BY DEF Offering, Owners, Bit
<1> QED BY <1>1 DEF Queue, Bit

LEMMA NotifyQueue ==
  ASSUME Ind, Queue, NEW c \in Bufs,
         \/ read_msm_frame(c) \/ read_counts(c) \/ read_fails(c) \/ data_notify(c)
         \/ notify_channel(c) \/ notify_linked(c) \/ notify_cmd_thread(c)
  PROVE  Queue'
<1>1. Offering' = Offering /\ (\A h \in Owners : Offers(h)' <=> Offers(h)) /\ Offering \in Nat
  BY DEF read_msm_frame, read_counts, read_fails, data_notify, notify_channel, notify_linked, notify_cmd_thread,
         Offering, Offers, Bit
<1>2. (Counting' <=> Counting) /\ (Polling' <=> Polling)
  BY DEF read_msm_frame, read_counts, read_fails, data_notify, notify_channel, notify_linked, notify_cmd_thread,
         Counting, Polling
<1>3. CASE read_msm_frame(c)
  <2>1. ~Reading /\ Reading'
    BY <1>3, Apart DEF read_msm_frame, Reading
  <2>2. Cardinality(kernel') = Cardinality(kernel) - 1
    BY <1>3, KernelIsFinite, FS_RemoveElement DEF Ind, read_msm_frame
  <2>3. count' = count /\ polled' = polled
    BY <1>3 DEF read_msm_frame
  <2>4. Cardinality(kernel) \in Nat
    BY KernelIsFinite DEF Ind
  <2> QED BY <1>1, <1>2, <2>1, <2>2, <2>3, <2>4 DEF Queue, Bit
<1>4. CASE read_counts(c)
  <2>1. Reading /\ ~Reading'
    BY <1>4, Apart DEF read_counts, Reading
  <2>2. count' = count - 1 /\ polled' = (polled /\ count' # 0) /\ kernel' = kernel
    BY <1>4 DEF read_counts
  <2>3. Cardinality(kernel) \in Nat
    BY KernelIsFinite DEF Ind
  <2>4. /\ Counting' => count' = Cardinality(kernel') + Bit(Reading') + Offering'
        /\ Counting => count > 0
    BY <1>1, <1>2, <2>1, <2>2, <2>3 DEF Queue, Bit
  <2>5. Polling => Counting
    BY DEF Polling, Counting
  <2>6. Polling => (count' > 0 => polled') /\ (polled' => count' > 0 \/ InitialRegs = {})
    <3>1. Polling => (count > 0 /\ (count' > 0 <=> count' # 0))
      BY <2>2, <2>4, <2>5 DEF Queue
    <3> QED BY <2>2, <3>1, Zenon DEF Queue
  <2> QED BY <1>2, <2>2, <2>4, <2>6 DEF Queue
<1>5. CASE read_fails(c) \/ data_notify(c) \/ notify_channel(c) \/ notify_linked(c) \/ notify_cmd_thread(c)
  <2>1. ~Reading /\ ~Reading'
    BY <1>5, Apart DEF read_fails, data_notify, notify_channel, notify_linked, notify_cmd_thread, Reading
  <2>2. kernel' = kernel /\ count' = count /\ polled' = polled
    BY <1>5 DEF read_fails, data_notify, notify_channel, notify_linked, notify_cmd_thread
  <2> QED BY <1>1, <1>2, <2>1, <2>2, QueueSame
<1> QED BY <1>3, <1>4, <1>5

\* One owner begins or ends to offer a buffer.
LEMMA OfferingNext ==
  ASSUME NEW h \in Owners, \A g \in Owners \ {h} : Offers(g)' <=> Offers(g)
  PROVE  /\ Offering' = Offering - Bit(Offers(h)) + Bit(Offers(h)')
         /\ Offering \in Nat /\ Offering >= Bit(Offers(h))
BY DEF Offering, Owners, Bit

LEMMA DoneQueue ==
  ASSUME Ind, Queue, NEW h \in Owners, NEW c \in Bufs, Done(h, c) \/ (h = "cmd" /\ dispatch_app_data(c))
  PROVE  Queue'
<1> USE DEF Done
<1>1. /\ Reading' <=> Reading
      /\ Counting' <=> Counting
      /\ Polling' <=> Polling
  BY DEF buf_done, dispatch_app_data, buf_done_decrement, qbuf, qbuf_ioctl, qbuf_failed, mark_in_kernel,
         Reading, Counting, Polling
<1>2. Cardinality(kernel) \in Nat /\ (Polling => Counting)
  BY KernelIsFinite DEF Ind, Polling, Counting
<1>3. CASE buf_done(h, c) \/ (h = "cmd" /\ dispatch_app_data(c)) \/ buf_done_decrement(h, c) \/ mark_in_kernel(h, c)
  <2>1. kernel' = kernel /\ count' = count /\ polled' = polled
    BY <1>3 DEF buf_done, dispatch_app_data, buf_done_decrement, mark_in_kernel
  <2>2. ~Offers(h)
    BY <1>3, Apart DEF buf_done, dispatch_app_data, buf_done_decrement, mark_in_kernel, Offers
  <2>3. PICK s : done' = [done EXCEPT ![h] = s] /\ s.at \notin {"ioctl", "failed"}
    <3>1. \E s \in {Idle, At("checked", c), At("qbuf", c)} : done' = [done EXCEPT ![h] = s]
      BY <1>3 DEF buf_done, dispatch_app_data, buf_done_decrement, mark_in_kernel
    <3>2. \A s \in {Idle, At("checked", c), At("qbuf", c)} : s.at \notin {"ioctl", "failed"}
      BY Apart
    <3> QED BY <3>1, <3>2
  <2>4. ~Offers(h)' /\ \A g \in Owners \ {h} : Offers(g)' <=> Offers(g)
    BY <2>3, OffersNext DEF Ind
  <2> QED BY <1>1, <2>1, <2>2, <2>4, QueueSame
<1>4. CASE qbuf(h, c)
  <2>1. ~Offers(h) /\ kernel' = kernel
    BY <1>4, Apart DEF qbuf, Offers
  <2>2. CASE /\ done' = [done EXCEPT ![h] = At("ioctl", c)]
             /\ count' = count + 1 /\ polled' = (polled \/ count' = 1)
    <3>1. Offers(h)' /\ \A g \in Owners \ {h} : Offers(g)' <=> Offers(g)
      BY <2>2, OffersGoes DEF Ind
    <3>2. Offering' = Offering + 1 /\ Offering \in Nat
      BY <2>1, <3>1, OfferingNext DEF Bit
    <3>3. /\ Counting' => count' = Cardinality(kernel') + Bit(Reading') + Offering'
          /\ Counting => count >= 0
      BY <1>1, <1>2, <2>1, <2>2, <3>2 DEF Queue, Bit
    <3>4. Polling' => (count' > 0 => polled') /\ (polled' => count' > 0 \/ InitialRegs = {})
      <4>1. Polling => (count >= 0 /\ (count' > 0 <=> count > 0 \/ count' = 1))
        BY <1>2, <2>2, <3>3 DEF Queue
      <4> QED BY <1>1, <2>2, <4>1, Zenon DEF Queue
    <3> QED BY <2>1, <2>2, <3>3, <3>4 DEF Queue
  <2>3. CASE done' = [done EXCEPT ![h] = Idle] /\ UNCHANGED <<count, polled>>
    <3>1. ~Offers(h)' /\ \A g \in Owners \ {h} : Offers(g)' <=> Offers(g)
      BY <2>3, OffersRests DEF Ind
    <3> QED BY <1>1, <2>1, <2>3, <3>1, QueueSame
  <2> QED BY <1>4, <2>2, <2>3 DEF qbuf
<1>5. CASE qbuf_ioctl(h, c)
  <2>1. Offers(h)
    BY <1>5, Apart DEF qbuf_ioctl, Offers
  <2>2. count' = count /\ polled' = polled
    BY <1>5 DEF qbuf_ioctl
  <2>3. CASE kernel' = kernel \cup {c} /\ done' = [done EXCEPT ![h] = At("queued", c)]
    <3>1. c \notin kernel
      BY <1>5 DEF Ind, Buffer, OnePlace, Returns, qbuf_ioctl
    <3>2. Cardinality(kernel') = Cardinality(kernel) + 1
      BY <2>3, <3>1, KernelIsFinite, FS_AddElement DEF Ind
    <3>3. ~Offers(h)' /\ \A g \in Owners \ {h} : Offers(g)' <=> Offers(g)
      <4>1. done' = [done EXCEPT ![h] = At("queued", c)] /\ Types
        BY <2>3 DEF Ind
      <4>2. ~("queued" \in {"ioctl", "failed"})
        OBVIOUS
      <4>3. Offers(h)' <=> "queued" \in {"ioctl", "failed"}
        BY <4>1, OffersGoes
      <4>4. \A g \in Owners \ {h} : Offers(g)' <=> Offers(g)
        BY <4>1, OffersGoes
      <4> QED BY <4>2, <4>3, <4>4
    <3>4. Offering' = Offering - 1 /\ Offering \in Nat
      BY <2>1, <3>3, OfferingNext DEF Bit
    <3> QED BY <1>1, <1>2, <2>2, <3>2, <3>4 DEF Queue, Bit
  <2>4. CASE kernel' = kernel /\ done' = [done EXCEPT ![h] = At("failed", c)]
    <3>1. Offers(h)' /\ \A g \in Owners \ {h} : Offers(g)' <=> Offers(g)
      BY <2>4, OffersGoes DEF Ind
    <3> QED BY <1>1, <2>1, <2>2, <2>4, <3>1, QueueSame
  <2> QED BY <1>5, <2>3, <2>4 DEF qbuf_ioctl
<1>6. CASE qbuf_failed(h, c)
  <2>1. Offers(h) /\ done' = [done EXCEPT ![h] = Idle]
    BY <1>6, Apart DEF qbuf_failed, Offers
  <2>2. ~Offers(h)' /\ \A g \in Owners \ {h} : Offers(g)' <=> Offers(g)
    BY <2>1, OffersRests DEF Ind
  <2>3. kernel' = kernel /\ count' = count - 1 /\ polled' = (polled /\ count' # 0)
    BY <1>6 DEF qbuf_failed
  <2>4. Offering' = Offering - 1 /\ Offering \in Nat /\ Offering >= 1
    BY <2>1, <2>2, OfferingNext DEF Bit
  <2>5. /\ Counting' => count' = Cardinality(kernel') + Bit(Reading') + Offering'
        /\ Counting => count > 0
    BY <1>1, <1>2, <2>3, <2>4 DEF Queue, Bit
  <2>6. Polling' => (count' > 0 => polled') /\ (polled' => count' > 0 \/ InitialRegs = {})
    <3>1. Polling => (count > 0 /\ (count' > 0 <=> count' # 0))
      BY <1>2, <2>3, <2>5 DEF Queue
    <3> QED BY <1>1, <2>3, <3>1, Zenon DEF Queue
  <2> QED BY <2>3, <2>5, <2>6 DEF Queue
<1> QED BY <1>3, <1>4, <1>5, <1>6

LEMMA LifeQueue ==
  ASSUME Ind, Queue,
         reg_buf \/ start \/ start_fails \/ stop_del \/ Stop \/ unreg_buf \/ link
  PROVE  Queue'
<1>1. /\ Reading' <=> Reading
      /\ \A h \in Owners : Offers(h)' <=> Offers(h)
  BY DEF reg_buf, start, start_fails, stop_del, Stop, stop_waited, streamoff, cmd_thread_release,
         unreg_buf, link, Reading, Offers
<1>2. CASE reg_buf
  <2>1. ~Reading /\ \A h \in Owners : ~Offers(h)
    BY <1>2, Apart DEF reg_buf, Ind, Life, Reading, Offers
  <2>2. Offering' = 0
    BY <1>1, <2>1 DEF Offering, Owners, Bit
  <2>3. IsFiniteSet(InitialRegs)
    BY StreamBufAssumption, FS_Subset
  <2>4. Cardinality(InitialRegs) \in Nat /\ (Cardinality(InitialRegs) > 0 <=> InitialRegs # {})
    BY <2>3, FS_CardinalityType, FS_EmptySet
  <2>5. /\ kernel' = InitialRegs /\ count' = Cardinality(InitialRegs)
        /\ polled' = (polled \/ InitialRegs # {})
    BY <1>2 DEF reg_buf
  <2>6. (count' > 0 => polled') /\ (polled' => count' > 0 \/ InitialRegs = {}) /\ polled' \in BOOLEAN
    BY <2>4, <2>5 DEF Queue
  <2>7. count' = Cardinality(kernel') + Bit(Reading') + Offering'
    BY <1>1, <2>1, <2>2, <2>4, <2>5 DEF Bit
  <2> QED BY <2>4, <2>5, <2>6, <2>7 DEF Queue
<1>3. CASE start \/ link \/ stop_waited
  <2>1. /\ kernel' = kernel /\ count' = count /\ polled' = polled
        /\ Counting' => Counting
        /\ Polling' => Polling
    BY <1>3 DEF start, link, stop_waited, Counting, Polling
  <2> QED BY <1>1, <2>1, QueueSame
<1>4. CASE stop_del
  <2>1. Counting /\ ~Polling' /\ kernel' = kernel /\ count' = count /\ polled' = FALSE
    BY <1>4 DEF stop_del, Counting, Polling
  <2>2. Offering' = Offering
    BY <1>1 DEF Offering, Owners, Bit
  <2> QED BY <1>1, <2>1, <2>2 DEF Queue, Bit
<1>5. CASE start_fails \/ streamoff \/ cmd_thread_release \/ unreg_buf
  <2>1. ~Counting' /\ ~Polling' /\ count' = count /\ polled' \in {polled, FALSE}
    BY <1>5 DEF start_fails, streamoff, cmd_thread_release, unreg_buf, Counting, Polling, Ind, Life
  <2> QED BY <2>1 DEF Queue
<1> QED BY <1>2, <1>3, <1>4, <1>5 DEF Stop

LEMMA QueueKeeps ==
  ASSUME Ind, Queue, [Next]_vars
  PROVE  Queue'
<1>1. CASE UNCHANGED vars
  BY <1>1, QueueSame DEF vars, Reading, Offers, Counting, Polling
<1>2. CASE Notify
  BY <1>2, NotifyQueue DEF Notify
<1>3. CASE \E c \in Bufs : dispatch_app_data(c)
  BY <1>3, DoneQueue DEF Owners
<1>4. CASE \E c \in Bufs, h \in Owners : Done(h, c)
  BY <1>4, DoneQueue
<1>5. CASE reg_buf \/ start \/ start_fails \/ stop_del \/ Stop \/ unreg_buf \/ link
  BY <1>5, LifeQueue
<1> QED BY <1>1, <1>2, <1>3, <1>4, <1>5 DEF Next

LEMMA QueueIsPolled ==
  ASSUME Queue
  PROVE  PolledWhileQueued
<1> DEFINE O == {h \in Owners : done[h].at \in {"ioctl", "failed"}}
<1>1. Cardinality(O) = Count(O)
  BY OwnersCount
<1>2. Count(O) = Offering
  BY DEF Count, Offering, Offers, Owners, Bit
<1>3. ASSUME st = "ACTIVE", ctl \in {"idle", "del", "off"}
      PROVE  count = Cardinality(kernel) + Bit(poll.at = "read") + Cardinality(O)
  <2>1. Counting
    BY <1>3 DEF Counting
  <2> HIDE DEF O
  <2> QED BY <1>1, <1>2, <2>1 DEF Queue, Reading
<1>4. st = "ACTIVE" /\ ctl = "idle" =>
        (count > 0 => polled) /\ (polled => count > 0 \/ InitialRegs = {})
  BY DEF Queue, Polling
<1> QED BY <1>3, <1>4 DEF PolledWhileQueued

\* queued_buffer_count is the number of buffers with the driver or on their way
\* in or out, and a running stream is polled when there are any, for any number
\* of buffers, with the driver at first or not; one that is registered with a
\* buffer is polled only then (mm_stream_read_msm_frame, mm_stream_qbuf).
THEOREM PolledWhileQueuedAlways ==
  ASSUME Quiet
  PROVE  Spec => []PolledWhileQueued
<1>1. Init => Ind /\ Queue
  <2>1. ASSUME Init PROVE Queue
    <3>1. ~Counting /\ ~Polling /\ count = 0 /\ polled = FALSE
      BY <2>1 DEF Init, Counting, Polling
    <3>2. count \in Int
      BY <3>1
    <3> QED BY <3>1, <3>2, Zenon DEF Queue
  <2> QED BY <2>1, Begins
<1>2. Ind /\ Queue /\ [Next]_vars => Ind' /\ Queue'
  BY NextKeeps, QueueKeeps
<1>3. Queue => PolledWhileQueued
  BY QueueIsPolled
<1> QED BY <1>1, <1>2, <1>3, PTL DEF Spec

-----------------------------------------------------------------------------
(* The range of queued_buffer_count, from one session to the next.           *)

DoneAt(h, p, b) == done[h] = At(p, b)

\* A buffer that must be in the count, and one that cannot be: it is on its way
\* to somebody, in use, or not yet offered to the driver again.
Booked(b) == b \in kernel \/ PollAt("read", b) \/ \E h \in Owners : DoneAt(h, "ioctl", b) \/ DoneAt(h, "failed", b)
Loose(b) == PollAt("counted", b) \/ Late(b) \/ \E h \in Owners : Holds(h, b) \/ Checks(h, b) \/ DoneAt(h, "qbuf", b)

\* A buffer that the driver refused is with the owner who offered it alone.
Alone(b) ==
  \A h \in Owners : DoneAt(h, "failed", b) =>
    /\ b \notin kernel /\ Unused(b) /\ ~Early(b) /\ ~Late(b)
    /\ \A g \in Owners : ~Returns(g, b) /\ (g # h => ~DoneAt(g, "failed", b))

\* The count is that of a set of buffers; those that STREAMOFF took from the
\* driver stay in it until the buffers are registered again.
Book(L) ==
  /\ L \subseteq Bufs /\ count = Cardinality(L)
  /\ \A b \in Bufs : (Booked(b) => b \in L) /\ (Loose(b) => b \notin L)
Books ==
  /\ inKernel \subseteq Bufs /\ polled \in BOOLEAN
  /\ \A b \in Bufs : Alone(b)
  /\ \E L : Book(L)

LEMMA DoneMoves ==
  ASSUME Types, NEW h \in Owners, NEW p, NEW c, p # "idle",
         done' = [done EXCEPT ![h] = At(p, c)], NEW b
  PROVE  /\ \A q : DoneAt(h, q, b)' <=> p = q /\ b = c
         /\ \A q : \A g \in Owners \ {h} : DoneAt(g, q, b)' <=> DoneAt(g, q, b)
BY Apart DEF DoneAt, Types

LEMMA DoneEnds ==
  ASSUME Types, NEW h \in Owners, done' = [done EXCEPT ![h] = Idle], NEW b
  PROVE  /\ \A q : q # "idle" => ~DoneAt(h, q, b)'
         /\ \A q : \A g \in Owners \ {h} : DoneAt(g, q, b)' <=> DoneAt(g, q, b)
BY Apart DEF DoneAt, Types

LEMMA DoneIs ==
  ASSUME NEW h \in Owners, NEW p, NEW c, done[h] = At(p, c), NEW b
  PROVE  \A q : DoneAt(h, q, b) <=> p = q /\ b = c
BY Apart DEF DoneAt

\* Only what is read, offered or freed changes the count.
LEMMA SameBook ==
  ASSUME Books, count' = count,
         \A b \in Bufs : (Booked(b)' => Booked(b)) /\ (Loose(b)' => Loose(b))
  PROVE  \E L : Book(L)'
<1>1. PICK L : Book(L)
  BY DEF Books
<1> QED BY <1>1 DEF Book

LEMMA LessBook ==
  ASSUME Books, NEW c \in Bufs, Booked(c), count' = count - 1, ~Booked(c)',
         \A b \in Bufs \ {c} : (Booked(b)' => Booked(b)) /\ (Loose(b)' => Loose(b))
  PROVE  \E L : Book(L)'
<1>1. PICK L : Book(L)
  BY DEF Books
<1>2. c \in L /\ IsFiniteSet(L)
  BY <1>1, StreamBufAssumption, FS_Subset DEF Book
<1>3. Cardinality(L \ {c}) = Cardinality(L) - 1
  BY <1>2, FS_RemoveElement
<1>4. Book(L \ {c})'
  BY <1>1, <1>3 DEF Book
<1> QED BY <1>4

LEMMA MoreBook ==
  ASSUME Books, NEW c \in Bufs, Loose(c), count' = count + 1, ~Loose(c)',
         \A b \in Bufs \ {c} : (Booked(b)' => Booked(b)) /\ (Loose(b)' => Loose(b))
  PROVE  \E L : Book(L)'
<1>1. PICK L : Book(L)
  BY DEF Books
<1>2. c \notin L /\ IsFiniteSet(L)
  BY <1>1, StreamBufAssumption, FS_Subset DEF Book
<1>3. Cardinality(L \cup {c}) = Cardinality(L) + 1
  BY <1>2, FS_AddElement
<1>4. Book(L \cup {c})'
  BY <1>1, <1>3 DEF Book
<1> QED BY <1>4

\* The poll thread's steps.
LEMMA NotifyBooks ==
  ASSUME Ind, Books, NEW c \in Bufs,
         \/ read_msm_frame(c) \/ read_counts(c) \/ read_fails(c) \/ data_notify(c)
         \/ notify_channel(c) \/ notify_linked(c) \/ notify_cmd_thread(c)
  PROVE  Books'
<1>1. inKernel' \subseteq Bufs /\ polled' \in BOOLEAN /\ done' = done
  BY DEF read_msm_frame, read_counts, read_fails, data_notify, notify_channel, notify_linked, notify_cmd_thread, Books
<1>2. \A b, h : \A q : /\ DoneAt(h, q, b)' <=> DoneAt(h, q, b)
                       /\ Checks(h, b)' <=> Checks(h, b)
                       /\ Returns(h, b)' <=> Returns(h, b)
  BY <1>1 DEF DoneAt, Checks, Returns
<1>3. CASE read_msm_frame(c)
  <2>1. ASSUME NEW b \in Bufs
        PROVE  /\ \A p \in Places : (PollAt(p, b)' <=> p = "read" /\ b = c) /\ ~PollAt(p, b)
               /\ \A h : Holds(h, b)' <=> Holds(h, b)
    BY <1>3, PollMoves, Apart DEF read_msm_frame, PollAt, Holds, Places
  <2>2. c \in kernel /\ kernel' = kernel \ {c} /\ count' = count
    BY <1>3 DEF read_msm_frame
  <2>3. \A b \in Bufs : (Booked(b)' => Booked(b)) /\ (Loose(b)' => Loose(b))
    BY <1>2, <2>1, <2>2 DEF Booked, Loose, Late, Places
  <2>4. \A b \in Bufs : Alone(b)'
    BY <1>2, <2>1, <2>2 DEF Books, Alone, Unused, Early, Late, Places
  <2> QED BY <1>1, <2>2, <2>3, <2>4, SameBook DEF Books
<1>4. CASE read_counts(c)
  <2>1. ASSUME NEW b \in Bufs
        PROVE  /\ \A p \in Places : PollAt(p, b)' <=> p = "counted" /\ b = c
               /\ \A p \in Places : PollAt(p, b) <=> p = "read" /\ b = c
               /\ \A h : Holds(h, b)' <=> Holds(h, b)
    BY <1>4, PollMoves, PollIs DEF read_counts, Holds, Places
  <2>2. kernel' = kernel /\ count' = count - 1
    BY <1>4 DEF read_counts
  <2>3. Booked(c) /\ c \notin kernel /\ \A h \in Owners : ~Returns(h, c)
    BY <2>1 DEF Booked, Ind, Buffer, OnePlace, Early, Places
  <2>4. \A h \in Owners : ~DoneAt(h, "ioctl", c) /\ ~DoneAt(h, "failed", c)
    BY <2>1, <2>3 DEF Books, Alone, Early, Places, DoneAt, Returns
  <2>5. ~Booked(c)'
    BY <1>2, <2>1, <2>2, <2>3, <2>4 DEF Booked, Places
  <2>6. \A b \in Bufs \ {c} : (Booked(b)' => Booked(b)) /\ (Loose(b)' => Loose(b))
    BY <1>2, <2>1, <2>2 DEF Booked, Loose, Late, Places
  <2>7. \A b \in Bufs : Alone(b)'
    BY <1>2, <2>1, <2>2 DEF Books, Alone, Unused, Early, Late, Places
  <2> QED BY <1>1, <2>2, <2>3, <2>5, <2>6, <2>7, LessBook DEF Books
<1>5. CASE data_notify(c)
  <2>1. ASSUME NEW b \in Bufs
        PROVE  /\ \A p \in Places : PollAt(p, b)' <=> p = "ref" /\ b = c
               /\ \A p \in Places : PollAt(p, b) <=> p = "counted" /\ b = c
               /\ \A h : Holds(h, b)' <=> Holds(h, b)
    BY <1>5, PollMoves, PollIs DEF data_notify, Holds, Places
  <2>2. kernel' = kernel /\ count' = count
    BY <1>5 DEF data_notify
  <2>3. \A b \in Bufs : (Booked(b)' => Booked(b)) /\ (Loose(b)' => Loose(b))
    BY <1>2, <2>1, <2>2 DEF Booked, Loose, Late, Places
  <2>4. \A b \in Bufs : Alone(b)'
    BY <1>2, <2>1, <2>2 DEF Books, Alone, Unused, Early, Late, Places
  <2> QED BY <1>1, <2>2, <2>3, <2>4, SameBook DEF Books
<1>6. CASE read_fails(c)
  <2>1. ASSUME NEW b \in Bufs
        PROVE  /\ \A p \in Places : ~PollAt(p, b)'
               /\ \A h : Holds(h, b)' <=> Holds(h, b)
    BY <1>6, PollRests DEF read_fails, Holds, Places
  <2>2. kernel' = kernel /\ count' = count
    BY <1>6 DEF read_fails
  <2>3. \A b \in Bufs : (Booked(b)' => Booked(b)) /\ (Loose(b)' => Loose(b))
    BY <1>2, <2>1, <2>2 DEF Booked, Loose, Late, Places
  <2>4. \A b \in Bufs : Alone(b)'
    BY <1>2, <2>1, <2>2 DEF Books, Alone, Unused, Early, Late, Places
  <2> QED BY <1>1, <2>2, <2>3, <2>4, SameBook DEF Books
<1>7. CASE notify_channel(c) \/ notify_linked(c) \/ notify_cmd_thread(c)
  <2>1. /\ kernel' = kernel /\ count' = count
        /\ linked => HasCb
    BY <1>7, StreamBufAssumption DEF notify_channel, notify_linked, notify_cmd_thread, Ind, Life
  <2>2. PICK p \in {"ref", "link", "cb"} : poll = At(p, c) /\ p = (IF notify_channel(c) THEN "ref" ELSE IF notify_linked(c) THEN "link" ELSE "cb")
    BY <1>7 DEF notify_channel, notify_linked, notify_cmd_thread
  <2>3. ASSUME NEW b \in Bufs
        PROVE  \A q \in Places : PollAt(q, b) <=> q = p /\ b = c
    BY <2>2, PollIs DEF Places
  <2>4. ASSUME NEW b \in Bufs
        PROVE  \A q \in Places : PollAt(q, b)' => b = c /\ ((p = "ref" /\ q = "link") \/ (p = "link" /\ q = "cb"))
    <3>1. CASE notify_channel(c)
      BY <2>2, <3>1, PollMoves DEF notify_channel, Places
    <3>2. CASE notify_linked(c)
      <4>1. ~notify_channel(c)
        BY <3>2, Apart DEF notify_channel, notify_linked
      <4> QED BY <2>2, <3>2, <4>1, PollMoves DEF notify_linked, Places
    <3>3. CASE notify_cmd_thread(c)
      BY <3>3, PollRests DEF notify_cmd_thread
    <3> QED BY <1>7, <3>1, <3>2, <3>3
  <2>5. ASSUME NEW b \in Bufs, NEW h \in Owners, Holds(h, b)'
        PROVE  Holds(h, b) \/ (b = c /\ Late(b))
    <3>1. CASE notify_channel(c)
      BY <2>2, <2>3, <2>5, <3>1 DEF notify_channel, give, Ind, Types, Holds, Late, Places
    <3>2. CASE notify_linked(c)
      <4>1. ~notify_channel(c)
        BY <3>2, Apart DEF notify_channel, notify_linked
      <4> QED BY <2>1, <2>2, <2>3, <2>5, <3>2, <4>1 DEF notify_linked, give, Ind, Types, Holds, Late, Places
    <3>3. CASE notify_cmd_thread(c)
      <4>1. ~notify_channel(c) /\ ~notify_linked(c)
        BY <3>3, Apart DEF notify_channel, notify_linked, notify_cmd_thread
      <4> QED BY <2>2, <2>3, <2>5, <3>3, <4>1 DEF notify_cmd_thread, give, Ind, Types, Holds, Late, Places
    <3> QED BY <1>7, <3>1, <3>2, <3>3
  <2>6. \A b \in Bufs : Late(b)' => Late(b)
    BY <2>3, <2>4 DEF Late, Places
  <2>7. \A b \in Bufs : (Booked(b)' => Booked(b)) /\ (Loose(b)' => Loose(b))
    BY <1>2, <2>1, <2>3, <2>4, <2>5, <2>6 DEF Booked, Loose, Places
  <2>8. \A b \in Bufs : Alone(b)'
    BY <1>2, <2>1, <2>3, <2>4, <2>5, <2>6 DEF Books, Alone, Unused, Early, Places
  <2> QED BY <1>1, <2>1, <2>7, <2>8, SameBook DEF Books
<1> QED BY <1>3, <1>4, <1>5, <1>6, <1>7

\* The two together: where an owner goes, and from where.
LEMMA DoneAdvances ==
  ASSUME Ind, NEW h \in Owners, NEW p, NEW c, p # "idle",
         done' = [done EXCEPT ![h] = At(p, c)], NEW b
  PROVE  /\ Checks(h, b)' <=> p = "checked" /\ b = c
         /\ Returns(h, b)' <=> p \in {"qbuf", "ioctl"} /\ b = c
         /\ \A q : DoneAt(h, q, b)' <=> p = q /\ b = c
         /\ \A g \in Owners \ {h} : /\ Checks(g, b)' <=> Checks(g, b)
                                    /\ Returns(g, b)' <=> Returns(g, b)
                                    /\ \A q : DoneAt(g, q, b)' <=> DoneAt(g, q, b)
<1>1. Types
  BY DEF Ind
<1>2. /\ Checks(h, b)' <=> p = "checked" /\ b = c
      /\ Returns(h, b)' <=> p \in {"qbuf", "ioctl"} /\ b = c
      /\ \A g \in Owners \ {h} : (Checks(g, b)' <=> Checks(g, b)) /\ (Returns(g, b)' <=> Returns(g, b))
  BY <1>1, DoneGoes
<1>3. /\ \A q : DoneAt(h, q, b)' <=> p = q /\ b = c
      /\ \A q : \A g \in Owners \ {h} : DoneAt(g, q, b)' <=> DoneAt(g, q, b)
  BY <1>1, DoneMoves
<1> QED BY <1>2, <1>3

LEMMA DoneReturns ==
  ASSUME Ind, NEW h \in Owners, done' = [done EXCEPT ![h] = Idle], NEW b
  PROVE  /\ ~Checks(h, b)' /\ ~Returns(h, b)'
         /\ \A q : q # "idle" => ~DoneAt(h, q, b)'
         /\ \A g \in Owners \ {h} : /\ Checks(g, b)' <=> Checks(g, b)
                                    /\ Returns(g, b)' <=> Returns(g, b)
                                    /\ \A q : DoneAt(g, q, b)' <=> DoneAt(g, q, b)
<1>1. Types
  BY DEF Ind
<1>2. /\ ~Checks(h, b)' /\ ~Returns(h, b)'
      /\ \A g \in Owners \ {h} : (Checks(g, b)' <=> Checks(g, b)) /\ (Returns(g, b)' <=> Returns(g, b))
  BY <1>1, DoneRests
<1>3. /\ \A q : q # "idle" => ~DoneAt(h, q, b)'
      /\ \A q : \A g \in Owners \ {h} : DoneAt(g, q, b)' <=> DoneAt(g, q, b)
  BY <1>1, DoneEnds
<1> QED BY <1>2, <1>3

\* The owners' steps.
LEMMA DoneBooks ==
  ASSUME Ind, Books, NEW h \in Owners, NEW c \in Bufs, Done(h, c) \/ (h = "cmd" /\ dispatch_app_data(c))
  PROVE  Books'
<1> USE DEF Done
<1>1. inKernel' \subseteq Bufs /\ polled' \in BOOLEAN /\ poll' = poll
  BY DEF buf_done, dispatch_app_data, buf_done_decrement, qbuf, qbuf_ioctl, qbuf_failed, mark_in_kernel, Books
<1>2. \A b, p : PollAt(p, b)' <=> PollAt(p, b)
  BY <1>1 DEF PollAt
<1>3. \A b : (Early(b)' <=> Early(b)) /\ (Late(b)' <=> Late(b))
  BY <1>2 DEF Early, Late
<1>4. CASE buf_done(h, c) \/ (h = "cmd" /\ dispatch_app_data(c))
  <2>1. kernel' = kernel /\ count' = count /\ Holds(h, c)
    BY <1>4 DEF buf_done, dispatch_app_data, Holds
  <2>2. PICK s : s \in {Idle, At("checked", c)} /\ done' = [done EXCEPT ![h] = s]
    BY <1>4 DEF buf_done, dispatch_app_data
  <2>3. ASSUME NEW b \in Bufs, NEW g \in Owners
        PROVE  /\ \A q \in {"ioctl", "failed", "qbuf"} : DoneAt(g, q, b)' => DoneAt(g, q, b)
               /\ Checks(g, b)' => Checks(g, b) \/ (g = h /\ b = c)
               /\ Returns(g, b)' => Returns(g, b)
    <3>1. /\ Checks(h, b)' => b = c
          /\ ~Returns(h, b)'
          /\ \A q \in {"ioctl", "failed", "qbuf"} : ~DoneAt(h, q, b)'
          /\ \A f \in Owners \ {h} : /\ Checks(f, b)' <=> Checks(f, b)
                                     /\ Returns(f, b)' <=> Returns(f, b)
                                     /\ \A q : DoneAt(f, q, b)' <=> DoneAt(f, q, b)
      <4>1. CASE s = Idle
        BY <2>2, <4>1, DoneReturns
      <4>2. CASE s = At("checked", c)
        <5>1. PICK p : p = "checked"
          OBVIOUS
        <5>2. p # "idle" /\ p \notin {"qbuf", "ioctl", "failed"}
          BY <5>1
        <5>3. done' = [done EXCEPT ![h] = At(p, c)]
          BY <2>2, <4>2, <5>1
        <5>4. /\ Checks(h, b)' <=> p = "checked" /\ b = c
              /\ Returns(h, b)' <=> p \in {"qbuf", "ioctl"} /\ b = c
              /\ \A q : DoneAt(h, q, b)' <=> p = q /\ b = c
              /\ \A f \in Owners \ {h} : /\ Checks(f, b)' <=> Checks(f, b)
                                         /\ Returns(f, b)' <=> Returns(f, b)
                                         /\ \A q : DoneAt(f, q, b)' <=> DoneAt(f, q, b)
          BY <5>2, <5>3, DoneAdvances
        <5> QED BY <5>2, <5>4
      <4> QED BY <2>2, <4>1, <4>2
    <3> QED BY <3>1
  <2>4. \A b \in Bufs, g \in Owners : Holds(g, b)' => Holds(g, b) \/ (b = c)
    BY <1>4 DEF buf_done, dispatch_app_data, Ind, Types, Holds, Owners
  <2>5. \A b \in Bufs : (Booked(b)' => Booked(b)) /\ (Loose(b)' => Loose(b))
    BY <1>2, <1>3, <2>1, <2>3, <2>4 DEF Booked, Loose
  <2>6. \A b \in Bufs : Alone(b)'
    BY <1>3, <2>1, <2>3, <2>4 DEF Books, Alone, Unused
  <2> QED BY <1>1, <2>1, <2>5, <2>6, SameBook DEF Books
<1>5. CASE ~(buf_done(h, c) \/ (h = "cmd" /\ dispatch_app_data(c)))
  <2>0. \/ buf_done_decrement(h, c) \/ qbuf(h, c) \/ qbuf_ioctl(h, c)
        \/ qbuf_failed(h, c) \/ mark_in_kernel(h, c)
    BY <1>5
  <2>1. \A b, g : Holds(g, b)' <=> Holds(g, b)
    BY <2>0 DEF buf_done_decrement, qbuf, qbuf_ioctl, qbuf_failed, mark_in_kernel, Holds
  <2>2. CASE buf_done_decrement(h, c)
    <3>1. kernel' = kernel /\ count' = count /\ Checks(h, c)
      BY <2>2 DEF buf_done_decrement, Checks
    <3>2. PICK s : s \in {Idle, At("qbuf", c)} /\ done' = [done EXCEPT ![h] = s]
      BY <2>2 DEF buf_done_decrement
    <3>3. ASSUME NEW b \in Bufs, NEW g \in Owners
          PROVE  /\ \A q \in {"ioctl", "failed"} : DoneAt(g, q, b)' => DoneAt(g, q, b)
                 /\ DoneAt(g, "qbuf", b)' => DoneAt(g, "qbuf", b) \/ b = c
                 /\ Checks(g, b)' => Checks(g, b)
                 /\ Returns(g, b)' => Returns(g, b) \/ b = c
      <4>1. /\ ~Checks(h, b)'
            /\ Returns(h, b)' => b = c
            /\ DoneAt(h, "qbuf", b)' => b = c
            /\ \A q \in {"ioctl", "failed"} : ~DoneAt(h, q, b)'
            /\ \A f \in Owners \ {h} : /\ Checks(f, b)' <=> Checks(f, b)
                                       /\ Returns(f, b)' <=> Returns(f, b)
                                       /\ \A q : DoneAt(f, q, b)' <=> DoneAt(f, q, b)
        <5>1. CASE s = Idle
          BY <3>2, <5>1, DoneReturns
        <5>2. CASE s = At("qbuf", c)
          <6>1. PICK p : p = "qbuf"
            OBVIOUS
          <6>2. p # "idle" /\ p \notin {"checked", "ioctl", "failed"}
            BY <6>1
          <6>3. done' = [done EXCEPT ![h] = At(p, c)]
            BY <3>2, <5>2, <6>1
          <6>4. /\ Checks(h, b)' <=> p = "checked" /\ b = c
                /\ Returns(h, b)' <=> p \in {"qbuf", "ioctl"} /\ b = c
                /\ \A q : DoneAt(h, q, b)' <=> p = q /\ b = c
                /\ \A f \in Owners \ {h} : /\ Checks(f, b)' <=> Checks(f, b)
                                           /\ Returns(f, b)' <=> Returns(f, b)
                                           /\ \A q : DoneAt(f, q, b)' <=> DoneAt(f, q, b)
            BY <6>2, <6>3, DoneAdvances
          <6> QED BY <6>2, <6>4
        <5> QED BY <3>2, <5>1, <5>2
      <4> QED BY <4>1
    <3>4. \A b \in Bufs : (Booked(b)' => Booked(b)) /\ (Loose(b)' => Loose(b))
      BY <1>2, <1>3, <2>1, <3>1, <3>3 DEF Booked, Loose
    <3>5. \A b \in Bufs : Alone(b)'
      BY <1>3, <2>1, <3>1, <3>3 DEF Books, Alone, Unused
    <3> QED BY <1>1, <3>1, <3>4, <3>5, SameBook DEF Books
  <2>3. CASE qbuf(h, c) /\ count' = count + 1 /\ done' = [done EXCEPT ![h] = At("ioctl", c)]
    <3>1. /\ kernel' = kernel /\ count' = count + 1 /\ done[h] = At("qbuf", c)
          /\ done' = [done EXCEPT ![h] = At("ioctl", c)]
      BY <2>3 DEF qbuf
    <3>2. ASSUME NEW b \in Bufs
          PROVE  /\ \A q : DoneAt(h, q, b)' <=> q = "ioctl" /\ b = c
                 /\ \A q : DoneAt(h, q, b) <=> q = "qbuf" /\ b = c
                 /\ ~Checks(h, b)'
                 /\ Returns(h, b)' <=> b = c
                 /\ \A g \in Owners \ {h} : /\ Checks(g, b)' <=> Checks(g, b)
                                            /\ Returns(g, b)' <=> Returns(g, b)
                                            /\ \A q : DoneAt(g, q, b)' <=> DoneAt(g, q, b)
      <4>1. \A q : DoneAt(h, q, b) <=> q = "qbuf" /\ b = c
        BY <3>1, DoneIs
      <4>2. PICK p : p = "ioctl"
        OBVIOUS
      <4>3. p \notin {"idle", "checked"} /\ p \in {"qbuf", "ioctl"}
        BY <4>2
      <4>4. done' = [done EXCEPT ![h] = At(p, c)]
        BY <3>1, <4>2
      <4>5. /\ Checks(h, b)' <=> p = "checked" /\ b = c
            /\ Returns(h, b)' <=> p \in {"qbuf", "ioctl"} /\ b = c
            /\ \A q : DoneAt(h, q, b)' <=> p = q /\ b = c
            /\ \A f \in Owners \ {h} : /\ Checks(f, b)' <=> Checks(f, b)
                                       /\ Returns(f, b)' <=> Returns(f, b)
                                       /\ \A q : DoneAt(f, q, b)' <=> DoneAt(f, q, b)
        BY <4>3, <4>4, DoneAdvances
      <4> QED BY <4>1, <4>2, <4>3, <4>5
    <3>3. Returns(h, c) /\ Loose(c)
      BY <3>1, <3>2 DEF Returns, Loose
    <3>4. Unused(c) /\ ~Early(c) /\ ~Late(c) /\ \A g \in Owners \ {h} : ~Returns(g, c)
      BY <3>3 DEF Ind, Buffer, OnePlace
    <3>5. ~Loose(c)'
      <4>1. \A g \in Owners : ~DoneAt(g, "qbuf", c)'
        BY <3>2, <3>4 DEF Returns, DoneAt
      <4> QED BY <1>2, <1>3, <2>1, <3>2, <3>4, <4>1 DEF Loose, Unused, Early
    <3>6. \A b \in Bufs \ {c} : (Booked(b)' => Booked(b)) /\ (Loose(b)' => Loose(b))
      BY <1>2, <1>3, <2>1, <3>1, <3>2 DEF Booked, Loose
    <3>7. \A b \in Bufs : Alone(b)'
      BY <1>3, <2>1, <3>1, <3>2, <3>3 DEF Books, Alone, Unused
    <3> QED BY <1>1, <3>1, <3>3, <3>5, <3>6, <3>7, MoreBook DEF Books
  <2>4. CASE qbuf_ioctl(h, c)
    <3>1. PICK p \in {"queued", "failed"} :
            /\ count' = count /\ done[h] = At("ioctl", c)
            /\ done' = [done EXCEPT ![h] = At(p, c)]
            /\ kernel' = IF p = "queued" THEN kernel \cup {c} ELSE kernel
      BY <2>4 DEF qbuf_ioctl
    <3>2. ASSUME NEW b \in Bufs
          PROVE  /\ \A q : DoneAt(h, q, b)' <=> q = p /\ b = c
                 /\ \A q : DoneAt(h, q, b) <=> q = "ioctl" /\ b = c
                 /\ ~Checks(h, b)' /\ ~Returns(h, b)'
                 /\ \A g \in Owners \ {h} : /\ Checks(g, b)' <=> Checks(g, b)
                                            /\ Returns(g, b)' <=> Returns(g, b)
                                            /\ \A q : DoneAt(g, q, b)' <=> DoneAt(g, q, b)
      <4>1. \A q : DoneAt(h, q, b) <=> q = "ioctl" /\ b = c
        BY <3>1, DoneIs
      <4>2. p # "idle" /\ p \notin {"checked", "qbuf", "ioctl"}
        OBVIOUS
      <4>3. done' = [done EXCEPT ![h] = At(p, c)]
        BY <3>1
      <4>4. /\ Checks(h, b)' <=> p = "checked" /\ b = c
            /\ Returns(h, b)' <=> p \in {"qbuf", "ioctl"} /\ b = c
            /\ \A q : DoneAt(h, q, b)' <=> p = q /\ b = c
            /\ \A f \in Owners \ {h} : /\ Checks(f, b)' <=> Checks(f, b)
                                       /\ Returns(f, b)' <=> Returns(f, b)
                                       /\ \A q : DoneAt(f, q, b)' <=> DoneAt(f, q, b)
        BY <4>2, <4>3, DoneAdvances
      <4> QED BY <4>1, <4>2, <4>4
    <3>3. Returns(h, c)
      BY <3>1 DEF Returns
    <3>4. /\ Unused(c) /\ ~Early(c) /\ ~Late(c) /\ c \notin kernel
          /\ \A g \in Owners \ {h} : ~Returns(g, c)
          /\ \A g \in Owners : ~DoneAt(g, "failed", c)
      BY <3>3 DEF Ind, Buffer, OnePlace, Books, Alone
    <3>5. \A b \in Bufs : (Booked(b)' => Booked(b)) /\ (Loose(b)' => Loose(b))
      BY <1>2, <1>3, <2>1, <3>1, <3>2 DEF Booked, Loose
    <3>6. \A b \in Bufs : Alone(b)'
      BY <1>3, <2>1, <3>1, <3>2, <3>4 DEF Books, Alone, Unused
    <3> QED BY <1>1, <3>1, <3>5, <3>6, SameBook DEF Books
  <2>5. CASE qbuf_failed(h, c) \/ mark_in_kernel(h, c)
    <3>1. PICK p \in {"failed", "queued"} :
            /\ count' = (IF p = "failed" THEN count - 1 ELSE count) /\ done[h] = At(p, c)
            /\ done' = [done EXCEPT ![h] = Idle] /\ kernel' = kernel
      BY <2>5 DEF qbuf_failed, mark_in_kernel
    <3>2. ASSUME NEW b \in Bufs
          PROVE  /\ \A q \in {"ioctl", "failed", "qbuf"} : ~DoneAt(h, q, b)'
                 /\ \A q : DoneAt(h, q, b) <=> q = p /\ b = c
                 /\ ~Checks(h, b)' /\ ~Returns(h, b)'
                 /\ \A g \in Owners \ {h} : /\ Checks(g, b)' <=> Checks(g, b)
                                            /\ Returns(g, b)' <=> Returns(g, b)
                                            /\ \A q : DoneAt(g, q, b)' <=> DoneAt(g, q, b)
      <4>1. \A q : DoneAt(h, q, b) <=> q = p /\ b = c
        BY <3>1, DoneIs
      <4> QED BY <3>1, <4>1, DoneReturns
    <3>3. \A b \in Bufs : (Booked(b)' => Booked(b)) /\ (Loose(b)' => Loose(b))
      BY <1>2, <1>3, <2>1, <3>1, <3>2 DEF Booked, Loose
    <3>4. \A b \in Bufs : Alone(b)'
      BY <1>3, <2>1, <3>1, <3>2 DEF Books, Alone, Unused
    <3>5. ASSUME p = "failed" PROVE Booked(c) /\ ~Booked(c)'
      <4>1. DoneAt(h, "failed", c)
        BY <3>2, <3>5
      <4>2. /\ c \notin kernel /\ ~Early(c)
            /\ \A g \in Owners : ~Returns(g, c) /\ (g # h => ~DoneAt(g, "failed", c))
        BY <4>1 DEF Books, Alone
      <4>3. \A g \in Owners : ~DoneAt(g, "ioctl", c)
        BY <4>2 DEF Returns, DoneAt
      <4> QED BY <1>2, <3>1, <3>2, <4>1, <4>2, <4>3 DEF Booked, Early
    <3>6. \E L : Book(L)'
      <4>1. CASE p = "failed"
        BY <3>1, <3>3, <3>5, <4>1, LessBook
      <4>2. CASE p = "queued"
        BY <3>1, <3>3, <4>2, SameBook
      <4> QED BY <3>1, <4>1, <4>2
    <3> QED BY <1>1, <3>4, <3>6 DEF Books
  <2>6. CASE qbuf(h, c) /\ done' = [done EXCEPT ![h] = Idle] /\ UNCHANGED <<count, polled>>
    <3>1. kernel' = kernel /\ count' = count
      BY <2>6 DEF qbuf
    <3>2. ASSUME NEW b \in Bufs
          PROVE  /\ \A q \in {"ioctl", "failed", "qbuf"} : ~DoneAt(h, q, b)'
                 /\ ~Checks(h, b)' /\ ~Returns(h, b)'
                 /\ \A g \in Owners \ {h} : /\ Checks(g, b)' <=> Checks(g, b)
                                            /\ Returns(g, b)' <=> Returns(g, b)
                                            /\ \A q : DoneAt(g, q, b)' <=> DoneAt(g, q, b)
      BY <2>6, DoneReturns
    <3>3. \A b \in Bufs : (Booked(b)' => Booked(b)) /\ (Loose(b)' => Loose(b))
      BY <1>2, <1>3, <2>1, <3>1, <3>2 DEF Booked, Loose
    <3>4. \A b \in Bufs : Alone(b)'
      BY <1>3, <2>1, <3>1, <3>2 DEF Books, Alone, Unused
    <3> QED BY <1>1, <3>1, <3>3, <3>4, SameBook DEF Books
  <2>7. CASE qbuf(h, c)
    BY <2>3, <2>6, <2>7 DEF qbuf
  <2> QED BY <2>0, <2>2, <2>4, <2>5, <2>7
<1> QED BY <1>4, <1>5

\* The life of the stream.
LEMMA LifeBooks ==
  ASSUME Quiet, Ind, Books, reg_buf \/ start \/ start_fails \/ stop_del \/ Stop \/ unreg_buf \/ link
  PROVE  Books'
<1>1. inKernel' \subseteq Bufs /\ polled' \in BOOLEAN /\ poll' = poll /\ done' = done
  BY StreamBufAssumption
  DEF reg_buf, start, start_fails, stop_del, Stop, stop_waited, streamoff, cmd_thread_release,
      unreg_buf, link, Books
<1>2. \A b, p : PollAt(p, b)' <=> PollAt(p, b)
  BY <1>1 DEF PollAt
<1>3. \A b, h : \A q : /\ DoneAt(h, q, b)' <=> DoneAt(h, q, b)
                       /\ Checks(h, b)' <=> Checks(h, b)
                       /\ Returns(h, b)' <=> Returns(h, b)
  BY <1>1 DEF DoneAt, Checks, Returns
<1>4. CASE reg_buf \/ unreg_buf
  <2>1. \A b : \A p \in Places : ~PollAt(p, b)
    BY <1>4, Apart DEF reg_buf, unreg_buf, Ind, Life, PollAt, Places
  <2>2. ASSUME NEW h \in Owners
        PROVE  \A b : ~Checks(h, b) /\ \A q \in {"ioctl", "failed", "qbuf"} : ~DoneAt(h, q, b)
    <3>1. done[h] = Idle
      BY <1>4 DEF reg_buf, unreg_buf, Ind, Life
    <3> QED BY <3>1, Apart DEF DoneAt, Checks
  <2>3. \A b \in Bufs : Alone(b)'
    BY <1>3, <2>2 DEF Alone
  <2>4. CASE reg_buf
    <3>1. \A h \in Owners, b \in Bufs : Holds(h, b)' => b \notin InitialRegs
      BY <2>4 DEF reg_buf, Ind, Life, Types, Holds, Owners
    <3>2. kernel' = InitialRegs /\ count' = Cardinality(InitialRegs)
      BY <2>4 DEF reg_buf
    <3>3. Book(InitialRegs)'
      BY <1>2, <1>3, <2>1, <2>2, <3>1, <3>2, StreamBufAssumption DEF Book, Booked, Loose, Late, Places
    <3> QED BY <1>1, <2>3, <3>3 DEF Books
  <2>5. CASE unreg_buf
    <3>1. kernel' = {} /\ count' = count /\ \A h \in Owners, b \in Bufs : ~Holds(h, b)'
      BY <2>5 DEF unreg_buf, Holds
    <3>2. \A b \in Bufs : ~Booked(b)' /\ ~Loose(b)'
      BY <1>2, <1>3, <2>1, <2>2, <3>1 DEF Booked, Loose, Late, Places
    <3> QED BY <1>1, <2>3, <3>1, <3>2, SameBook DEF Books
  <2> QED BY <1>4, <2>4, <2>5
<1>5. CASE start \/ start_fails \/ stop_del \/ Stop \/ link
  <2>1. kernel' \subseteq kernel /\ count' = count /\ held' = held
    BY <1>5 DEF start, start_fails, stop_del, Stop, stop_waited, streamoff, cmd_thread_release, link
  <2>2. \A h, b : Holds(h, b)' <=> Holds(h, b)
    BY <2>1 DEF Holds
  <2>3. \A b \in Bufs : (Booked(b)' => Booked(b)) /\ (Loose(b)' => Loose(b))
    BY <1>2, <1>3, <2>1, <2>2 DEF Booked, Loose, Late
  <2>4. \A b \in Bufs : Alone(b)'
    BY <1>2, <1>3, <2>1, <2>2 DEF Books, Alone, Unused, Early, Late
  <2> QED BY <1>1, <2>1, <2>3, <2>4, SameBook DEF Books
<1> QED BY <1>4, <1>5

LEMMA BooksKeep ==
  ASSUME Quiet, Ind, Books, [Next]_vars
  PROVE  Books'
<1>1. CASE UNCHANGED vars
  <2>1. /\ inKernel' \subseteq Bufs /\ polled' \in BOOLEAN
        /\ \A b \in Bufs : Alone(b)'
        /\ \A L : Book(L) => Book(L)'
    BY <1>1 DEF vars, Books, Alone, Book, Booked, Loose, Unused, Early, Late, Holds, Checks, Returns,
                DoneAt, PollAt
  <2> QED BY <2>1 DEF Books
<1>2. CASE Notify
  BY <1>2, NotifyBooks DEF Notify
<1>3. CASE \E c \in Bufs : dispatch_app_data(c)
  BY <1>3, DoneBooks DEF Owners
<1>4. CASE \E c \in Bufs, h \in Owners : Done(h, c)
  BY <1>4, DoneBooks
<1>5. CASE reg_buf \/ start \/ start_fails \/ stop_del \/ Stop \/ unreg_buf \/ link
  BY <1>5, LifeBooks
<1> QED BY <1>1, <1>2, <1>3, <1>4, <1>5 DEF Next

\* Every variable keeps its type: above all queued_buffer_count, which a stop
\* does not reset and which threads go on changing while it runs, is never
\* negative and never more than the buffers (mm_stream_read_msm_frame,
\* mm_stream_qbuf, mm_stream_reg_buf).
THEOREM Typed ==
  ASSUME Quiet
  PROVE  Spec => []TypeOK
<1>1. Init => Ind /\ Books
  <2> SUFFICES ASSUME Init PROVE Ind /\ Books
    OBVIOUS
  <2>1. Ind
    BY Begins
  <2>2. /\ \A b, p : p # "idle" => ~PollAt(p, b)
        /\ \A h \in Owners : \A b, p : p # "idle" => ~DoneAt(h, p, b)
        /\ \A h \in Owners : \A b : ~Holds(h, b) /\ ~Checks(h, b)
    BY Apart DEF Init, PollAt, DoneAt, Holds, Checks
  <2>3. Book({})
    BY <2>2, FS_EmptySet DEF Init, Book, Booked, Loose, Late
  <2>4. inKernel \subseteq Bufs /\ polled \in BOOLEAN /\ \A b \in Bufs : Alone(b)
    BY <2>2 DEF Init, Alone
  <2> QED BY <2>1, <2>3, <2>4 DEF Books
<1>2. Ind /\ Books /\ [Next]_vars => Ind' /\ Books'
  BY NextKeeps, BooksKeep
<1>3. Ind /\ Books => TypeOK
  <2> SUFFICES ASSUME Ind, Books PROVE TypeOK
    OBVIOUS
  <2>1. count \in 0 .. Cardinality(Bufs)
    BY StreamBufAssumption, FS_Subset, FS_CardinalityType DEF Books, Book
  <2> QED BY <2>1 DEF TypeOK, Ind, Types, Books
<1> QED BY <1>1, <1>2, <1>3, PTL DEF Spec
-----------------------------------------------------------------------------
(* The poll thread: the types that the arguments need.                      *)

ThreadPlaces ==
  [at : {"none", "start", "started", "loop", "sigdone", "scan", "exited"}]
    \cup [at : {"cb", "cbsig", "cbend"}, s : Streams]

PollCommands == {"UPDATED", "ASYNC", "EXIT"}

PollTypes ==
  /\ pc \in ThreadPlaces
  /\ entries \subseteq Streams /\ pollFds \subseteq Streams /\ revents \subseteq Streams
  /\ pipe \in Seq(PollCommands)
  /\ call \in [Clients -> Calls]
  /\ off \in [Streams -> {"no", "waited", "missed"}]

\* A command written to the pipe is the only new one in it.
LEMMA Written ==
  ASSUME pipe \in Seq(PollCommands), NEW k \in PollCommands, pipe' = Append(pipe, k)
  PROVE  /\ pipe' \in Seq(PollCommands) /\ pipe' # <<>>
         /\ Len(pipe') = Len(pipe) + 1 /\ pipe'[Len(pipe) + 1] = k
         /\ \A i \in 1 .. Len(pipe) : pipe'[i] = pipe[i]
BY AppendProperties

\* The command read from the pipe is the only one that is gone.
LEMMA Read ==
  ASSUME pipe \in Seq(PollCommands), pipe # <<>>, pipe' = Tail(pipe)
  PROVE  /\ pipe' \in Seq(PollCommands) /\ Head(pipe) \in PollCommands /\ Head(pipe) = pipe[1]
         /\ Len(pipe') = Len(pipe) - 1 /\ Len(pipe) \in Nat \ {0}
         /\ \A i \in 1 .. Len(pipe') : pipe'[i] = pipe[i + 1]
BY HeadTailProperties, EmptySeq, LenProperties, ElementOfSeq

\* A synchronous delete that returns changes its own call and its stream.
LEMMA Returned ==
  ASSUME PollTypes, NEW c \in Clients, call[c].op \in {"syncsig", "waiting"}, del_returns(c)
  PROVE  /\ call' \in [Clients -> Calls] /\ off' \in [Streams -> {"no", "waited", "missed"}]
         /\ \A d \in Clients : d # c => call'[d] = call[d]
         /\ \A s \in Streams : off'[s] # off[s] => off'[s] = "waited" /\ s \notin entries
<1>1. call[c].s \in Streams
  BY DEF PollTypes, Calls, NoCall
<1> QED BY <1>1 DEF PollTypes, Calls, NoCall, del_returns

\* One step keeps the types.
LEMMA PollTypesStep == PollTypes /\ [PollNext]_pollVars => PollTypes'
<1> SUFFICES ASSUME PollTypes, [PollNext]_pollVars PROVE PollTypes'
  OBVIOUS
<1>1. CASE Launch
  BY <1>1 DEF Launch, PollTypes, ThreadPlaces
<1>2. CASE Release
  BY <1>2, Written DEF Release, PollTypes, PollCommands
<1>3. CASE Join
  BY <1>3, EmptySeq DEF Join, PollTypes
<1>4. ASSUME NEW c \in Clients, Client(c) PROVE PollTypes'
  <2>1. ASSUME NEW s \in Streams, add_poll_fd(c, s) \/ del_poll_fd_async(c, s) \/ del_poll_fd(c, s)
        PROVE  PollTypes'
    BY <2>1 DEF add_poll_fd, del_poll_fd_async, del_poll_fd, PollTypes, Calls, Sig, SyncSig
  <2>2. CASE poll_sig(c)
    <3>1. call' \in [Clients -> Calls]
      BY <2>2 DEF poll_sig, PollTypes, Calls, NoCall, Waiting
    <3>2. pipe' \in Seq(PollCommands)
      BY <2>2, Written DEF poll_sig, PollTypes, PollCommands
    <3> QED BY <2>2, <3>1, <3>2 DEF poll_sig, PollTypes
  <2> QED BY <1>4, <2>1, <2>2 DEF Client
<1>5. CASE poll_thread_start \/ poll_set_state \/ scan_done
  BY <1>5 DEF poll_thread_start, poll_set_state, scan_done, PollTypes, ThreadPlaces
<1>6. CASE poll_proc_pipe
  BY <1>6, Read DEF poll_proc_pipe, PollTypes, ThreadPlaces
<1>7. CASE poll_sig_done
  BY <1>7, Returned DEF poll_sig_done, signal, waiters, PollTypes, ThreadPlaces
<1>8. ASSUME NEW s \in Streams, notify(s) \/ cb_del_poll_fd(s) \/ cb_poll_sig(s) \/ cb_return(s)
      PROVE  PollTypes'
  <2>1. pc' \in ThreadPlaces
    BY <1>8 DEF notify, cb_del_poll_fd, cb_poll_sig, cb_return, PollTypes, ThreadPlaces
  <2>2. pipe' \in Seq(PollCommands)
    BY <1>8, Written DEF notify, cb_del_poll_fd, cb_poll_sig, cb_return, PollTypes, PollCommands
  <2> QED BY <1>8, <2>1, <2>2 DEF notify, cb_del_poll_fd, cb_poll_sig, cb_return, PollTypes
<1>9. ASSUME NEW ready \in SUBSET pollFds, poll_returns(ready) PROVE PollTypes'
  BY <1>9 DEF poll_returns, PollTypes, ThreadPlaces
<1>10. CASE UNCHANGED pollVars
  BY <1>10 DEF pollVars, PollTypes
<1> QED BY <1>1, <1>2, <1>3, <1>4, <1>5, <1>6, <1>7, <1>8, <1>9, <1>10 DEF PollNext, Thread

-----------------------------------------------------------------------------
(* A synchronous delete.                                                   *)

\* Stronger than SyncDelIsQuiet: the stream has no entry either, so that the
\* poll thread cannot begin to notify it.
DeletedIsQuiet ==
  \A s \in Streams : off[s] = "waited" => s \notin entries /\ ~InCb(s)

\* No step starts a notification of a deleted stream, nor gives it an entry back.
LEMMA QuietStep == PollTypes /\ DeletedIsQuiet /\ [PollNext]_pollVars => DeletedIsQuiet'
<1> SUFFICES ASSUME PollTypes, DeletedIsQuiet, [PollNext]_pollVars PROVE DeletedIsQuiet'
  OBVIOUS
<1> USE DEF DeletedIsQuiet, InCb
<1>1. CASE Launch \/ Release \/ Join
  BY <1>1 DEF Launch, Release, Join
<1>2. ASSUME NEW c \in Clients, Client(c) PROVE DeletedIsQuiet'
  BY <1>2 DEF Client, add_poll_fd, del_poll_fd_async, del_poll_fd, poll_sig, PollTypes
<1>3. CASE poll_thread_start \/ poll_set_state \/ scan_done \/ poll_proc_pipe
  BY <1>3 DEF poll_thread_start, poll_set_state, scan_done, poll_proc_pipe
<1>4. CASE poll_sig_done
  BY <1>4, Returned DEF poll_sig_done, signal, waiters
<1>5. ASSUME NEW s \in Streams, notify(s) PROVE DeletedIsQuiet'
  BY <1>5 DEF notify
<1>6. ASSUME NEW s \in Streams, cb_del_poll_fd(s) \/ cb_poll_sig(s) \/ cb_return(s)
      PROVE  DeletedIsQuiet'
  BY <1>6 DEF cb_del_poll_fd, cb_poll_sig, cb_return
<1>7. ASSUME NEW ready \in SUBSET pollFds, poll_returns(ready) PROVE DeletedIsQuiet'
  BY <1>7 DEF poll_returns
<1>8. CASE UNCHANGED pollVars
  BY <1>8 DEF pollVars
<1> QED BY <1>1, <1>2, <1>3, <1>4, <1>5, <1>6, <1>7, <1>8 DEF PollNext, Thread

\* After mm_camera_poll_thread_del_poll_fd with mm_camera_sync_call the data
\* of the stream is not being notified, whoever's signal ended the wait.
THEOREM SyncDelIsQuietAlways == PollSpec => []SyncDelIsQuiet
<1>1. PollInit => PollTypes /\ DeletedIsQuiet
  BY EmptySeq DEF PollInit, PollTypes, DeletedIsQuiet, ThreadPlaces, Calls, NoCall
<1>2. DeletedIsQuiet => SyncDelIsQuiet
  BY DEF DeletedIsQuiet, SyncDelIsQuiet
<1> QED BY <1>1, <1>2, PollTypesStep, QuietStep, PTL DEF PollSpec

-----------------------------------------------------------------------------
(* The poll set.                                                           *)

\* If the poll thread does not poll what is registered, the news is with a
\* client, in the pipe or with the callback that the thread itself is in.
NewsOnItsWay ==
  pollFds # entries =>
    \/ \E c \in Clients : call[c].op \in {"sig", "syncsig"}
    \/ \E i \in 1 .. Len(pipe) : pipe[i] # "EXIT"
    \/ pc.at = "cbsig"

\* Every step keeps the news of a change on its way until the thread has it.
LEMMA NewsStep == PollTypes /\ NewsOnItsWay /\ [PollNext]_pollVars => NewsOnItsWay'
<1> SUFFICES ASSUME PollTypes, NewsOnItsWay, [PollNext]_pollVars PROVE NewsOnItsWay'
  OBVIOUS
<1> USE DEF NewsOnItsWay
<1>0. Len(pipe) \in Nat
  BY LenProperties DEF PollTypes
<1>1. CASE Launch
  BY <1>1 DEF Launch
<1>2. CASE Release
  <2>1. CASE pipe' = Append(pipe, "EXIT")
    BY <1>0, <1>2, <2>1, Written DEF Release, PollTypes, PollCommands
  <2> QED BY <1>2, <2>1 DEF Release
<1>3. CASE Join
  BY <1>3 DEF Join
<1>4. ASSUME NEW c \in Clients, Client(c) PROVE NewsOnItsWay'
  <2>1. ASSUME NEW s \in Streams, add_poll_fd(c, s) \/ del_poll_fd_async(c, s)
        PROVE  NewsOnItsWay'
    BY <2>1 DEF add_poll_fd, del_poll_fd_async, PollTypes, Sig
  <2>2. ASSUME NEW s \in Streams, del_poll_fd(c, s) PROVE NewsOnItsWay'
    BY <2>2 DEF del_poll_fd, PollTypes, SyncSig
  <2>3. ASSUME poll_sig(c) PROVE NewsOnItsWay'
    <3>1. PICK k \in {"ASYNC", "UPDATED"} : pipe' = Append(pipe, k)
      BY <2>3 DEF poll_sig
    <3>2. Len(pipe) + 1 \in 1 .. Len(pipe') /\ pipe'[Len(pipe) + 1] # "EXIT"
      BY <1>0, <3>1, Written DEF PollTypes, PollCommands
    <3> QED BY <3>2
  <2> QED BY <1>4, <2>1, <2>2, <2>3 DEF Client
<1>5. CASE poll_thread_start \/ poll_set_state \/ scan_done
  BY <1>5 DEF poll_thread_start, poll_set_state, scan_done, ThreadAt
<1>6. CASE poll_proc_pipe
  <2>1. CASE Head(pipe) # "EXIT"
    BY <1>6, <2>1 DEF poll_proc_pipe
  <2>2. CASE Head(pipe) = "EXIT"
    <3>1. ASSUME NEW i \in 1 .. Len(pipe), pipe[i] # "EXIT"
          PROVE  i - 1 \in 1 .. Len(pipe') /\ pipe'[i - 1] # "EXIT"
      BY <1>0, <1>6, <2>2, <3>1, Read DEF poll_proc_pipe, PollTypes
    <3> QED BY <1>6, <2>2, <3>1 DEF poll_proc_pipe, ThreadAt
  <2> QED BY <2>1, <2>2
<1>7. CASE poll_sig_done
  <2>1. \A d \in Clients : call[d].op \in {"sig", "syncsig"} => call'[d] = call[d]
    BY <1>7, Returned DEF poll_sig_done, signal, waiters
  <2> QED BY <1>7, <2>1 DEF poll_sig_done, ThreadAt
<1>8. ASSUME NEW s \in Streams, notify(s) \/ cb_return(s) PROVE NewsOnItsWay'
  BY <1>8 DEF notify, cb_return, ThreadAt
<1>9. ASSUME NEW s \in Streams, cb_del_poll_fd(s) PROVE NewsOnItsWay'
  BY <1>9 DEF cb_del_poll_fd
<1>10. ASSUME NEW s \in Streams, cb_poll_sig(s) PROVE NewsOnItsWay'
  <2>1. Len(pipe) + 1 \in 1 .. Len(pipe') /\ pipe'[Len(pipe) + 1] # "EXIT"
    BY <1>0, <1>10, Written DEF cb_poll_sig, PollTypes, PollCommands
  <2> QED BY <2>1
<1>11. ASSUME NEW ready \in SUBSET pollFds, poll_returns(ready) PROVE NewsOnItsWay'
  BY <1>11 DEF poll_returns, ThreadAt
<1>12. CASE UNCHANGED pollVars
  BY <1>12 DEF pollVars
<1> QED BY <1>1, <1>2, <1>3, <1>4, <1>5, <1>6, <1>7, <1>8, <1>9, <1>10, <1>11, <1>12
     DEF PollNext, Thread

\* When the poll thread goes to sleep in poll and no client is half-way
\* through an update, it polls exactly the registered streams.
THEOREM PollSetIsCurrentAlways == PollSpec => []PollSetIsCurrent
<1>1. PollInit => PollTypes /\ NewsOnItsWay
  BY EmptySeq DEF PollInit, PollTypes, NewsOnItsWay, ThreadPlaces, Calls, NoCall
<1>2. PollTypes /\ NewsOnItsWay => PollSetIsCurrent
  BY EmptySeq DEF PollTypes, NewsOnItsWay, PollSetIsCurrent, ThreadAt
<1> QED BY <1>1, <1>2, PollTypesStep, NewsStep, PTL DEF PollSpec

-----------------------------------------------------------------------------
(* Signals and waiters.                                                    *)

\* The commands of SyncPending are finitely many.
LEMMA PendingFinite ==
  ASSUME pipe \in Seq(PollCommands)
  PROVE  IsFiniteSet(SyncPending) /\ Cardinality(SyncPending) \in Nat
<1>1. SyncPending \in SUBSET (1 .. Len(pipe)) /\ Len(pipe) \in Nat
  BY LenProperties DEF SyncPending
<1>2. IsFiniteSet(1 .. Len(pipe))
  BY <1>1, FS_Interval
<1>3. IsFiniteSet(SyncPending)
  BY <1>1, <1>2, FS_Subset
<1> QED BY <1>3, FS_CardinalityType

\* A command written is pending if it is one that somebody waits for.
LEMMA PendingWritten ==
  ASSUME pipe \in Seq(PollCommands), NEW k \in PollCommands, pipe' = Append(pipe, k)
  PROVE  Cardinality(SyncPending') =
           Cardinality(SyncPending) + (IF k = "ASYNC" THEN 0 ELSE 1)
<1>0. Len(pipe) \in Nat
  BY LenProperties
<1>1. CASE k = "ASYNC"
  <2>1. SyncPending' = SyncPending
    BY <1>0, <1>1, Written DEF SyncPending
  <2> QED BY <1>1, <2>1, PendingFinite
<1>2. CASE k # "ASYNC"
  <2>1. SyncPending' = SyncPending \cup {Len(pipe) + 1} /\ Len(pipe) + 1 \notin SyncPending
    BY <1>0, <1>2, Written DEF SyncPending
  <2>2. Cardinality(SyncPending \cup {Len(pipe) + 1}) = Cardinality(SyncPending) + 1
    BY <2>1, PendingFinite, FS_AddElement
  <2> QED BY <1>2, <2>1, <2>2
<1> QED BY <1>1, <1>2

\* A command read is pending no more, and all others still are.
LEMMA PendingRead ==
  ASSUME pipe \in Seq(PollCommands), pipe # <<>>, pipe' = Tail(pipe)
  PROVE  /\ Cardinality(SyncPending') \in Nat
         /\ Cardinality(SyncPending) =
              Cardinality(SyncPending') + (IF Head(pipe) = "ASYNC" THEN 0 ELSE 1)
<1> DEFINE later == SyncPending \ {1}
           down == [i \in later |-> i - 1]
<1>1. down \in [later -> SyncPending']
  BY Read DEF SyncPending
<1>2. \A i, j \in later : down[i] = down[j] => i = j
  BY DEF SyncPending
<1>3. \A j \in SyncPending' : j + 1 \in later /\ down[j + 1] = j
  BY Read DEF SyncPending
<1>4. ExistsBijection(later, SyncPending')
  <2> HIDE DEF later, down
  <2>1. down \in Bijection(later, SyncPending')
    BY <1>1, <1>2, <1>3, Fun_IsBij
  <2> QED BY <2>1 DEF ExistsBijection
<1>5. /\ IsFiniteSet(later)
      /\ Cardinality(later) =
           IF 1 \in SyncPending THEN Cardinality(SyncPending) - 1 ELSE Cardinality(SyncPending)
  BY PendingFinite, FS_RemoveElement
<1>6. Cardinality(SyncPending') = Cardinality(later)
  BY <1>4, <1>5, FS_Bijection
<1>7. 1 \in SyncPending <=> Head(pipe) # "ASYNC"
  BY Read DEF SyncPending
<1>8. Cardinality(later) \in Nat
  BY <1>5, FS_CardinalityType
<1> QED BY <1>5, <1>6, <1>7, <1>8, PendingFinite

\* Nobody calls a poll thread that is not up, and its launcher waits for it.
OwnerWaits ==
  /\ owner # "up" => \A c \in Clients : call[c] = NoCall
  /\ ThreadAt("start") => owner = "launching"

\* The two sides of EveryWaiterHasASignal.
Waits == Cardinality(waiters) + (IF owner = "releasing" THEN 1 ELSE 0)
Signals == Cardinality(SyncPending) + (IF ThreadAt("sigdone") THEN 1 ELSE 0)

\* The waiters are some of the finitely many clients.
LEMMA WaitersFinite == IsFiniteSet(waiters) /\ Cardinality(waiters) \in Nat
BY PollThreadAssumption, FS_Subset, FS_CardinalityType DEF waiters

\* A client's call that begins to wait or ends its wait moves the count by one.
LEMMA WaiterCount ==
  ASSUME PollTypes, NEW c \in Clients, \A d \in Clients : d # c => call'[d] = call[d]
  PROVE  /\ call[c].op # "waiting" /\ call'[c].op = "waiting" =>
              Cardinality(waiters') = Cardinality(waiters) + 1
         /\ call[c].op = "waiting" /\ call'[c].op # "waiting" =>
              Cardinality(waiters') = Cardinality(waiters) - 1
         /\ (call[c].op = "waiting" <=> call'[c].op = "waiting") => waiters' = waiters
<1>1. CASE call[c].op # "waiting" /\ call'[c].op = "waiting"
  <2>1. waiters' = waiters \cup {c} /\ c \notin waiters
    BY <1>1 DEF waiters
  <2> QED BY <1>1, <2>1, WaitersFinite, FS_AddElement
<1>2. CASE call[c].op = "waiting" /\ call'[c].op # "waiting"
  <2>1. waiters' = waiters \ {c} /\ c \in waiters
    BY <1>2 DEF waiters
  <2> QED BY <1>2, <2>1, WaitersFinite, FS_RemoveElement
<1>3. CASE call[c].op = "waiting" <=> call'[c].op = "waiting"
  BY <1>3 DEF waiters
<1> QED BY <1>1, <1>2, <1>3

\* Every wait has its signal and every signal its wait, whoever it wakes.
LEMMA BalanceStep ==
  PollTypes /\ OwnerWaits /\ Waits = Signals /\ [PollNext]_pollVars => OwnerWaits' /\ (Waits = Signals)'
<1> SUFFICES ASSUME PollTypes, OwnerWaits, Waits = Signals, [PollNext]_pollVars
             PROVE  OwnerWaits' /\ (Waits = Signals)'
  OBVIOUS
<1>0. Cardinality(waiters) \in Nat /\ Cardinality(SyncPending) \in Nat /\ pipe \in Seq(PollCommands)
  BY WaitersFinite, PendingFinite DEF PollTypes
<1>1. CASE Launch
  BY <1>1 DEF Launch, OwnerWaits, Waits, Signals, waiters, SyncPending, ThreadAt
<1>2. CASE Release
  <2>1. OwnerWaits' /\ waiters' = waiters
    BY <1>2 DEF Release, OwnerWaits, waiters, ThreadAt
  <2>2. CASE state = "STOPPED"
    BY <1>2, <2>1, <2>2 DEF Release, Waits, Signals, SyncPending, ThreadAt
  <2>3. CASE state # "STOPPED"
    <3>1. Cardinality(SyncPending') = Cardinality(SyncPending) + 1
      BY <1>0, <1>2, <2>3, PendingWritten DEF Release, PollCommands
    <3> QED BY <1>0, <1>2, <2>1, <2>3, <3>1 DEF Release, Waits, Signals, ThreadAt
  <2> QED BY <2>2, <2>3
<1>3. CASE Join
  <2>1. waiters = {} /\ waiters' = {} /\ OwnerWaits'
    BY <1>3 DEF Join, OwnerWaits, waiters, NoCall, ThreadAt
  <2>2. SyncPending' = {}
    BY <1>3, EmptySeq DEF Join, SyncPending
  <2> QED BY <1>3, <2>1, <2>2, FS_EmptySet DEF Join, Waits, Signals, ThreadAt
<1>4. ASSUME NEW c \in Clients, Client(c) PROVE OwnerWaits' /\ (Waits = Signals)'
  <2>1. ASSUME NEW s \in Streams, add_poll_fd(c, s) \/ del_poll_fd_async(c, s) \/ del_poll_fd(c, s)
        PROVE  OwnerWaits' /\ (Waits = Signals)'
    <3>1. /\ owner = "up" /\ UNCHANGED <<owner, pipe, pc>>
          /\ \A d \in Clients : d # c => call'[d] = call[d]
          /\ call[c].op # "waiting" /\ call'[c].op # "waiting"
      BY <2>1 DEF add_poll_fd, del_poll_fd_async, del_poll_fd, PollTypes, NoCall, Sig, SyncSig
    <3>2. waiters' = waiters
      BY <3>1, WaiterCount
    <3> QED BY <3>1, <3>2 DEF OwnerWaits, Waits, Signals, SyncPending, ThreadAt
  <2>2. ASSUME poll_sig(c) PROVE OwnerWaits' /\ (Waits = Signals)'
    <3>1. /\ owner = "up" /\ UNCHANGED <<owner, pc>>
          /\ \A d \in Clients : d # c => call'[d] = call[d]
      BY <2>2 DEF poll_sig, PollTypes, OwnerWaits, NoCall
    <3>2. CASE call[c].op = "sig"
      <4>1. Cardinality(SyncPending') = Cardinality(SyncPending)
        BY <1>0, <2>2, <3>2, PendingWritten DEF poll_sig, PollCommands
      <4>2. waiters' = waiters
        BY <2>2, <3>1, <3>2, WaiterCount DEF poll_sig, PollTypes, NoCall
      <4> QED BY <3>1, <4>1, <4>2 DEF OwnerWaits, Waits, Signals, ThreadAt
    <3>3. CASE call[c].op = "syncsig"
      <4>1. Cardinality(SyncPending') = Cardinality(SyncPending) + 1
        BY <1>0, <2>2, <3>3, PendingWritten DEF poll_sig, PollCommands
      <4>2. Cardinality(waiters') = Cardinality(waiters) + 1
        BY <2>2, <3>1, <3>3, WaiterCount DEF poll_sig, PollTypes, Waiting
      <4> QED BY <1>0, <3>1, <4>1, <4>2 DEF OwnerWaits, Waits, Signals, ThreadAt
    <3> QED BY <2>2, <3>2, <3>3 DEF poll_sig
  <2> QED BY <1>4, <2>1, <2>2 DEF Client
<1>5. CASE poll_thread_start \/ poll_set_state \/ scan_done
  <2>1. waiters' = waiters /\ SyncPending' = SyncPending
    BY <1>5 DEF poll_thread_start, poll_set_state, scan_done, waiters, SyncPending
  <2>2. OwnerWaits' /\ (owner = "releasing" <=> owner' = "releasing")
    BY <1>5 DEF poll_thread_start, poll_set_state, scan_done, OwnerWaits, ThreadAt
  <2>3. ~ThreadAt("sigdone") /\ ~ThreadAt("sigdone")'
    BY <1>5 DEF poll_thread_start, poll_set_state, scan_done, ThreadAt
  <2> QED BY <2>1, <2>2, <2>3 DEF Waits, Signals
<1>6. CASE poll_proc_pipe
  <2>1. OwnerWaits' /\ waiters' = waiters /\ owner' = owner
    BY <1>6 DEF poll_proc_pipe, OwnerWaits, waiters, ThreadAt
  <2>2. /\ Cardinality(SyncPending') \in Nat
        /\ Cardinality(SyncPending) =
             Cardinality(SyncPending') + (IF Head(pipe) = "ASYNC" THEN 0 ELSE 1)
    BY <1>0, <1>6, PendingRead DEF poll_proc_pipe
  <2> QED BY <1>0, <1>6, <2>1, <2>2 DEF poll_proc_pipe, Waits, Signals, ThreadAt
<1>7. CASE poll_sig_done
  <2>1. SyncPending' = SyncPending /\ ThreadAt("sigdone") /\ ~ThreadAt("sigdone")' /\ ~ThreadAt("start")'
    BY <1>7 DEF poll_sig_done, SyncPending, ThreadAt
  <2>2. CASE owner = "releasing" /\ owner' = "joining" /\ UNCHANGED call
    BY <1>0, <1>7, <2>1, <2>2 DEF OwnerWaits, Waits, Signals, waiters
  <2>3. ASSUME NEW c \in waiters, del_returns(c), UNCHANGED owner
        PROVE  OwnerWaits' /\ (Waits = Signals)'
    <3>1. owner = "up"
      BY <2>3 DEF OwnerWaits, waiters, NoCall
    <3>2. Cardinality(waiters') = Cardinality(waiters) - 1
      <4>1. call'[c].op # "waiting" /\ \A d \in Clients : d # c => call'[d] = call[d]
        BY <2>3 DEF del_returns, PollTypes, NoCall, waiters
      <4> QED BY <4>1, WaiterCount DEF waiters
    <3> QED BY <1>0, <2>1, <2>3, <3>1, <3>2 DEF OwnerWaits, Waits, Signals
  <2> QED BY <1>7, <2>2, <2>3 DEF poll_sig_done, signal
<1>8. ASSUME NEW s \in Streams, notify(s) \/ cb_del_poll_fd(s) \/ cb_return(s)
      PROVE  OwnerWaits' /\ (Waits = Signals)'
  <2>1. waiters' = waiters /\ SyncPending' = SyncPending /\ UNCHANGED <<owner, call>>
    BY <1>8 DEF notify, cb_del_poll_fd, cb_return, waiters, SyncPending
  <2>2. pc.at \notin {"start", "sigdone"} /\ pc'.at \notin {"start", "sigdone"}
    BY <1>8 DEF notify, cb_del_poll_fd, cb_return, ThreadAt
  <2> QED BY <2>1, <2>2 DEF OwnerWaits, Waits, Signals, ThreadAt
<1>9. ASSUME NEW s \in Streams, cb_poll_sig(s) PROVE OwnerWaits' /\ (Waits = Signals)'
  <2>1. Cardinality(SyncPending') = Cardinality(SyncPending)
    BY <1>0, <1>9, PendingWritten DEF cb_poll_sig, PollCommands
  <2> QED BY <1>9, <2>1 DEF cb_poll_sig, OwnerWaits, Waits, Signals, waiters, ThreadAt
<1>10. ASSUME NEW ready \in SUBSET pollFds, poll_returns(ready)
       PROVE  OwnerWaits' /\ (Waits = Signals)'
  BY <1>10 DEF poll_returns, OwnerWaits, Waits, Signals, waiters, SyncPending, ThreadAt
<1>11. CASE UNCHANGED pollVars
  BY <1>11 DEF pollVars, OwnerWaits, Waits, Signals, waiters, SyncPending, ThreadAt
<1> QED BY <1>1, <1>2, <1>3, <1>4, <1>5, <1>6, <1>7, <1>8, <1>9, <1>10, <1>11 DEF PollNext, Thread

\* There are as many pending sync commands as threads that wait: no wakeup of
\* mm_camera_poll_sig is lost and none is left over.
THEOREM EveryWaiterHasASignalAlways == PollSpec => []EveryWaiterHasASignal
<1>1. PollInit => PollTypes /\ OwnerWaits /\ Waits = Signals
  <2> SUFFICES ASSUME PollInit PROVE PollTypes /\ OwnerWaits /\ Waits = Signals
    OBVIOUS
  <2>1. PollTypes
    BY EmptySeq DEF PollInit, PollTypes, ThreadPlaces, Calls, NoCall
  <2>2. waiters = {} /\ SyncPending = {} /\ OwnerWaits
    BY EmptySeq DEF PollInit, waiters, SyncPending, OwnerWaits, NoCall, ThreadAt
  <2> QED BY <2>1, <2>2, FS_EmptySet DEF PollInit, Waits, Signals, ThreadAt
<1>2. Waits = Signals => EveryWaiterHasASignal
  BY DEF Waits, Signals, EveryWaiterHasASignal
<1> QED BY <1>1, <1>2, PollTypesStep, BalanceStep, PTL DEF PollSpec

-----------------------------------------------------------------------------
(* How much the pipe holds.                                                *)

\* Callbacks of the scan that are still to write, or may be.
ToWrite == Cardinality(revents) + (IF pc.at \in {"cb", "cbsig"} THEN 1 ELSE 0)
Room == MaxPipe + Cardinality(Streams) + (IF owner \in {"releasing", "joining"} THEN 1 ELSE 0)

\* The poll thread reads the pipe empty before it scans, and what the scan may
\* write is reserved until it is over.
PipeHasRoom ==
  /\ owner \in {"none", "launching", "up", "releasing", "joining", "released"}
  /\ state \in {"STOPPED", "POLL"}
  /\ pc.at = "start" => owner = "launching"
  /\ pc.at \notin {"scan", "cb", "cbsig", "cbend"} => revents = {}
  /\ ToWrite <= Cardinality(Streams)
  /\ Len(pipe) + ToWrite <= Room

LEMMA StreamsFinite ==
  /\ MaxPipe \in Nat /\ Cardinality(Streams) \in Nat
  /\ \A S \in SUBSET Streams :
       IsFiniteSet(S) /\ Cardinality(S) \in Nat /\ Cardinality(S) <= Cardinality(Streams)
BY PollThreadAssumption, FS_Subset, FS_CardinalityType

\* No step writes into a full pipe.
LEMMA RoomStep == PollTypes /\ PipeHasRoom /\ [PollNext]_pollVars => PipeHasRoom'
<1> SUFFICES ASSUME PollTypes, PipeHasRoom, [PollNext]_pollVars PROVE PipeHasRoom'
  OBVIOUS
<1>0. /\ pipe \in Seq(PollCommands) /\ Len(pipe) \in Nat /\ Cardinality(revents) \in Nat
      /\ MaxPipe \in Nat /\ Cardinality(Streams) \in Nat
  BY LenProperties, StreamsFinite DEF PollTypes
<1>1. CASE Launch
  BY <1>0, <1>1 DEF Launch, PipeHasRoom, ToWrite, Room
<1>2. CASE Release
  <2>1. CASE state = "STOPPED"
    BY <1>0, <1>2, <2>1 DEF Release, PipeHasRoom, ToWrite, Room
  <2>2. CASE state # "STOPPED"
    <3>1. Len(pipe') = Len(pipe) + 1
      BY <1>0, <1>2, <2>2, Written DEF Release, PollCommands
    <3> QED BY <1>0, <1>2, <2>2, <3>1 DEF Release, PipeHasRoom, ToWrite, Room
  <2> QED BY <2>1, <2>2
<1>3. CASE Join
  <2>1. Len(pipe') = 0
    BY <1>3, EmptySeq DEF Join
  <2> QED BY <1>0, <1>3, <2>1 DEF Join, PipeHasRoom, ToWrite, Room
<1>4. ASSUME NEW c \in Clients, Client(c) PROVE PipeHasRoom'
  <2>1. ASSUME NEW s \in Streams, add_poll_fd(c, s) \/ del_poll_fd_async(c, s) \/ del_poll_fd(c, s)
        PROVE  PipeHasRoom'
    BY <2>1 DEF add_poll_fd, del_poll_fd_async, del_poll_fd, PipeHasRoom, ToWrite, Room
  <2>2. CASE poll_sig(c)
    <3>1. Len(pipe') = Len(pipe) + 1 /\ Len(pipe) < MaxPipe
      BY <1>0, <2>2, Written DEF poll_sig, PollCommands
    <3> QED BY <1>0, <2>2, <3>1 DEF poll_sig, PipeHasRoom, ToWrite, Room
  <2> QED BY <1>4, <2>1, <2>2 DEF Client
<1>5. CASE poll_thread_start \/ poll_set_state
  BY <1>0, <1>5 DEF poll_thread_start, poll_set_state, PipeHasRoom, ToWrite, Room, ThreadAt
<1>6. CASE scan_done
  BY <1>0, <1>6 DEF scan_done, PipeHasRoom, ToWrite, Room, ThreadAt
<1>7. CASE poll_proc_pipe
  <2>1. Len(pipe') = Len(pipe) - 1
    BY <1>0, <1>7, HeadTailProperties DEF poll_proc_pipe
  <2> QED BY <1>0, <1>7, <2>1 DEF poll_proc_pipe, PipeHasRoom, ToWrite, Room, ThreadAt
<1>8. CASE poll_sig_done
  BY <1>0, <1>8 DEF poll_sig_done, signal, PipeHasRoom, ToWrite, Room, ThreadAt
<1>9. ASSUME NEW s \in Streams, notify(s) PROVE PipeHasRoom'
  <2>1. Cardinality(revents') = Cardinality(revents) - 1
    BY <1>9, StreamsFinite, FS_RemoveElement DEF notify, PollTypes
  <2>2. pc.at = "scan" /\ pc'.at \in {"scan", "cb"}
    BY <1>9 DEF notify, ThreadAt
  <2> QED BY <1>0, <1>9, <2>1, <2>2 DEF notify, PipeHasRoom, ToWrite, Room
<1>10. ASSUME NEW s \in Streams, cb_del_poll_fd(s) \/ cb_return(s) PROVE PipeHasRoom'
  BY <1>0, <1>10 DEF cb_del_poll_fd, cb_return, PipeHasRoom, ToWrite, Room
<1>11. ASSUME NEW s \in Streams, cb_poll_sig(s) PROVE PipeHasRoom'
  <2>1. Len(pipe') = Len(pipe) + 1
    BY <1>0, <1>11, Written DEF cb_poll_sig, PollCommands
  <2> QED BY <1>0, <1>11, <2>1 DEF cb_poll_sig, PipeHasRoom, ToWrite, Room
<1>12. ASSUME NEW ready \in SUBSET pollFds, poll_returns(ready) PROVE PipeHasRoom'
  <2>1. Cardinality(ready) \in Nat /\ Cardinality(ready) <= Cardinality(Streams)
    BY StreamsFinite DEF PollTypes
  <2>2. Len(pipe) = 0
    BY <1>12, EmptySeq DEF poll_returns
  <2> QED BY <1>0, <1>12, <2>1, <2>2 DEF poll_returns, PipeHasRoom, ToWrite, Room
<1>13. CASE UNCHANGED pollVars
  BY <1>13 DEF pollVars, PipeHasRoom, ToWrite, Room
<1> QED
  BY <1>1, <1>2, <1>3, <1>4, <1>5, <1>6, <1>7, <1>8, <1>9, <1>10, <1>11, <1>12, <1>13
  DEF PollNext, Thread

\* Every variable keeps its type, and the pipe holds at most what the clients,
\* one callback per stream of a scan and the release write (mm_camera_poll_sig,
\* mm_camera_poll_sig_async), within the bound MaxPipe.
THEOREM PollTyped == PollSpec => []PollTypeOK
<1>1. PollInit => PollTypes /\ PipeHasRoom
  <2> SUFFICES ASSUME PollInit PROVE PollTypes /\ PipeHasRoom
    OBVIOUS
  <2>1. PollTypes
    BY EmptySeq DEF PollInit, PollTypes, ThreadPlaces, Calls, NoCall
  <2>2. PipeHasRoom
    BY EmptySeq, FS_EmptySet, StreamsFinite DEF PollInit, PipeHasRoom, ToWrite, Room
  <2> QED BY <2>1, <2>2
<1>2. PollTypes /\ PipeHasRoom => PollTypeOK
  <2> SUFFICES ASSUME PollTypes, PipeHasRoom PROVE PollTypeOK
    OBVIOUS
  <2>1. Len(pipe) \in Nat /\ ToWrite \in Nat /\ Room \in Nat /\ Room <= MaxPipe + Cardinality(Streams) + 1
    BY LenProperties, StreamsFinite DEF PollTypes, ToWrite, Room
  <2>2. Len(pipe) <= MaxPipe + Cardinality(Streams) + 1
    BY <2>1, StreamsFinite DEF PipeHasRoom
  <2> QED BY <2>2 DEF PollTypeOK, PollTypes, PipeHasRoom, ThreadPlaces, PollCommands
<1> QED BY <1>1, <1>2, PollTypesStep, RoomStep, PTL DEF PollSpec
==============================================================================
