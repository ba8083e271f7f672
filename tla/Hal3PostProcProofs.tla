------------------------- MODULE Hal3PostProcProofs -------------------------
(***************************************************************************)
(* No wakeup of the HAL3 postprocessor's data thread is lost, for any      *)
(* number of requests, flushes and faults.  The commands to do the next    *)
(* job are counted: there are as many as the longest queue of jobs needs.  *)
(* And each picture is its own request's: the queues that are paired by    *)
(* their order hold the same requests in the same order, and a request is  *)
(* in one place at a time, until a stop leaves settings behind or live and *)
(* input requests wait together.                                           *)
(***************************************************************************)
EXTENDS Hal3PostProc, Integers, FiniteSets, SequenceTheorems, FiniteSetTheorems, TLAPS

-----------------------------------------------------------------------------
(* Queues, whatever is in them.                                            *)

IsQueue(q) == \E S : q \in Seq(S)

LEMMA EmptyQueue == IsQueue(<<>>) /\ Len(<<>>) = 0
BY EmptySeq DEF IsQueue

LEMMA QueueLength ==
    ASSUME NEW q, IsQueue(q)
    PROVE  Len(q) \in Nat /\ (q # <<>> <=> Len(q) > 0)
BY LenProperties, EmptySeq DEF IsQueue

LEMMA Appended ==
    ASSUME NEW q, NEW x, IsQueue(q)
    PROVE  /\ IsQueue(Append(q, x)) /\ Append(q, x) # <<>>
           /\ Len(Append(q, x)) = Len(q) + 1
<1>1. PICK S : q \in Seq(S)
  BY DEF IsQueue
<1>2. q \in Seq(S \cup {x})
  BY <1>1, SeqMonotonic
<1> QED BY <1>2, AppendProperties DEF IsQueue

LEMMA Taken ==
    ASSUME NEW q, IsQueue(q), q # <<>>
    PROVE  IsQueue(Tail(q)) /\ Len(Tail(q)) = Len(q) - 1
BY HeadTailProperties DEF IsQueue

\* A flushed queue stays empty.
LEMMA Enqueued ==
    ASSUME NEW q, NEW x, IsQueue(q)
    PROVE  /\ IsQueue(enqueue(q, x)) /\ Len(enqueue(q, x)) <= Len(q) + 1
           /\ ~active => enqueue(q, x) = q
<1>1. CASE active
  BY <1>1, Appended, QueueLength DEF enqueue
<1>2. CASE ~active
  BY <1>2, QueueLength DEF enqueue
<1> QED BY <1>1, <1>2

-----------------------------------------------------------------------------
(* The commands.                                                           *)

Commands == {"start", "stop", "next"}
Nexts(q) == {i \in DOMAIN q : q[i] = "next"}
Count(q) == Cardinality(Nexts(q))

LEMMA Counts ==
    ASSUME NEW q \in Seq(Commands)
    PROVE  /\ IsFiniteSet(Nexts(q)) /\ Count(q) \in Nat
           /\ Count(q) > 0 => \E i \in DOMAIN q : q[i] = "next"
<1>1. DOMAIN q = 1 .. Len(q) /\ Len(q) \in Nat
  BY LenProperties
<1>2. IsFiniteSet(DOMAIN q)
  BY <1>1, FS_Interval
<1>3. IsFiniteSet(Nexts(q))
  BY <1>2, FS_Subset DEF Nexts
<1>4. Count(q) \in Nat /\ (Count(q) = 0 <=> Nexts(q) = {})
  BY <1>3, FS_CardinalityType, FS_EmptySet DEF Count
<1> QED BY <1>3, <1>4 DEF Nexts

LEMMA CountAppended ==
    ASSUME NEW q \in Seq(Commands), NEW x \in Commands
    PROVE  /\ Append(q, x) \in Seq(Commands)
           /\ Count(Append(q, x)) = Count(q) + (IF x = "next" THEN 1 ELSE 0)
<1> DEFINE n == Len(q) + 1
           r == Append(q, x)
<1>1. /\ r \in Seq(Commands) /\ Len(r) = n /\ r[n] = x /\ Len(q) \in Nat
      /\ \A i \in 1 .. Len(q) : r[i] = q[i]
  BY AppendProperties, LenProperties
<1>2. DOMAIN q = 1 .. Len(q) /\ DOMAIN r = 1 .. n
  BY <1>1, LenProperties
<1> HIDE DEF r
<1>3. CASE x = "next"
  <2>1. Nexts(r) = Nexts(q) \cup {n} /\ n \notin Nexts(q)
    BY <1>1, <1>2, <1>3 DEF Nexts
  <2> HIDE DEF n
  <2>2. Count(r) = Count(q) + 1
    BY <2>1, Counts, FS_AddElement DEF Count
  <2> QED BY <1>1, <1>3, <2>2 DEF r
<1>4. CASE x # "next"
  <2>1. Nexts(r) = Nexts(q)
    BY <1>1, <1>2, <1>4 DEF Nexts
  <2>2. Count(r) = Count(q) + 0
    BY <2>1, Counts DEF Count
  <2> QED BY <1>1, <1>4, <2>2 DEF r
<1> QED BY <1>3, <1>4

LEMMA CountTaken ==
    ASSUME NEW q \in Seq(Commands), q # <<>>
    PROVE  /\ Tail(q) \in Seq(Commands) /\ Head(q) \in Commands
           /\ Count(Tail(q)) = Count(q) - (IF Head(q) = "next" THEN 1 ELSE 0)
<1> DEFINE r == Tail(q)
           rest == Nexts(q) \ {1}
           f == [i \in rest |-> i - 1]
<1>1. /\ r \in Seq(Commands) /\ Head(q) \in Commands /\ Head(q) = q[1]
      /\ Len(q) \in Nat \ {0} /\ Len(r) = Len(q) - 1
      /\ \A i \in 1 .. Len(r) : r[i] = q[i + 1]
  BY HeadTailProperties, LenProperties, EmptySeq
<1>2. DOMAIN q = 1 .. Len(q) /\ DOMAIN r = 1 .. Len(r)
  BY <1>1, LenProperties
<1> HIDE DEF r
<1>3. /\ \A i \in rest : i \in 2 .. Len(q) /\ i - 1 \in Nexts(r)
      /\ \A j \in Nexts(r) : j \in Nat /\ j + 1 \in rest
  BY <1>1, <1>2 DEF Nexts
<1>4. f \in Bijection(rest, Nexts(r))
  <2>1. f \in [rest -> Nexts(r)]
    BY <1>3
  <2>2. \A i, j \in rest : f[i] = f[j] => i = j
    BY <1>3
  <2>3. \A j \in Nexts(r) : \E i \in rest : f[i] = j
    <3>1. ASSUME NEW j \in Nexts(r) PROVE f[j + 1] = j /\ j + 1 \in rest
      BY <1>3
    <3> QED BY <3>1
  <2> HIDE DEF f, rest
  <2> QED BY <2>1, <2>2, <2>3 DEF Bijection, Injection, Surjection, IsInjective
<1>5. /\ IsFiniteSet(rest) /\ Cardinality(rest) = Count(q) - (IF 1 \in Nexts(q) THEN 1 ELSE 0)
  BY Counts, FS_RemoveElement DEF Count
<1>6. 1 \in Nexts(q) <=> Head(q) = "next"
  BY <1>1, <1>2 DEF Nexts
<1>7. Count(r) = Cardinality(rest)
  <2> HIDE DEF f, rest
  <2>1. ExistsBijection(rest, Nexts(r))
    BY <1>4 DEF ExistsBijection
  <2> QED BY <1>5, <2>1, FS_Bijection DEF Count
<1> QED BY <1>1, <1>5, <1>6, <1>7 DEF r

-----------------------------------------------------------------------------
(* The invariant.                                                          *)

Types ==
    /\ cmds \in Seq(Commands) /\ active \in BOOLEAN /\ dp \in {"idle", "fwk", "pp"}
    /\ IsQueue(inputPP) /\ IsQueue(inputMeta) /\ IsQueue(inputFWK) /\ IsQueue(ongoingJpeg)

\* An inactive data thread has nothing to do.
Flushed == ~active => inputPP = <<>> /\ inputMeta = <<>> /\ inputFWK = <<>> /\ inputJpeg = <<>>

\* The command in hand counts for the queues it has not come to.
InHand(places) == IF dp \in places THEN 1 ELSE 0

Signalled ==
    active =>
        /\ Len(inputFWK) <= Count(cmds) + InHand({"fwk"})
        /\ \/ Len(inputPP) <= Count(cmds) + InHand({"fwk", "pp"})
           \/ Len(inputMeta) <= Count(cmds) + InHand({"fwk", "pp"})
        /\ inputJpeg # <<>> /\ ongoingJpeg = <<>> /\ event = {} => Count(cmds) > 0

Ind == Types /\ Flushed /\ Signalled

LEMMA Numbers ==
    ASSUME Types
    PROVE  /\ Count(cmds) \in Nat
           /\ Len(inputPP) \in Nat /\ Len(inputMeta) \in Nat /\ Len(inputFWK) \in Nat
           /\ inputPP # <<>> <=> Len(inputPP) > 0
           /\ inputMeta # <<>> <=> Len(inputMeta) > 0
           /\ inputFWK # <<>> <=> Len(inputFWK) > 0
BY Counts, QueueLength DEF Types

\* A step that leaves the queues of jobs alone and takes no command.
LEMMA NothingToDo ==
    ASSUME Ind, UNCHANGED <<active, dp, inputPP, inputMeta, inputFWK, inputJpeg>>,
           cmds' \in Seq(Commands), Count(cmds') >= Count(cmds), Count(cmds') \in Nat,
           IsQueue(ongoingJpeg'),
           (active /\ ongoingJpeg' = <<>> /\ event' = {} /\ ~(ongoingJpeg = <<>> /\ event = {}))
               => Count(cmds') > 0
    PROVE  Ind'
<1>1. Types' /\ Flushed'
  BY DEF Ind, Types, Flushed
<1>2. Signalled'
  BY Numbers DEF Ind, Signalled, InHand, Types
<1> QED BY <1>1, <1>2 DEF Ind

LEMMA OneMore ==
    ASSUME Types, NEW x \in Commands, cmds' = Append(cmds, x)
    PROVE  /\ cmds' \in Seq(Commands) /\ Count(cmds') \in Nat /\ Count(cmds') >= Count(cmds)
           /\ x = "next" => Count(cmds') = Count(cmds) + 1
BY CountAppended, Counts DEF Types

LEMMA OneLess ==
    ASSUME Types, cmds # <<>>, cmds' = Tail(cmds)
    PROVE  /\ cmds' \in Seq(Commands) /\ Count(cmds') \in Nat
           /\ Head(cmds) = "next" => Count(cmds') = Count(cmds) - 1
           /\ Head(cmds) # "next" => Count(cmds') = Count(cmds)
<1>1. /\ cmds' \in Seq(Commands)
      /\ Count(cmds') = Count(cmds) - (IF Head(cmds) = "next" THEN 1 ELSE 0)
  BY CountTaken DEF Types
<1>2. Count(cmds) \in Nat /\ Count(cmds') \in Nat
  BY <1>1, Counts DEF Types
<1> QED BY <1>1, <1>2

-----------------------------------------------------------------------------
(* The request thread.                                                     *)

LEMMA RequestStep ==
    ASSUME Ind, NEW f \in Frames, NEW kind, Request(f, kind)
    PROVE  Ind'
<1>1. UNCHANGED <<active, dp, inputPP, inputMeta, inputFWK, inputJpeg, ongoingJpeg, event>>
  BY DEF Request, queues
<1>2. cmds' = cmds \/ cmds' = Append(cmds, "start")
  BY DEF Request
<1>3. cmds' \in Seq(Commands) /\ Count(cmds') \in Nat /\ Count(cmds') >= Count(cmds)
  <2>1. "start" \in Commands
    BY DEF Commands
  <2> QED BY <1>2, <2>1, OneMore, Numbers DEF Ind, Types
<1> QED BY <1>1, <1>3, NothingToDo DEF Ind, Types

LEMMA StopStep ==
    ASSUME Ind, Stop
    PROVE  Ind'
<1>1. UNCHANGED <<active, dp, inputPP, inputMeta, inputFWK, inputJpeg, ongoingJpeg, event>>
  BY DEF Stop, queues
<1>2. cmds' = <<"stop">> \o cmds /\ cmds \in Seq(Commands) /\ <<"stop">> \in Seq(Commands)
  BY DEF Stop, Ind, Types, Commands
<1>3. /\ cmds' \in Seq(Commands) /\ Len(cmds') = 1 + Len(cmds) /\ Len(cmds) \in Nat
      /\ \A i \in 1 .. 1 + Len(cmds) : cmds'[i] = IF i <= 1 THEN "stop" ELSE cmds[i - 1]
  BY <1>2, ConcatProperties, LenProperties
<1>4. cmds' # <<>> /\ Head(cmds') = "stop" /\ Tail(cmds') = cmds
  <2>1. cmds' # <<>> /\ Head(cmds') = cmds'[1]
    BY <1>3, EmptySeq
  <2>2. /\ Tail(cmds') \in Seq(Commands) /\ Len(Tail(cmds')) = Len(cmds)
        /\ \A i \in 1 .. Len(cmds) : Tail(cmds')[i] = cmds'[i + 1]
    BY <1>3, <2>1, HeadTailProperties
  <2>3. \A i \in 1 .. Len(cmds) : Tail(cmds')[i] = cmds[i]
    BY <1>3, <2>2
  <2>4. Tail(cmds') = cmds
    BY <1>2, <2>2, <2>3, SeqEqual
  <2> QED BY <1>3, <2>1, <2>4
<1>5. Count(cmds') = Count(cmds) /\ Count(cmds) \in Nat
  <2>1. Count(cmds) = Count(cmds') - 0
    BY <1>3, <1>4, CountTaken
  <2>2. Count(cmds) \in Nat /\ Count(cmds') \in Nat
    BY <1>3, Counts, Numbers DEF Ind
  <2> QED BY <2>1, <2>2
<1> QED BY <1>1, <1>3, <1>5, NothingToDo DEF Ind, Types

\* Settings are queued, buffers handed out, streams stopped.
LEMMA AsideStep ==
    ASSUME Ind, QueueLive \/ StreamsStop
    PROVE  Ind'
<1>1. UNCHANGED <<cmds, active, dp, inputPP, inputMeta, inputFWK, inputJpeg, ongoingJpeg, event>>
  BY DEF QueueLive, StreamsStop, queues
<1> QED BY <1>1, NothingToDo, Numbers DEF Ind, Types

LEMMA QueueInputStep ==
    ASSUME Ind, QueueInput
    PROVE  Ind'
<1>1. UNCHANGED <<active, dp, inputPP, inputMeta, ongoingJpeg, event>> /\ cmds' = Append(cmds, "next")
  BY DEF QueueInput, ToReprocess, ToEncoder, DoNext
<1>2. cmds' \in Seq(Commands) /\ Count(cmds') \in Nat /\ Count(cmds') = Count(cmds) + 1
  <2>1. "next" \in Commands
    BY DEF Commands
  <2> QED BY <1>1, <2>1, OneMore DEF Ind
<1>3. /\ IsQueue(inputFWK') /\ Len(inputFWK') <= Len(inputFWK) + 1
      /\ ~active => inputFWK' = inputFWK /\ inputJpeg' = inputJpeg
  <2>1. \/ inputFWK' = inputFWK
        \/ inputFWK' = enqueue(inputFWK, Current)
    BY DEF QueueInput, ToReprocess, ToEncoder
  <2>2. \/ inputJpeg' = inputJpeg
        \/ \E x : inputJpeg' = enqueue(inputJpeg, x)
    BY DEF QueueInput, ToReprocess, ToEncoder
  <2>3. ~active => inputJpeg' = inputJpeg
    BY <2>2 DEF enqueue
  <2> QED BY <2>1, <2>3, Enqueued, QueueLength DEF Ind, Types
<1>4. Types' /\ Flushed'
  BY <1>1, <1>2, <1>3 DEF Ind, Types, Flushed
<1>5. Signalled'
  <2>1. Len(inputFWK') \in Nat
    BY <1>3, QueueLength
  <2> QED BY <1>1, <1>2, <1>3, <2>1, Numbers DEF Ind, Signalled, InHand
<1> QED BY <1>4, <1>5 DEF Ind

-----------------------------------------------------------------------------
(* The callbacks.                                                          *)

\* The second of a pair wakes the data thread.
LEMMA ImageStep ==
    ASSUME Ind, ImageArrives
    PROVE  Ind'
<1>1. /\ UNCHANGED <<active, dp, inputMeta, inputFWK, inputJpeg, ongoingJpeg, event>>
      /\ cmds' = IF inputMeta # <<>> THEN Append(cmds, "next") ELSE cmds
      /\ \E x : inputPP' = enqueue(inputPP, x)
  BY DEF ImageArrives, wake_for_pair, DoNext
<1>2. IsQueue(inputPP') /\ Len(inputPP') <= Len(inputPP) + 1 /\ (~active => inputPP' = inputPP)
  BY <1>1, Enqueued DEF Ind, Types
<1>3. /\ cmds' \in Seq(Commands) /\ Count(cmds') \in Nat
      /\ Count(cmds') = Count(cmds) + (IF inputMeta # <<>> THEN 1 ELSE 0)
  <2>1. "next" \in Commands
    BY DEF Commands
  <2> QED BY <1>1, <2>1, OneMore, Numbers DEF Ind, Types
<1>4. Types' /\ Flushed'
  BY <1>1, <1>2, <1>3 DEF Ind, Types, Flushed
<1>5. Signalled'
  <2>1. Len(inputPP') \in Nat
    BY <1>2, QueueLength
  <2> QED BY <1>1, <1>2, <1>3, <2>1, Numbers DEF Ind, Signalled, InHand
<1> QED BY <1>4, <1>5 DEF Ind

LEMMA MetadataStep ==
    ASSUME Ind, MetadataArrives
    PROVE  Ind'
<1>1. /\ UNCHANGED <<active, dp, inputPP, inputFWK, inputJpeg, ongoingJpeg, event>>
      /\ cmds' = IF inputPP # <<>> THEN Append(cmds, "next") ELSE cmds
      /\ \E x : inputMeta' = enqueue(inputMeta, x)
  BY DEF MetadataArrives, wake_for_pair, DoNext
<1>2. IsQueue(inputMeta') /\ Len(inputMeta') <= Len(inputMeta) + 1 /\ (~active => inputMeta' = inputMeta)
  BY <1>1, Enqueued DEF Ind, Types
<1>3. /\ cmds' \in Seq(Commands) /\ Count(cmds') \in Nat
      /\ Count(cmds') = Count(cmds) + (IF inputPP # <<>> THEN 1 ELSE 0)
  <2>1. "next" \in Commands
    BY DEF Commands
  <2> QED BY <1>1, <2>1, OneMore, Numbers DEF Ind, Types
<1>4. Types' /\ Flushed'
  BY <1>1, <1>2, <1>3 DEF Ind, Types, Flushed
<1>5. Signalled'
  <2>1. Len(inputMeta') \in Nat
    BY <1>2, QueueLength
  <2> QED BY <1>1, <1>2, <1>3, <2>1, Numbers DEF Ind, Signalled, InHand
<1> QED BY <1>4, <1>5 DEF Ind

\* A reprocessed picture comes with its command.
LEMMA JobOfPicture ==
    ASSUME Types, NEW img, NEW q, processPPData(img, q)
    PROVE  /\ cmds' \in Seq(Commands) /\ Count(cmds') \in Nat /\ Count(cmds') >= Count(cmds)
           /\ ~active => inputJpeg' = inputJpeg
           /\ inputJpeg' # inputJpeg => Count(cmds') > 0
<1>1. CASE UNCHANGED <<inputJpeg, cmds>>
  BY <1>1, Numbers DEF Types
<1>2. CASE inputJpeg' = enqueue(inputJpeg, job_of(img, q)) /\ DoNext
  <2>1. cmds' = Append(cmds, "next") /\ "next" \in Commands
    BY <1>2 DEF DoNext, Commands
  <2>2. Count(cmds') = Count(cmds) + 1 /\ Count(cmds') \in Nat /\ cmds' \in Seq(Commands)
    BY <2>1, OneMore
  <2> QED BY <1>2, <2>2, Numbers DEF enqueue
<1> QED BY <1>1, <1>2 DEF processPPData

LEMMA ReprocessedStep ==
    ASSUME Ind, Reprocessed
    PROVE  Ind'
<1>1. /\ UNCHANGED <<active, dp, inputPP, inputMeta, inputFWK, ongoingJpeg, event>>
      /\ processPPData(Head(hw), ongoingPP)
  BY DEF Reprocessed
<1>2. /\ cmds' \in Seq(Commands) /\ Count(cmds') \in Nat /\ Count(cmds') >= Count(cmds)
      /\ ~active => inputJpeg' = inputJpeg
      /\ inputJpeg' # inputJpeg => Count(cmds') > 0
  BY <1>1, JobOfPicture DEF Ind
<1>3. Types' /\ Flushed'
  BY <1>1, <1>2 DEF Ind, Types, Flushed
<1>4. Signalled'
  BY <1>1, <1>2, Numbers DEF Ind, Signalled, InHand
<1> QED BY <1>3, <1>4 DEF Ind

\* While its event is handled a job has its command to come.
LEMMA EncoderDoneStep ==
    ASSUME Ind, EncoderDone
    PROVE  Ind'
<1>1. /\ UNCHANGED <<cmds, active, dp, inputPP, inputMeta, inputFWK, inputJpeg>>
      /\ event' # {} /\ ongoingJpeg # <<>> /\ ongoingJpeg' = Tail(ongoingJpeg)
  BY DEF EncoderDone, queues
<1>2. IsQueue(ongoingJpeg')
  BY <1>1, Taken DEF Ind, Types
<1> QED BY <1>1, <1>2, NothingToDo, Numbers DEF Ind, Types

LEMMA AnswerStep ==
    ASSUME Ind, NEW job \in event, Answer(job)
    PROVE  Ind'
<1>1. /\ UNCHANGED <<active, dp, inputPP, inputMeta, inputFWK, inputJpeg, ongoingJpeg>>
      /\ cmds' = Append(cmds, "next") /\ "next" \in Commands
  BY DEF Answer, releaseJpegJobData, DoNext, queues, Commands
<1>2. cmds' \in Seq(Commands) /\ Count(cmds') \in Nat /\ Count(cmds') = Count(cmds) + 1
  BY <1>1, OneMore DEF Ind
<1> QED BY <1>1, <1>2, NothingToDo, Numbers DEF Ind, Types

-----------------------------------------------------------------------------
(* The data thread.                                                        *)

\* It starts with empty queues.
LEMMA StartDoneStep ==
    ASSUME Ind, StartDone
    PROVE  Ind'
<1>1. /\ UNCHANGED <<dp, inputPP, inputMeta, inputFWK, inputJpeg, ongoingJpeg, event>>
      /\ active' = TRUE /\ cmds # <<>> /\ cmds' = Tail(cmds) /\ Head(cmds) = "start"
  BY DEF StartDone, queues
<1>2. cmds' \in Seq(Commands) /\ Count(cmds') = Count(cmds)
  BY <1>1, OneLess DEF Ind
<1>3. Types' /\ Flushed'
  BY <1>1, <1>2 DEF Ind, Types, Flushed
<1>4. Signalled'
  <2>1. CASE active
    BY <1>1, <1>2, <2>1 DEF Ind, Signalled, InHand
  <2>2. CASE ~active
    <3>1. inputPP = <<>> /\ inputMeta = <<>> /\ inputFWK = <<>> /\ inputJpeg = <<>>
      BY <2>2 DEF Ind, Flushed
    <3> QED BY <1>1, <1>2, <3>1, Numbers DEF Ind, Signalled, InHand
  <2> QED BY <2>1, <2>2
<1> QED BY <1>3, <1>4 DEF Ind

\* A stop asks for the next job once for each that it releases.
LEMMA StopAsks ==
    ASSUME Ind, StopDone
    PROVE  \E more \in Seq({"next"}) : cmds' = Tail(cmds) \o more
<1>1. PICK n \in Nat : n = Len(ongoingJpeg) + Len(ongoingPP) + Len(inputJpeg)
  BY QueueLength DEF Ind, Types
<1>2. cmds' = Tail(cmds) \o [i \in 1 .. n |-> "next"]
  BY <1>1 DEF StopDone
<1>3. [i \in 1 .. n |-> "next"] \in Seq({"next"})
  OBVIOUS
<1> QED BY <1>2, <1>3

LEMMA StopDoneStep ==
    ASSUME Ind, StopDone
    PROVE  Ind'
<1>1. /\ dp' = dp /\ active' = FALSE /\ ongoingJpeg' = <<>>
      /\ inputPP' = <<>> /\ inputMeta' = <<>> /\ inputFWK' = <<>> /\ inputJpeg' = <<>>
      /\ cmds # <<>>
  BY DEF StopDone, FlushQueues
<1>2. PICK more \in Seq({"next"}) : cmds' = Tail(cmds) \o more
  BY StopAsks
<1>4. more \in Seq(Commands)
  BY <1>2 DEF Commands
<1>3. cmds' \in Seq(Commands)
  BY <1>1, <1>2, <1>4, HeadTailProperties, ConcatProperties DEF Ind, Types
<1> QED BY <1>1, <1>3, EmptyQueue DEF Ind, Types, Flushed, Signalled

LEMMA NextInactiveStep ==
    ASSUME Ind, NextInactive
    PROVE  Ind'
<1>1. /\ UNCHANGED <<active, dp, inputPP, inputMeta, inputFWK, inputJpeg, ongoingJpeg, event>>
      /\ ~active /\ cmds # <<>> /\ cmds' = Tail(cmds)
  BY DEF NextInactive, queues
<1>2. cmds' \in Seq(Commands)
  BY <1>1, OneLess DEF Ind
<1> QED BY <1>1, <1>2 DEF Ind, Types, Flushed, Signalled

\* The command in hand serves the other queues too.
LEMMA NextJpegStep ==
    ASSUME Ind, NextJpeg
    PROVE  Ind'
<1>1. /\ UNCHANGED <<active, inputPP, inputMeta, inputFWK, event>> /\ active
      /\ dp = "idle" /\ dp' = "fwk" /\ cmds # <<>> /\ Head(cmds) = "next"
  BY DEF NextJpeg
<1>2. /\ Tail(cmds) \in Seq(Commands)
      /\ Count(Tail(cmds)) = Count(cmds) - 1 /\ Count(Tail(cmds)) \in Nat
  BY <1>1, CountTaken, Counts DEF Ind, Types
<1>3. \/ cmds' = Tail(cmds)
      \/ cmds' = Append(Tail(cmds), "next")
  BY DEF NextJpeg
<1>4. cmds' = Append(Tail(cmds), "next") => Count(cmds') = Count(cmds) /\ cmds' \in Seq(Commands)
  <2>1. "next" \in Commands
    BY DEF Commands
  <2> DEFINE q == Append(Tail(cmds), "next")
  <2>2. q \in Seq(Commands) /\ Count(q) = Count(Tail(cmds)) + 1
    BY <1>2, <2>1, CountAppended
  <2>3. Count(q) = Count(cmds)
    BY <1>2, <2>2, Numbers DEF Ind
  <2> QED BY <2>2, <2>3
<1>5. cmds' \in Seq(Commands) /\ Count(cmds') >= Count(cmds) - 1 /\ Count(cmds') \in Nat
  <2>1. Count(cmds) \in Nat
    BY Numbers DEF Ind
  <2>2. CASE cmds' = Tail(cmds)
    BY <1>2, <2>1, <2>2
  <2>3. CASE cmds' = Append(Tail(cmds), "next")
    BY <1>4, <2>1, <2>3
  <2> QED BY <1>3, <2>2, <2>3
<1>6. ongoingJpeg' = ongoingJpeg \/ ongoingJpeg' = Append(ongoingJpeg, Head(inputJpeg))
  BY DEF NextJpeg
<1>7. IsQueue(ongoingJpeg')
  BY <1>6, Appended DEF Ind, Types
<1>8. inputJpeg' = <<>> \/ ongoingJpeg' # <<>> \/ Count(cmds') > 0
  <2>1. CASE inputJpeg = <<>> \/ ongoingJpeg # <<>>
    BY <2>1, <1>6, Appended DEF NextJpeg, encode_one, Ind, Types
  <2>2. CASE ongoingJpeg' = Append(ongoingJpeg, Head(inputJpeg))
    BY <2>2, Appended DEF Ind, Types
  <2>3. CASE cmds' = Append(Tail(cmds), "next")
    <3>1. Count(cmds') = Count(cmds) /\ Count(cmds) > 0
      BY <1>2, <1>4, <2>3, Numbers DEF Ind
    <3> QED BY <3>1
  <2> QED BY <2>1, <2>2, <2>3 DEF NextJpeg, encode_one
<1>9. Types' /\ Flushed'
  BY <1>1, <1>5, <1>7 DEF Ind, Types, Flushed
<1>10. Signalled'
  BY <1>1, <1>5, <1>8, Numbers DEF Ind, Signalled, InHand
<1> QED BY <1>9, <1>10 DEF Ind

LEMMA NextInputStep ==
    ASSUME Ind, NextInput
    PROVE  Ind'
<1>1. /\ UNCHANGED <<cmds, active, inputPP, inputMeta, inputJpeg, ongoingJpeg, event>>
      /\ dp = "fwk" /\ dp' = "pp"
      /\ inputFWK' = IF inputFWK # <<>> THEN Tail(inputFWK) ELSE inputFWK
  BY DEF NextInput
<1>2. /\ IsQueue(inputFWK') /\ (~active => inputFWK' = inputFWK)
      /\ Len(inputFWK') = IF inputFWK # <<>> THEN Len(inputFWK) - 1 ELSE 0
  BY <1>1, Taken, EmptyQueue DEF Ind, Types, Flushed
<1>3. Types' /\ Flushed'
  BY <1>1, <1>2 DEF Ind, Types, Flushed
<1>4. Signalled'
  BY <1>1, <1>2, Numbers DEF Ind, Signalled, InHand
<1> QED BY <1>3, <1>4 DEF Ind

LEMMA NextPairStep ==
    ASSUME Ind, NextPair
    PROVE  Ind'
<1> DEFINE both == inputPP # <<>> /\ inputMeta # <<>>
<1>1. /\ UNCHANGED <<active, inputFWK, ongoingJpeg, event>>
      /\ dp = "pp" /\ dp' = "idle"
      /\ inputPP' = IF both THEN Tail(inputPP) ELSE inputPP
      /\ inputMeta' = IF both THEN Tail(inputMeta) ELSE inputMeta
  BY DEF NextPair
<1>2. \/ UNCHANGED <<inputJpeg, cmds>>
      \/ \E img, q : processPPData(img, q)
  BY DEF NextPair
<1>3. /\ cmds' \in Seq(Commands) /\ Count(cmds') \in Nat /\ Count(cmds') >= Count(cmds)
      /\ ~active => inputJpeg' = inputJpeg
      /\ inputJpeg' # inputJpeg => Count(cmds') > 0
  <2>1. CASE UNCHANGED <<inputJpeg, cmds>>
    BY <2>1, Numbers DEF Ind, Types
  <2>2. CASE \E img, q : processPPData(img, q)
    BY <2>2, JobOfPicture DEF Ind
  <2> QED BY <1>2, <2>1, <2>2
<1>4. /\ IsQueue(inputPP') /\ IsQueue(inputMeta')
      /\ ~active => inputPP' = inputPP /\ inputMeta' = inputMeta
      /\ both => Len(inputPP') = Len(inputPP) - 1 /\ Len(inputMeta') = Len(inputMeta) - 1
      /\ ~both => Len(inputPP') = Len(inputPP) /\ Len(inputMeta') = Len(inputMeta)
  BY <1>1, Taken DEF Ind, Types, Flushed
<1>5. Types' /\ Flushed'
  BY <1>1, <1>3, <1>4 DEF Ind, Types, Flushed
<1>6. Signalled'
  BY <1>1, <1>3, <1>4, Numbers DEF Ind, Signalled, InHand
<1> QED BY <1>5, <1>6 DEF Ind

-----------------------------------------------------------------------------
LEMMA Begins ==
    ASSUME Init
    PROVE  Ind
<1>1. Types
  BY EmptyQueue, EmptySeq DEF Init, Types
<1>2. Flushed /\ Signalled
  BY DEF Init, Flushed, Signalled
<1> QED BY <1>1, <1>2 DEF Ind

LEMMA Keeps ==
    ASSUME Ind, [Next]_vars
    PROVE  Ind'
<1>1. CASE UNCHANGED vars
  BY <1>1 DEF vars, queues, Ind, Types, Flushed, Signalled, InHand
<1>2. CASE Next
  BY <1>2, RequestStep, StopStep, AsideStep, QueueInputStep, ImageStep, MetadataStep, ReprocessedStep,
     EncoderDoneStep, AnswerStep, StartDoneStep, StopDoneStep, NextInactiveStep, NextJpegStep,
     NextInputStep, NextPairStep
     DEF Next
<1> QED BY <1>1, <1>2

LEMMA SignalledIsSignalled ==
    ASSUME Ind
    PROVE  WorkIsSignalled
<1> SUFFICES ASSUME active, dp = "idle",
                    \/ inputFWK # <<>>
                    \/ inputPP # <<>> /\ inputMeta # <<>>
                    \/ inputJpeg # <<>> /\ ongoingJpeg = <<>> /\ event = {}
             PROVE  \E i \in DOMAIN cmds : cmds[i] # "start"
  BY DEF WorkIsSignalled
<1>1. Count(cmds) > 0
  BY Numbers DEF Ind, Signalled, InHand
<1>2. \E i \in DOMAIN cmds : cmds[i] = "next"
  BY <1>1, Counts DEF Ind, Types
<1> QED BY <1>2

\* While the data thread waits, every job that it could do has a command under
\* way, for any number of requests, flushes and faults (QCamera3PostProc.cpp:
\* dataProcessRoutine and everybody who sends it CAMERA_CMD_TYPE_DO_NEXT_JOB).
THEOREM WorkIsSignalledAlways == Spec => []WorkIsSignalled
<1>1. Init => Ind
  BY Begins
<1>2. Ind /\ [Next]_vars => Ind'
  BY Keeps
<1>3. Ind => WorkIsSignalled
  BY SignalledIsSignalled
<1> QED BY <1>1, <1>2, <1>3, PTL DEF Spec

-----------------------------------------------------------------------------
(* Sequences, index by index.                                              *)

LEMMA AppendAt ==
  ASSUME NEW S, NEW q \in Seq(S), NEW x \in S
  PROVE  /\ Append(q, x) \in Seq(S) /\ Len(q) \in Nat /\ Len(Append(q, x)) = Len(q) + 1
         /\ DOMAIN q = 1 .. Len(q) /\ DOMAIN Append(q, x) = 1 .. Len(q) + 1
         /\ \A i \in 1 .. Len(q) : Append(q, x)[i] = q[i]
         /\ Append(q, x)[Len(q) + 1] = x
<1>1. /\ Append(q, x) \in Seq(S) /\ Len(Append(q, x)) = Len(q) + 1
      /\ \A i \in 1 .. Len(q) : Append(q, x)[i] = q[i]
      /\ Append(q, x)[Len(q) + 1] = x
  BY AppendProperties
<1>2. Len(q) \in Nat /\ DOMAIN q = 1 .. Len(q)
  BY LenProperties
<1>3. DOMAIN Append(q, x) = 1 .. Len(Append(q, x))
  BY <1>1, LenProperties
<1> QED BY <1>1, <1>2, <1>3

LEMMA TailAt ==
  ASSUME NEW S, NEW q \in Seq(S), q # <<>>
  PROVE  /\ Head(q) \in S /\ Head(q) = q[1] /\ Tail(q) \in Seq(S)
         /\ Len(q) \in Nat \ {0} /\ Len(Tail(q)) = Len(q) - 1
         /\ DOMAIN q = 1 .. Len(q) /\ DOMAIN Tail(q) = 1 .. Len(q) - 1
         /\ \A i \in 1 .. Len(q) - 1 : Tail(q)[i] = q[i + 1]
<1>1. /\ Head(q) \in S /\ Tail(q) \in Seq(S) /\ Len(Tail(q)) = Len(q) - 1
      /\ \A i \in 1 .. Len(Tail(q)) : Tail(q)[i] = q[i + 1]
  BY HeadTailProperties
<1>2. Len(q) \in Nat \ {0} /\ DOMAIN q = 1 .. Len(q) /\ Head(q) = q[1]
  BY LenProperties, EmptySeq
<1>3. DOMAIN Tail(q) = 1 .. Len(Tail(q))
  BY <1>1, LenProperties
<1> QED BY <1>1, <1>2, <1>3

LEMMA EmptyAt ==
  ASSUME NEW S
  PROVE  /\ <<>> \in Seq(S) /\ Len(<<>>) = 0 /\ \A i \in DOMAIN <<>> : FALSE
         /\ \A q \in Seq(S) : /\ Len(q) \in Nat /\ DOMAIN q = 1 .. Len(q)
                              /\ (q = <<>> <=> Len(q) = 0)
<1>1. <<>> \in Seq(S) /\ Len(<<>>) = 0
  BY EmptySeq
<1>2. DOMAIN <<>> = 1 .. 0
  BY <1>1, LenProperties
<1>3. ASSUME NEW q \in Seq(S)
      PROVE  Len(q) \in Nat /\ DOMAIN q = 1 .. Len(q) /\ (q = <<>> <=> Len(q) = 0)
  BY <1>1, EmptySeq, LenProperties
<1> QED BY <1>1, <1>2, <1>3

-----------------------------------------------------------------------------
(* The two threads: when the data thread is active, and what it is told.   *)

\* One call to start or to stop at a time, by a request thread that waits for it.
Calls ==
    /\ \A i, j \in DOMAIN cmds : cmds[i] # "next" /\ cmds[j] # "next" => i = j
    /\ \A i \in DOMAIN cmds : cmds[i] # "next" => cmds[i] = hwi

Asking == hwi \in {"start", "queue"}
Newest(f) == asked[f] # "no" /\ \A g \in Frames : asked[g] # "no" => g <= f

Places ==
    /\ hwi \in {"idle", "start", "queue", "stop", "stopped"} /\ started \in BOOLEAN
    /\ hwi \in {"queue", "stop"} => active
    /\ hwi \in {"start", "stopped"} => ~active
    /\ hwi = "idle" => (active <=> started)
    /\ hwi \in {"start", "queue", "stop"} => started
    /\ dp # "idle" => active

Asked ==
    /\ asked \in [Frames -> {"no", "live", "input"}]
    /\ \A f, g \in Frames : asked[f] # "no" /\ g < f => asked[g] # "no"
    /\ Asking => \E f \in Frames : Newest(f)

Control == Calls /\ Places /\ Asked

\* The commands in the queue are all to do the next job when nobody calls.
LEMMA NobodyCalls ==
  ASSUME Ind, Calls, hwi \notin {"start", "stop"}
  PROVE  \A i \in DOMAIN cmds : cmds[i] = "next"
<1>1. \A i \in DOMAIN cmds : cmds[i] \in Commands
  BY LenProperties, ElementOfSeq DEF Ind, Types
<1> QED BY <1>1 DEF Calls, Commands

\* One more job to do, or a command taken, changes no call.
LEMMA CallsKept ==
  ASSUME Ind, Calls, hwi' = hwi,
         \/ cmds' = cmds
         \/ cmds' = Append(cmds, "next")
         \/ cmds # <<>> /\ cmds' = Tail(cmds)
         \/ cmds # <<>> /\ cmds' = Append(Tail(cmds), "next")
  PROVE  Calls'
<1>1. cmds \in Seq(Commands) /\ "next" \in Commands
  BY DEF Ind, Types, Commands
<1>2. CASE cmds' = cmds
  BY <1>2 DEF Calls
<1>3. ASSUME NEW q \in Seq(Commands), cmds' = Append(q, "next"),
             \A i, j \in DOMAIN q : q[i] # "next" /\ q[j] # "next" => i = j,
             \A i \in DOMAIN q : q[i] # "next" => q[i] = hwi
      PROVE  Calls'
  BY <1>1, <1>3, AppendAt DEF Calls
<1>4. ASSUME cmds # <<>>
      PROVE  /\ Tail(cmds) \in Seq(Commands)
             /\ \A i, j \in DOMAIN Tail(cmds) : Tail(cmds)[i] # "next" /\ Tail(cmds)[j] # "next" => i = j
             /\ \A i \in DOMAIN Tail(cmds) : Tail(cmds)[i] # "next" => Tail(cmds)[i] = hwi
  <2> DEFINE r == Tail(cmds)
  <2>1. /\ r \in Seq(Commands) /\ Len(cmds) \in Nat \ {0} /\ DOMAIN cmds = 1 .. Len(cmds)
        /\ DOMAIN r = 1 .. Len(cmds) - 1 /\ \A i \in 1 .. Len(cmds) - 1 : r[i] = cmds[i + 1]
    BY <1>1, <1>4, TailAt
  <2> HIDE DEF r
  <2>2. \A i, j \in DOMAIN r : r[i] # "next" /\ r[j] # "next" => i = j
    <3>1. ASSUME NEW i \in DOMAIN r, NEW j \in DOMAIN r, r[i] # "next", r[j] # "next" PROVE i = j
      <4>1. i + 1 \in DOMAIN cmds /\ j + 1 \in DOMAIN cmds /\ r[i] = cmds[i + 1] /\ r[j] = cmds[j + 1]
        BY <2>1
      <4>2. i + 1 = j + 1
        BY <3>1, <4>1 DEF Calls
      <4> QED BY <2>1, <4>2
    <3> QED BY <3>1
  <2>3. \A i \in DOMAIN r : r[i] # "next" => r[i] = hwi
    BY <2>1 DEF Calls
  <2> QED BY <2>1, <2>2, <2>3 DEF r
<1>5. CASE cmds' = Append(cmds, "next")
  BY <1>1, <1>3, <1>5 DEF Calls
<1>6. CASE cmds # <<>> /\ cmds' = Tail(cmds)
  BY <1>4, <1>6 DEF Calls
<1>7. CASE cmds # <<>> /\ cmds' = Append(Tail(cmds), "next")
  BY <1>3, <1>4, <1>7
<1> QED BY <1>2, <1>5, <1>6, <1>7

\* A call that has been taken was the only one.
LEMMA CallTaken ==
  ASSUME Ind, Calls, cmds # <<>>, Head(cmds) # "next"
  PROVE  /\ Tail(cmds) \in Seq(Commands) /\ \A i \in DOMAIN Tail(cmds) : Tail(cmds)[i] = "next"
         /\ Head(cmds) = hwi
<1>1. cmds \in Seq(Commands)
  BY DEF Ind, Types
<1>2. /\ Tail(cmds) \in Seq(Commands) /\ Head(cmds) = cmds[1] /\ Len(cmds) \in Nat \ {0}
      /\ DOMAIN cmds = 1 .. Len(cmds) /\ DOMAIN Tail(cmds) = 1 .. Len(cmds) - 1
      /\ \A i \in 1 .. Len(cmds) - 1 : Tail(cmds)[i] = cmds[i + 1]
  BY <1>1, TailAt
<1>3. ASSUME NEW i \in DOMAIN Tail(cmds) PROVE Tail(cmds)[i] = "next"
  <2>1. i + 1 \in DOMAIN cmds /\ 1 \in DOMAIN cmds /\ i + 1 # 1 /\ Tail(cmds)[i] = cmds[i + 1]
    BY <1>2
  <2> QED BY <1>2, <2>1 DEF Calls
<1> QED BY <1>2, <1>3 DEF Calls

\* The newest request is the only one.
LEMMA CurrentIs ==
  ASSUME NEW f \in Frames, Newest(f)
  PROVE  Current = f
<1>1. /\ Current \in Frames /\ asked[Current] # "no"
      /\ \A g \in Frames : asked[g] # "no" => g <= Current
  BY DEF Current, Newest
<1>2. f <= Current /\ Current <= f
  BY <1>1 DEF Newest
<1> QED BY <1>1, <1>2 DEF Frames

LEMMA ControlKept ==
  ASSUME Ind, Ind', Control,
         UNCHANGED <<hwi, started, asked, active>>,
         dp' # "idle" => active,
         \/ cmds' = cmds
         \/ cmds' = Append(cmds, "next")
         \/ cmds # <<>> /\ cmds' = Tail(cmds)
         \/ cmds # <<>> /\ cmds' = Append(Tail(cmds), "next")
  PROVE  Control'
<1>1. Calls'
  BY CallsKept DEF Control
<1>2. Places' /\ Asked'
  BY DEF Control, Places, Asked, Asking, Newest
<1> QED BY <1>1, <1>2 DEF Control

\* Every step keeps the threads in their places.
LEMMA ControlStep ==
  ASSUME Ind, Ind', Control, Next
  PROVE  Control'
<1> USE DEF queues
<1>1. ASSUME NEW f \in Frames, NEW kind \in {"live", "input"}, Request(f, kind)
      PROVE  Control'
  <2>1. /\ hwi = "idle" /\ asked[f] = "no" /\ \A g \in Frames : g < f => asked[g] # "no"
        /\ asked' = [asked EXCEPT ![f] = kind] /\ started' = TRUE /\ UNCHANGED <<active, dp>>
    BY <1>1 DEF Request
  <2>2. /\ asked'[f] = kind /\ kind # "no" /\ \A g \in Frames : g # f => asked'[g] = asked[g]
    BY <2>1 DEF Control, Asked
  <2>3. \A g \in Frames : asked[g] # "no" => g <= f
    <3>1. ASSUME NEW g \in Frames, asked[g] # "no", ~(g <= f) PROVE FALSE
      <4>1. f < g
        BY <3>1 DEF Frames
      <4> QED BY <2>1, <3>1, <4>1 DEF Control, Asked
    <3> QED BY <3>1
  <2>4. Newest(f)'
    <3>1. f <= f
      BY DEF Frames
    <3> QED BY <2>2, <2>3, <3>1 DEF Newest
  <2>5. Asked'
    <3>1. asked' \in [Frames -> {"no", "live", "input"}]
      BY <2>1 DEF Control, Asked
    <3>2. ASSUME NEW g \in Frames, NEW h \in Frames, asked'[g] # "no", h < g PROVE asked'[h] # "no"
      BY <2>1, <2>2, <3>2 DEF Control, Asked
    <3> QED BY <2>4, <3>1, <3>2 DEF Asked
  <2>6. \A i \in DOMAIN cmds : cmds[i] = "next"
    BY <2>1, NobodyCalls DEF Control
  <2>7. CASE started
    <3>1. hwi' = "queue" /\ cmds' = cmds
      BY <1>1, <2>7 DEF Request
    <3> QED BY <2>1, <2>5, <2>6, <2>7, <3>1 DEF Control, Calls, Places
  <2>8. CASE ~started
    <3>1. hwi' = "start" /\ cmds' = Append(cmds, "start")
      BY <1>1, <2>8 DEF Request
    <3>2. cmds \in Seq(Commands) /\ "start" \in Commands
      BY DEF Ind, Types, Commands
    <3>3. Calls'
      BY <2>6, <3>1, <3>2, AppendAt DEF Calls
    <3> QED BY <2>1, <2>5, <2>8, <3>1, <3>3 DEF Control, Places
  <2> QED BY <2>7, <2>8 DEF Control, Places
<1>2. CASE Stop
  <2>1. /\ hwi = "idle" /\ started /\ hwi' = "stop" /\ cmds' = <<"stop">> \o cmds
        /\ UNCHANGED <<started, asked, active, dp>>
    BY <1>2 DEF Stop
  <2>2. \A i \in DOMAIN cmds : cmds[i] = "next"
    BY <2>1, NobodyCalls DEF Control
  <2>3. cmds \in Seq(Commands) /\ <<"stop">> \in Seq(Commands)
    BY DEF Ind, Types, Commands
  <2>4. /\ cmds' \in Seq(Commands) /\ Len(cmds') = 1 + Len(cmds) /\ Len(cmds) \in Nat
        /\ \A i \in 1 .. 1 + Len(cmds) : cmds'[i] = IF i <= 1 THEN "stop" ELSE cmds[i - 1]
    BY <2>1, <2>3, ConcatProperties, LenProperties
  <2>5. DOMAIN cmds = 1 .. Len(cmds) /\ DOMAIN cmds' = 1 .. 1 + Len(cmds)
    BY <2>3, <2>4, LenProperties
  <2>6. \A i \in DOMAIN cmds' : IF i = 1 THEN cmds'[i] = "stop" ELSE cmds'[i] = "next"
    BY <2>2, <2>4, <2>5
  <2>7. Calls'
    BY <2>1, <2>6 DEF Calls
  <2> QED BY <2>1, <2>7 DEF Control, Places, Asked, Asking
<1>3. CASE QueueLive \/ QueueInput
  <2>1. /\ hwi = "queue" /\ hwi' = "idle" /\ UNCHANGED <<asked, started, active, dp>>
        /\ cmds' = cmds \/ cmds' = Append(cmds, "next")
    BY <1>3 DEF QueueLive, QueueInput, ToReprocess, ToEncoder, DoNext
  <2>2. cmds \in Seq(Commands) /\ "next" \in Commands /\ \A i \in DOMAIN cmds : cmds[i] = "next"
    BY <2>1, NobodyCalls DEF Ind, Types, Commands, Control
  <2>3. \A i \in DOMAIN cmds' : cmds'[i] = "next"
    BY <2>1, <2>2, AppendAt
  <2>4. started
    BY <2>1 DEF Control, Places
  <2> QED BY <2>1, <2>3, <2>4 DEF Control, Calls, Places, Asked, Asking
<1>4. CASE StreamsStop
  <2>1. /\ hwi = "stopped" /\ hwi' = "idle" /\ started' = FALSE /\ UNCHANGED <<asked, active, dp, cmds>>
    BY <1>4 DEF StreamsStop
  <2>2. \A i \in DOMAIN cmds : cmds[i] = "next"
    BY <2>1, NobodyCalls DEF Control
  <2> QED BY <2>1, <2>2 DEF Control, Calls, Places, Asked, Asking
<1>5. CASE ImageArrives \/ MetadataArrives \/ Reprocessed
  <2>1. /\ UNCHANGED <<hwi, started, asked, active, dp>>
        /\ cmds' = cmds \/ cmds' = Append(cmds, "next")
    BY <1>5 DEF ImageArrives, MetadataArrives, Reprocessed, wake_for_pair, processPPData, DoNext
  <2> QED BY <2>1, ControlKept DEF Control, Places
<1>6. CASE EncoderDone \/ \E job \in event : Answer(job)
  <2>1. /\ UNCHANGED <<hwi, started, asked, active, dp>>
        /\ cmds' = cmds \/ cmds' = Append(cmds, "next")
    BY <1>6 DEF EncoderDone, Answer, releaseJpegJobData, DoNext
  <2> QED BY <2>1, ControlKept DEF Control, Places
<1>7. CASE StartDone
  <2>1. /\ cmds # <<>> /\ Head(cmds) = "start" /\ cmds' = Tail(cmds) /\ active' = TRUE
        /\ hwi' = "queue" /\ UNCHANGED <<asked, started, dp>>
    BY <1>7 DEF StartDone
  <2>2. hwi = "start" /\ \A i \in DOMAIN cmds' : cmds'[i] = "next"
    BY <2>1, CallTaken DEF Control
  <2> QED BY <2>1, <2>2 DEF Control, Calls, Places, Asked, Asking, Newest
<1>8. CASE StopDone
  <2>8. PICK more \in Seq({"next"}) : cmds' = Tail(cmds) \o more
    BY <1>8, StopAsks DEF Control
  <2>1. /\ cmds # <<>> /\ Head(cmds) = "stop" /\ cmds' = Tail(cmds) \o more /\ active' = FALSE
        /\ dp = "idle" /\ hwi' = "stopped" /\ UNCHANGED <<asked, started, dp>>
    BY <1>8, <2>8 DEF StopDone
  <2>2. /\ hwi = "stop" /\ Tail(cmds) \in Seq(Commands)
        /\ \A i \in DOMAIN Tail(cmds) : Tail(cmds)[i] = "next"
    BY <2>1, CallTaken DEF Control
  <2>3. more \in Seq(Commands) /\ \A i \in DOMAIN more : more[i] = "next"
    BY <2>8, ElementOfSeq, LenProperties DEF Commands
  <2>4. \A i \in DOMAIN cmds' : cmds'[i] = "next"
    <3> DEFINE r == Tail(cmds)
    <3>1. /\ r \in Seq(Commands) /\ \A i \in DOMAIN r : r[i] = "next"
      BY <2>2
    <3> HIDE DEF r
    <3>2. /\ r \o more \in Seq(Commands) /\ Len(r \o more) = Len(r) + Len(more)
          /\ \A i \in 1 .. Len(r) + Len(more) : (r \o more)[i] = IF i <= Len(r) THEN r[i] ELSE more[i - Len(r)]
          /\ Len(r) \in Nat /\ Len(more) \in Nat /\ DOMAIN r = 1 .. Len(r) /\ DOMAIN more = 1 .. Len(more)
      BY <2>3, <3>1, ConcatProperties, LenProperties
    <3>3. DOMAIN (r \o more) = 1 .. Len(r) + Len(more)
      BY <3>2, LenProperties
    <3>4. ASSUME NEW i \in 1 .. Len(r) + Len(more) PROVE (r \o more)[i] = "next"
      <4>1. CASE i <= Len(r)
        BY <3>1, <3>2, <4>1
      <4>2. CASE ~(i <= Len(r))
        BY <2>3, <3>2, <4>2
      <4> QED BY <4>1, <4>2
    <3> QED BY <2>1, <3>3, <3>4 DEF r
  <2> QED BY <2>1, <2>2, <2>4 DEF Control, Calls, Places, Asked, Asking
<1>9. CASE NextInactive
  <2>1. UNCHANGED <<hwi, started, asked, active, dp>> /\ cmds # <<>> /\ cmds' = Tail(cmds)
    BY <1>9 DEF NextInactive
  <2> QED BY <2>1, ControlKept DEF Control, Places
<1>10. CASE NextJpeg
  <2>1. /\ UNCHANGED <<hwi, started, asked, active>> /\ active /\ cmds # <<>>
        /\ cmds' = Tail(cmds) \/ cmds' = Append(Tail(cmds), "next")
    BY <1>10 DEF NextJpeg
  <2> QED BY <2>1, ControlKept
<1>11. CASE NextInput \/ NextPair
  <2>1. /\ UNCHANGED <<hwi, started, asked, active>> /\ dp # "idle"
        /\ cmds' = cmds \/ cmds' = Append(cmds, "next")
    BY <1>11 DEF NextInput, NextPair, processPPData, DoNext
  <2> QED BY <2>1, ControlKept DEF Control, Places
<1> QED BY <1>1, <1>2, <1>3, <1>4, <1>5, <1>6, <1>7, <1>8, <1>9, <1>10, <1>11 DEF Next

-----------------------------------------------------------------------------
(* In front of the hardware: the settings, and what is paired with them.   *)

Increasing(all) == \A i, j \in DOMAIN all : i < j => all[i] < all[j]

\* q holds what has arrived of the frames of all, S what has not.
Partly(all, q, S) ==
    /\ q \in Seq(Frames) /\ Len(q) <= Len(all)
    /\ \A i \in DOMAIN q : q[i] = all[i]
    /\ S = {all[i] : i \in Len(q) + 1 .. Len(all)}

LEMMA PartlyNone ==
  /\ Partly(<<>>, <<>>, {})
  /\ \A q, S : Partly(<<>>, q, S) => q = <<>> /\ S = {}
<1>1. <<>> \in Seq(Frames) /\ Len(<<>>) = 0 /\ \A i \in DOMAIN <<>> : FALSE
  BY EmptyAt
<1>2. Partly(<<>>, <<>>, {})
  BY <1>1 DEF Partly
<1>3. ASSUME NEW q, NEW S, Partly(<<>>, q, S) PROVE q = <<>> /\ S = {}
  <2>1. q \in Seq(Frames) /\ Len(q) <= 0 /\ S = {<<>>[i] : i \in Len(q) + 1 .. 0}
    BY <1>1, <1>3 DEF Partly
  <2>2. Len(q) = 0 /\ q = <<>>
    BY <2>1, EmptyAt
  <2> QED BY <2>1, <2>2
<1> QED BY <1>2, <1>3

LEMMA PartlyMore ==
  ASSUME NEW all \in Seq(Frames), NEW f \in Frames, NEW q, NEW S, Partly(all, q, S)
  PROVE  Partly(Append(all, f), q, S \cup {f})
<1> DEFINE more == Append(all, f)
<1>1. /\ Len(all) \in Nat /\ Len(more) = Len(all) + 1 /\ \A i \in 1 .. Len(all) : more[i] = all[i]
      /\ more[Len(all) + 1] = f
  BY AppendAt
<1>2. q \in Seq(Frames) /\ Len(q) \in Nat /\ DOMAIN q = 1 .. Len(q) /\ Len(q) <= Len(all)
  BY EmptyAt DEF Partly
<1> HIDE DEF more
<1>3. \A i \in DOMAIN q : q[i] = more[i]
  BY <1>1, <1>2 DEF Partly
<1>4. S \cup {f} = {more[i] : i \in Len(q) + 1 .. Len(more)}
  <2>1. S = {all[i] : i \in Len(q) + 1 .. Len(all)}
    BY DEF Partly
  <2>2. Len(q) + 1 .. Len(more) = (Len(q) + 1 .. Len(all)) \cup {Len(all) + 1}
    BY <1>1, <1>2
  <2>3. \A i \in Len(q) + 1 .. Len(all) : more[i] = all[i]
    BY <1>1, <1>2
  <2> QED BY <1>1, <2>1, <2>2, <2>3
<1>5. Partly(more, q, S \cup {f})
  BY <1>1, <1>2, <1>3, <1>4 DEF Partly
<1> QED BY <1>5 DEF more

\* The camera delivers the oldest frame, which is the next of the settings.
LEMMA PartlyArrived ==
  ASSUME NEW all \in Seq(Frames), Increasing(all), NEW q, NEW S, Partly(all, q, S), S # {}
  PROVE  all # <<>> /\ Partly(all, Append(q, First(S)), S \ {First(S)})
<1> DEFINE n == Len(q) + 1
<1>1. /\ q \in Seq(Frames) /\ Len(q) \in Nat /\ DOMAIN q = 1 .. Len(q)
      /\ Len(all) \in Nat /\ DOMAIN all = 1 .. Len(all)
      /\ S = {all[i] : i \in n .. Len(all)} /\ \A i \in DOMAIN q : q[i] = all[i]
  BY EmptyAt DEF Partly
<1>2. n \in Nat \ {0} /\ n <= Len(all)
  BY <1>1
<1>3. \A i \in 1 .. Len(all) : all[i] \in Frames
  BY <1>1, ElementOfSeq
<1>4. all[n] \in S /\ \A g \in S : all[n] <= g
  <2>1. ASSUME NEW i \in n .. Len(all) PROVE all[n] <= all[i]
    <3>1. i = n \/ all[n] < all[i]
      BY <1>1, <1>2 DEF Increasing
    <3>2. all[n] \in Nat /\ all[i] \in Nat
      BY <1>2, <1>3 DEF Frames
    <3> QED BY <3>1, <3>2
  <2> QED BY <1>1, <1>2, <2>1
<1>5. First(S) = all[n]
  <2>1. First(S) \in S /\ \A g \in S : First(S) <= g
    BY <1>4 DEF First
  <2>2. First(S) <= all[n] /\ all[n] <= First(S)
    BY <1>4, <2>1
  <2>3. \A g \in S : g \in Nat
    BY <1>1, <1>2, <1>3 DEF Frames
  <2>4. First(S) \in Nat /\ all[n] \in Nat
    BY <1>4, <2>1, <2>3
  <2> HIDE DEF n
  <2> QED BY <2>2, <2>4
<1>6. S \ {all[n]} = {all[i] : i \in n + 1 .. Len(all)}
  <2>1. \A i \in n + 1 .. Len(all) : all[i] # all[n]
    <3>1. ASSUME NEW i \in n + 1 .. Len(all) PROVE all[i] # all[n]
      <4>1. i \in DOMAIN all /\ n \in DOMAIN all /\ n < i
        BY <1>1, <1>2
      <4>2. all[n] < all[i]
        BY <4>1 DEF Increasing
      <4>3. all[n] \in Nat /\ all[i] \in Nat
        BY <1>1, <1>3, <4>1 DEF Frames
      <4> QED BY <4>2, <4>3
    <3> QED BY <3>1
  <2>2. n .. Len(all) = {n} \cup (n + 1 .. Len(all))
    BY <1>1, <1>2
  <2> QED BY <1>1, <2>1, <2>2
<1> DEFINE r == Append(q, all[n])
<1>7. /\ r \in Seq(Frames) /\ Len(r) = n /\ DOMAIN r = 1 .. n /\ r[n] = all[n]
      /\ \A i \in 1 .. Len(q) : r[i] = q[i]
  BY <1>1, <1>2, <1>3, AppendAt
<1> HIDE DEF r
<1>8. \A i \in DOMAIN r : r[i] = all[i]
  BY <1>1, <1>7
<1>9. Partly(all, r, S \ {all[n]})
  BY <1>2, <1>6, <1>7, <1>8 DEF Partly
<1>10. all # <<>>
  BY <1>2, EmptyAt
<1> QED BY <1>5, <1>9, <1>10 DEF r

\* The heads of two paired queues are of one request.
LEMMA PartlyTaken ==
  ASSUME NEW all \in Seq(Frames), NEW q, NEW S, Partly(all, q, S), q # <<>>
  PROVE  all # <<>> /\ Head(q) = Head(all) /\ Partly(Tail(all), Tail(q), S)
<1>1. q \in Seq(Frames) /\ Len(q) <= Len(all) /\ \A i \in DOMAIN q : q[i] = all[i]
  BY DEF Partly
<1>2. S = {all[i] : i \in Len(q) + 1 .. Len(all)}
  BY DEF Partly
<1> DEFINE a == Tail(all)
           r == Tail(q)
<1>3. /\ Head(q) = q[1] /\ r \in Seq(Frames) /\ Len(q) \in Nat \ {0} /\ Len(r) = Len(q) - 1
      /\ DOMAIN q = 1 .. Len(q) /\ DOMAIN r = 1 .. Len(q) - 1
      /\ \A i \in 1 .. Len(q) - 1 : r[i] = q[i + 1]
  BY <1>1, TailAt
<1>4. all # <<>>
  BY <1>1, <1>3, EmptyAt
<1>5. /\ Head(all) = all[1] /\ a \in Seq(Frames) /\ Len(all) \in Nat \ {0} /\ Len(a) = Len(all) - 1
      /\ \A i \in 1 .. Len(all) - 1 : a[i] = all[i + 1]
  BY <1>4, TailAt
<1> HIDE DEF a, r
<1>6. \A i \in DOMAIN r : r[i] = a[i]
  <2>1. ASSUME NEW i \in 1 .. Len(q) - 1 PROVE r[i] = a[i]
    <3>1. i + 1 \in DOMAIN q /\ i \in 1 .. Len(all) - 1
      BY <1>1, <1>3, <1>5
    <3>2. q[i + 1] = all[i + 1] /\ r[i] = q[i + 1] /\ a[i] = all[i + 1]
      BY <1>1, <1>3, <1>5, <3>1
    <3> QED BY <3>2
  <2> QED BY <1>3, <2>1
<1>7. S = {a[i] : i \in Len(r) + 1 .. Len(a)}
  <2>1. ASSUME NEW i \in Len(q) + 1 .. Len(all)
        PROVE  i - 1 \in Len(r) + 1 .. Len(a) /\ a[i - 1] = all[i]
    BY <1>3, <1>5
  <2>2. ASSUME NEW i \in Len(r) + 1 .. Len(a)
        PROVE  i + 1 \in Len(q) + 1 .. Len(all) /\ a[i] = all[i + 1]
    BY <1>3, <1>5
  <2>3. \A x \in S : \E i \in Len(r) + 1 .. Len(a) : x = a[i]
    BY <1>2, <2>1
  <2>4. \A i \in Len(r) + 1 .. Len(a) : a[i] \in S
    BY <1>2, <2>2
  <2> QED BY <2>3, <2>4
<1>8. Partly(a, r, S)
  <2>1. Len(r) <= Len(a)
    BY <1>1, <1>3, <1>5
  <2> QED BY <1>3, <1>6, <1>7, <2>1 DEF Partly
<1>9. Head(q) = Head(all)
  BY <1>1, <1>3, <1>5
<1> QED BY <1>4, <1>8, <1>9 DEF a, r

LEMMA IncreasingKept ==
  ASSUME NEW all \in Seq(Frames), Increasing(all)
  PROVE  /\ all # <<>> => Increasing(Tail(all))
         /\ \A f \in Frames : (\A i \in DOMAIN all : all[i] < f) => Increasing(Append(all, f))
<1>1. ASSUME all # <<>> PROVE Increasing(Tail(all))
  <2> DEFINE a == Tail(all)
  <2>1. /\ Len(all) \in Nat /\ DOMAIN all = 1 .. Len(all) /\ DOMAIN a = 1 .. Len(all) - 1
        /\ \A i \in 1 .. Len(all) - 1 : a[i] = all[i + 1]
    BY <1>1, TailAt
  <2> HIDE DEF a
  <2>2. Increasing(a)
    <3>1. ASSUME NEW i \in DOMAIN a, NEW j \in DOMAIN a, i < j PROVE a[i] < a[j]
      <4>1. /\ i + 1 \in DOMAIN all /\ j + 1 \in DOMAIN all /\ i + 1 < j + 1
            /\ a[i] = all[i + 1] /\ a[j] = all[j + 1]
        BY <2>1, <3>1
      <4> QED BY <4>1 DEF Increasing
    <3> QED BY <3>1 DEF Increasing
  <2> QED BY <2>2 DEF a
<1>2. ASSUME NEW f \in Frames, \A i \in DOMAIN all : all[i] < f PROVE Increasing(Append(all, f))
  <2> DEFINE a == Append(all, f)
  <2>1. /\ Len(all) \in Nat /\ DOMAIN all = 1 .. Len(all) /\ DOMAIN a = 1 .. Len(all) + 1
        /\ \A i \in 1 .. Len(all) : a[i] = all[i]
        /\ a[Len(all) + 1] = f
    BY AppendAt
  <2> HIDE DEF a
  <2>2. Increasing(a)
    BY <1>2, <2>1 DEF Increasing
  <2> QED BY <2>2 DEF a
<1> QED BY <1>1, <1>2

-----------------------------------------------------------------------------
(* The jobs: each is of one request, which is in one place.                *)

Own(f) == [img |-> f, meta |-> f, set |-> f]
Job == {Own(f) : f \in Frames}
Stages == {"none", "settings", "hardware", "jpeg", "encoder", "event", "done"}

\* The request f goes on to another stage.
Moved(w, f, to) == [w EXCEPT ![f] = to]

LEMMA JobIs ==
  /\ \A f \in Frames : Own(f) \in Job /\ Own(f).img = f /\ Own(f).set = f /\ f # 0
  /\ \A j \in Job : j.set \in Frames /\ j = Own(j.set) /\ j.img = j.set /\ j.meta = j.set
BY DEF Own, Job, Frames

\* The jobs of q are those of different requests, all at the stage.
In(q, w, stage) ==
    /\ \A i \in DOMAIN q : w[q[i].set] = stage
    /\ \A i, j \in DOMAIN q : q[i].set = q[j].set => i = j

LEMMA InNone ==
  ASSUME NEW w, NEW stage
  PROVE  <<>> \in Seq(Job) /\ In(<<>>, w, stage)
BY EmptyAt DEF In

LEMMA MovedIs ==
  ASSUME NEW w \in [Frames -> Stages], NEW f \in Frames, NEW to \in Stages
  PROVE  /\ Moved(w, f, to) \in [Frames -> Stages] /\ Moved(w, f, to)[f] = to
         /\ \A g \in Frames : g # f => Moved(w, f, to)[g] = w[g]
BY DEF Moved

LEMMA InKept ==
  ASSUME NEW w \in [Frames -> Stages], NEW f \in Frames, NEW to \in Stages,
         NEW q \in Seq(Job), NEW stage, In(q, w, stage), w[f] # stage
  PROVE  In(q, Moved(w, f, to), stage)
<1>1. \A i \in DOMAIN q : q[i].set \in Frames
  BY JobIs, LenProperties, ElementOfSeq
<1>2. \A i \in DOMAIN q : q[i].set # f
  BY DEF In
<1> QED BY <1>1, <1>2, MovedIs DEF In

LEMMA InAdded ==
  ASSUME NEW w \in [Frames -> Stages], NEW f \in Frames, NEW stage \in Stages,
         NEW q \in Seq(Job), In(q, w, stage), w[f] # stage
  PROVE  Append(q, Own(f)) \in Seq(Job) /\ In(Append(q, Own(f)), Moved(w, f, stage), stage)
<1> DEFINE r == Append(q, Own(f))
           v == Moved(w, f, stage)
<1>1. /\ r \in Seq(Job) /\ Len(q) \in Nat /\ DOMAIN q = 1 .. Len(q) /\ DOMAIN r = 1 .. Len(q) + 1
      /\ \A i \in 1 .. Len(q) : r[i] = q[i]
      /\ r[Len(q) + 1].set = f
  BY JobIs, AppendAt
<1>2. In(q, v, stage) /\ v[f] = stage
  BY InKept, MovedIs
<1>3. \A i \in DOMAIN q : q[i].set # f
  BY DEF In
<1> HIDE DEF r, v
<1>4. In(r, v, stage)
  BY <1>1, <1>2, <1>3 DEF In
<1> QED BY <1>1, <1>4 DEF r, v

LEMMA InTaken ==
  ASSUME NEW w \in [Frames -> Stages], NEW to \in Stages, NEW stage \in Stages,
         NEW q \in Seq(Job), In(q, w, stage), q # <<>>,
         NEW f, f = Head(q).set
  PROVE  /\ Head(q) \in Job /\ Tail(q) \in Seq(Job)
         /\ f \in Frames /\ w[f] = stage
         /\ In(Tail(q), Moved(w, f, to), stage)
<1> DEFINE r == Tail(q)
           v == Moved(w, f, to)
<1>1. /\ Head(q) \in Job /\ r \in Seq(Job) /\ Len(q) \in Nat \ {0} /\ DOMAIN q = 1 .. Len(q)
      /\ DOMAIN r = 1 .. Len(q) - 1 /\ f = q[1].set /\ Head(q) = q[1]
      /\ \A i \in 1 .. Len(q) - 1 : r[i] = q[i + 1]
  BY TailAt
<1>2. f \in Frames /\ \A i \in DOMAIN q : q[i].set \in Frames
  BY <1>1, JobIs, ElementOfSeq
<1>3. w[f] = stage
  BY <1>1 DEF In
<1>4. \A i \in DOMAIN q : i # 1 => q[i].set # f
  BY <1>1 DEF In
<1>5. \A g \in Frames : g # f => v[g] = w[g]
  BY <1>2, MovedIs
<1> HIDE DEF r, v
<1>6. \A i \in DOMAIN r : /\ i + 1 \in DOMAIN q /\ i + 1 # 1 /\ r[i] = q[i + 1]
  BY <1>1
<1>7. \A i \in DOMAIN r : v[r[i].set] = stage
  BY <1>2, <1>4, <1>5, <1>6 DEF In
<1>8. ASSUME NEW i \in DOMAIN r, NEW j \in DOMAIN r, r[i].set = r[j].set PROVE i = j
  <2>1. i + 1 = j + 1
    BY <1>6, <1>8 DEF In
  <2> QED BY <1>1, <2>1
<1>9. In(r, v, stage)
  BY <1>7, <1>8 DEF In
<1> QED BY <1>1, <1>2, <1>3, <1>9 DEF r, v

\* One job is in a place of its own.
LEMMA InOne ==
  ASSUME NEW w, NEW f \in Frames, NEW stage, w[f] = stage
  PROVE  Append(<<>>, Own(f)) \in Seq(Job) /\ In(Append(<<>>, Own(f)), w, stage)
<1>1. <<>> \in Seq(Job) /\ Own(f) \in Job
  BY EmptyAt, JobIs
<1> DEFINE r == Append(<<>>, Own(f))
<1>2. r \in Seq(Job) /\ DOMAIN r = 1 .. 1 /\ r[1] = Own(f)
  BY <1>1, EmptyAt, AppendAt
<1> HIDE DEF r
<1>3. \A i \in DOMAIN r : i = 1
  BY <1>2
<1>4. In(r, w, stage)
  BY <1>2, <1>3, JobIs DEF In
<1> QED BY <1>2, <1>4 DEF r

-----------------------------------------------------------------------------
(* The steps in front of the hardware.                                     *)

\* The settings are those of live requests, or of input requests: what waits
\* beside them is paired with them.
Live ==
    /\ inputFWK = <<>> /\ \A i \in DOMAIN settings : asked[settings[i]] = "live"
    /\ Partly(settings, inputPP, image) /\ Partly(settings, inputMeta, metadata)

Given ==
    /\ reproc /\ inputFWK = settings /\ \A i \in DOMAIN settings : asked[settings[i]] = "input"
    /\ inputPP = <<>> /\ inputMeta = <<>> /\ image = {} /\ metadata = {}

Waiting ==
    /\ settings \in Seq(Frames) /\ Increasing(settings)
    /\ \A i \in DOMAIN settings : asked[settings[i]] # "no"
    /\ Asking => \A i \in DOMAIN settings, g \in Frames : Newest(g) => settings[i] < g
    /\ ~active => settings = <<>>

Ahead == Waiting /\ (Live \/ Given)

LEMMA AheadKept ==
  ASSUME Ahead, UNCHANGED <<reproc, asked, settings, inputPP, inputMeta, inputFWK, image, metadata>>,
         active => active' \/ settings = <<>>, Asking' => Asking
  PROVE  Ahead'
<1>1. Waiting'
  BY DEF Ahead, Waiting, Newest
<1>2. Live => Live'
  BY DEF Live
<1>3. Given => Given'
  BY DEF Given
<1> QED BY <1>1, <1>2, <1>3 DEF Ahead

\* Without settings nothing else waits in front.
LEMMA NothingWaits ==
  ASSUME Ahead, settings = <<>>
  PROVE  inputFWK = <<>> /\ inputPP = <<>> /\ inputMeta = <<>> /\ image = {} /\ metadata = {}
BY PartlyNone DEF Ahead, Live, Given

LEMMA NothingLeft ==
  ASSUME UNCHANGED <<settings, asked>>, settings = <<>>, inputFWK' = <<>>, inputPP' = <<>>,
         inputMeta' = <<>>, image' = {}, metadata' = {}
  PROVE  Ahead'
<1>1. settings' = <<>> /\ settings' \in Seq(Frames) /\ \A i \in DOMAIN settings' : FALSE
  BY EmptyAt
<1>2. Waiting'
  BY <1>1 DEF Waiting, Increasing
<1>3. Live'
  BY <1>1, PartlyNone DEF Live
<1> QED BY <1>2, <1>3 DEF Ahead

LEMMA AheadRequest ==
  ASSUME Control, Ahead, NEW f \in Frames, NEW kind \in {"live", "input"}, Request(f, kind)
  PROVE  Ahead'
<1>1. /\ asked[f] = "no" /\ asked' = [asked EXCEPT ![f] = kind]
      /\ UNCHANGED <<reproc, active, settings, inputPP, inputMeta, inputFWK, image, metadata>>
  BY DEF Request, queues
<1>2. /\ asked \in [Frames -> {"no", "live", "input"}] /\ settings \in Seq(Frames)
      /\ \A g, h \in Frames : asked[g] # "no" /\ h < g => asked[h] # "no"
  BY DEF Control, Asked, Ahead, Waiting
<1>3. ASSUME NEW i \in DOMAIN settings
      PROVE  settings[i] \in Frames /\ settings[i] < f /\ asked'[settings[i]] = asked[settings[i]]
  <2>1. settings[i] \in Frames /\ asked[settings[i]] # "no"
    BY <1>2, LenProperties, ElementOfSeq DEF Ahead, Waiting
  <2>2. settings[i] # f /\ ~(f < settings[i])
    BY <1>1, <1>2, <2>1
  <2>3. settings[i] < f
    BY <2>1, <2>2 DEF Frames
  <2> QED BY <1>1, <1>2, <2>1, <2>2, <2>3
<1>4. ASSUME NEW i \in DOMAIN settings, NEW g \in Frames, Newest(g)'
      PROVE  settings[i] < g
  <2>1. asked'[f] # "no"
    BY <1>1, <1>2
  <2>2. f <= g
    BY <1>4, <2>1 DEF Newest, Frames
  <2>3. settings[i] < f /\ settings[i] \in Nat /\ f \in Nat /\ g \in Nat
    BY <1>3 DEF Frames
  <2> QED BY <2>2, <2>3
<1>5. Waiting'
  BY <1>1, <1>3, <1>4 DEF Ahead, Waiting, Increasing
<1>6. Live => Live'
  BY <1>1, <1>3 DEF Live
<1>7. Given => Given'
  BY <1>1, <1>3 DEF Given
<1> QED BY <1>5, <1>6, <1>7 DEF Ahead

\* The request in hand is the newest, and no settings are its own yet.
LEMMA InHandIs ==
  ASSUME Control, Ahead, hwi = "queue"
  PROVE  /\ Current \in Frames /\ Newest(Current) /\ asked[Current] # "no"
         /\ active /\ \A i \in DOMAIN settings : settings[i] < Current
<1>1. PICK f \in Frames : Newest(f)
  BY DEF Control, Asked, Asking
<1>2. Current = f
  BY <1>1, CurrentIs
<1> QED BY <1>1, <1>2 DEF Control, Places, Ahead, Waiting, Asking, Newest

LEMMA AheadQueueLive ==
  ASSUME Control, Ahead, QueueLive, ~muddled'
  PROVE  Ahead'
<1> DEFINE f == Current
           all == Append(settings, f)
<1>1. /\ hwi = "queue" /\ asked[f] = "live" /\ settings' = all /\ inputFWK = <<>>
      /\ image' = image \cup {f} /\ metadata' = metadata \cup {f} /\ hwi' = "idle"
      /\ UNCHANGED <<reproc, asked, active, inputPP, inputMeta, inputFWK>>
  BY DEF QueueLive
<1>2. f \in Frames /\ active /\ (\A i \in DOMAIN settings : settings[i] < f) /\ settings \in Seq(Frames)
  BY <1>1, InHandIs DEF Ahead, Waiting
<1>3. all \in Seq(Frames) /\ Increasing(all)
  BY <1>2, AppendAt, IncreasingKept DEF Ahead, Waiting
<1>4. Live
  BY <1>1, PartlyNone, NothingWaits, EmptyAt DEF Ahead, Live, Given
<1>5. Partly(all, inputPP, image') /\ Partly(all, inputMeta, metadata')
  BY <1>1, <1>2, <1>4, PartlyMore DEF Live
<1>6. \A i \in DOMAIN all : asked[all[i]] = "live"
  <2>1. /\ Len(settings) \in Nat /\ DOMAIN settings = 1 .. Len(settings)
        /\ DOMAIN all = 1 .. Len(settings) + 1 /\ \A i \in 1 .. Len(settings) : all[i] = settings[i]
        /\ all[Len(settings) + 1] = f
    BY <1>2, AppendAt
  <2> HIDE DEF f, all
  <2> QED BY <1>1, <1>4, <2>1 DEF Live
<1> HIDE DEF f, all
<1>7. Waiting'
  BY <1>1, <1>2, <1>3, <1>6 DEF Waiting, Asking
<1>8. Live'
  BY <1>1, <1>5, <1>6 DEF Live
<1> QED BY <1>7, <1>8 DEF Ahead

LEMMA OneOf ==
  ASSUME NEW f
  PROVE  Head(Append(<<>>, f)) = f /\ Tail(Append(<<>>, f)) = <<>>
<1> DEFINE r == Append(<<>>, f)
<1>1. r \in Seq({f}) /\ Len(r) = 1 /\ r[1] = f
  BY EmptySeq, AppendProperties
<1>2. r # <<>>
  BY <1>1, EmptySeq
<1> HIDE DEF r
<1>3. Head(r) = r[1] /\ Tail(r) \in Seq({f}) /\ Len(Tail(r)) = 0
  BY <1>1, <1>2, TailAt
<1>4. Tail(r) = <<>>
  BY <1>3, EmptyAt
<1> QED BY <1>1, <1>3, <1>4 DEF r

\* What an input request finds: settings of input requests only.
LEMMA InputFinds ==
  ASSUME Ahead, ~(\E i \in DOMAIN settings : asked[settings[i]] = "live")
  PROVE  reproc => Given
<1>1. settings \in Seq(Frames)
  BY DEF Ahead, Waiting
<1>2. ASSUME Live PROVE settings = <<>>
  <2>1. \A i \in DOMAIN settings : FALSE
    BY <1>2 DEF Live
  <2>2. Len(settings) \in Nat /\ DOMAIN settings = 1 .. Len(settings) /\ (settings = <<>> <=> Len(settings) = 0)
    BY <1>1, EmptyAt
  <2>3. ASSUME Len(settings) # 0 PROVE 1 \in DOMAIN settings
    BY <2>2, <2>3
  <2> QED BY <2>1, <2>2, <2>3
<1>3. ASSUME reproc, settings = <<>> PROVE Given
  BY <1>3, NothingWaits, EmptyAt DEF Given
<1> QED BY <1>2, <1>3 DEF Ahead, Given

LEMMA AheadQueueInput ==
  ASSUME Control, Ahead, QueueInput, ~muddled'
  PROVE  Ahead'
<1> DEFINE f == Current
           all == Append(settings, f)
<1>1. /\ hwi = "queue" /\ asked[f] = "input" /\ hwi' = "idle"
      /\ UNCHANGED <<reproc, asked, active, inputPP, inputMeta, image, metadata>>
      /\ ToReprocess \/ ToEncoder
  BY DEF QueueInput
<1>2. f \in Frames /\ active /\ (\A i \in DOMAIN settings : settings[i] < f) /\ settings \in Seq(Frames)
  BY <1>1, InHandIs DEF Ahead, Waiting
<1>3. CASE ToReprocess
  <2>1. reproc /\ settings' = all /\ inputFWK' = Append(inputFWK, f)
    BY <1>2, <1>3 DEF ToReprocess, enqueue
  <2>2. Given
    BY <1>3, <2>1, InputFinds DEF ToReprocess
  <2>3. all \in Seq(Frames) /\ Increasing(all)
    BY <1>2, AppendAt, IncreasingKept DEF Ahead, Waiting
  <2>4. \A i \in DOMAIN all : asked[all[i]] = "input"
    <3>1. /\ Len(settings) \in Nat /\ DOMAIN settings = 1 .. Len(settings)
          /\ DOMAIN all = 1 .. Len(settings) + 1 /\ \A i \in 1 .. Len(settings) : all[i] = settings[i]
          /\ all[Len(settings) + 1] = f
      BY <1>2, AppendAt
    <3> HIDE DEF f, all
    <3> QED BY <1>1, <2>2, <3>1 DEF Given
  <2>5. inputFWK' = all
    BY <2>1, <2>2 DEF Given
  <2> HIDE DEF f, all
  <2>6. Waiting'
    BY <1>1, <1>2, <2>1, <2>3, <2>4 DEF Waiting, Asking
  <2>7. Given'
    BY <1>1, <1>3, <2>1, <2>2, <2>4, <2>5 DEF Given
  <2> QED BY <2>6, <2>7 DEF Ahead
<1>4. CASE ToEncoder
  <2>1. settings = <<>>
    BY <1>4 DEF ToEncoder
  <2>2. settings' = settings /\ inputFWK' = inputFWK
    BY <1>4, <2>1, OneOf DEF ToEncoder
  <2> QED BY <1>1, <2>2, AheadKept DEF Asking
<1> QED BY <1>1, <1>3, <1>4

LEMMA AheadArrives ==
  ASSUME Ahead, ImageArrives \/ MetadataArrives
  PROVE  Ahead'
<1>1. UNCHANGED <<reproc, asked, hwi, active, settings, inputFWK>>
  BY DEF ImageArrives, MetadataArrives, queues
<1>2. image # {} \/ metadata # {}
  BY DEF ImageArrives, MetadataArrives
<1>3. Live /\ settings \in Seq(Frames) /\ Increasing(settings)
  BY <1>2 DEF Ahead, Given, Waiting
<1>4. Partly(settings, inputPP', image') /\ Partly(settings, inputMeta', metadata')
  <2>1. CASE ImageArrives
    <3>1. /\ image # {} /\ image' = image \ {First(image)} /\ inputPP' = enqueue(inputPP, First(image))
          /\ UNCHANGED <<inputMeta, metadata>>
      BY <2>1 DEF ImageArrives
    <3>2. settings # <<>> /\ Partly(settings, Append(inputPP, First(image)), image')
      BY <1>3, <3>1, PartlyArrived DEF Live
    <3>3. inputPP' = Append(inputPP, First(image))
      BY <3>1, <3>2 DEF enqueue, Ahead, Waiting
    <3> QED BY <1>3, <3>1, <3>2, <3>3 DEF Live
  <2>2. CASE MetadataArrives
    <3>1. /\ metadata # {} /\ metadata' = metadata \ {First(metadata)}
          /\ inputMeta' = enqueue(inputMeta, First(metadata))
          /\ UNCHANGED <<inputPP, image>>
      BY <2>2 DEF MetadataArrives
    <3>2. settings # <<>> /\ Partly(settings, Append(inputMeta, First(metadata)), metadata')
      BY <1>3, <3>1, PartlyArrived DEF Live
    <3>3. inputMeta' = Append(inputMeta, First(metadata))
      BY <3>1, <3>2 DEF enqueue, Ahead, Waiting
    <3> QED BY <1>3, <3>1, <3>2, <3>3 DEF Live
  <2> QED BY <2>1, <2>2
<1>5. Waiting'
  BY <1>1 DEF Ahead, Waiting, Asking, Newest
<1>6. Live'
  BY <1>1, <1>3, <1>4 DEF Live
<1> QED BY <1>5, <1>6 DEF Ahead

\* The oldest settings are taken.
LEMMA WaitingTaken ==
  ASSUME Waiting, settings # <<>>, settings' = Tail(settings), UNCHANGED <<asked, active, hwi>>
  PROVE  /\ Waiting' /\ Head(settings) \in Frames /\ Head(settings) = settings[1] /\ 1 \in DOMAIN settings
         /\ \A i \in DOMAIN Tail(settings) : i + 1 \in DOMAIN settings /\ Tail(settings)[i] = settings[i + 1]
<1> DEFINE r == Tail(settings)
<1>1. settings \in Seq(Frames) /\ Increasing(settings)
  BY DEF Waiting
<1>2. /\ Head(settings) \in Frames /\ Head(settings) = settings[1] /\ r \in Seq(Frames)
      /\ Len(settings) \in Nat \ {0} /\ DOMAIN settings = 1 .. Len(settings)
      /\ DOMAIN r = 1 .. Len(settings) - 1 /\ \A i \in 1 .. Len(settings) - 1 : r[i] = settings[i + 1]
  BY <1>1, TailAt
<1>3. Increasing(r)
  BY <1>1, IncreasingKept
<1>4. settings' = r
  OBVIOUS
<1> HIDE DEF r
<1>5. 1 \in DOMAIN settings /\ \A i \in DOMAIN r : i + 1 \in DOMAIN settings /\ r[i] = settings[i + 1]
  BY <1>2
<1>6. Waiting'
  <2>1. \A i \in DOMAIN r : asked[r[i]] # "no"
    BY <1>5 DEF Waiting
  <2>2. Asking => \A i \in DOMAIN r, g \in Frames : Newest(g) => r[i] < g
    BY <1>5 DEF Waiting
  <2>3. active
    BY DEF Waiting
  <2> QED BY <1>2, <1>3, <1>4, <2>1, <2>2, <2>3 DEF Waiting, Asking, Newest
<1> QED BY <1>2, <1>5, <1>6 DEF r

LEMMA AheadNextInput ==
  ASSUME Ahead, NextInput
  PROVE  /\ Ahead'
         /\ inputFWK # <<>> => settings # <<>> /\ Head(inputFWK) = Head(settings)
<1>1. UNCHANGED <<reproc, asked, hwi, active, inputPP, inputMeta, image, metadata>>
  BY DEF NextInput
<1>2. CASE inputFWK = <<>>
  <2>1. UNCHANGED <<settings, inputFWK>>
    BY <1>2 DEF NextInput
  <2> QED BY <1>1, <1>2, <2>1, AheadKept DEF Asking
<1>3. CASE inputFWK # <<>>
  <2>1. Given /\ settings # <<>> /\ Waiting
    BY <1>3 DEF Ahead, Live, Given
  <2>2. settings' = Tail(settings) /\ inputFWK' = Tail(inputFWK)
    BY <1>3, <2>1 DEF NextInput, Rest
  <2>3. /\ Waiting'
        /\ \A i \in DOMAIN Tail(settings) : i + 1 \in DOMAIN settings /\ Tail(settings)[i] = settings[i + 1]
    BY <1>1, <2>1, <2>2, WaitingTaken
  <2>4. \A i \in DOMAIN Tail(settings) : asked[Tail(settings)[i]] = "input"
    BY <2>1, <2>3 DEF Given
  <2>5. Given'
    BY <1>1, <2>1, <2>2, <2>4 DEF Given
  <2> QED BY <2>1, <2>3, <2>5 DEF Ahead, Given
<1> QED BY <1>2, <1>3

LEMMA AheadNextPair ==
  ASSUME Ahead, NextPair
  PROVE  /\ Ahead'
         /\ inputPP # <<>> /\ inputMeta # <<>> =>
               settings # <<>> /\ Head(inputPP) = Head(settings) /\ Head(inputMeta) = Head(settings)
<1>1. UNCHANGED <<reproc, asked, hwi, active, inputFWK, image, metadata>>
  BY DEF NextPair
<1>2. CASE ~(inputPP # <<>> /\ inputMeta # <<>>)
  <2>1. UNCHANGED <<settings, inputPP, inputMeta>>
    BY <1>2 DEF NextPair
  <2> QED BY <1>1, <1>2, <2>1, AheadKept DEF Asking
<1>3. CASE inputPP # <<>> /\ inputMeta # <<>>
  <2>1. Live /\ Waiting /\ settings \in Seq(Frames)
    BY <1>3 DEF Ahead, Given, Waiting
  <2>2. /\ settings # <<>> /\ Head(inputPP) = Head(settings) /\ Head(inputMeta) = Head(settings)
        /\ Partly(Tail(settings), Tail(inputPP), image) /\ Partly(Tail(settings), Tail(inputMeta), metadata)
    BY <1>3, <2>1, PartlyTaken DEF Live
  <2>3. settings' = Tail(settings) /\ inputPP' = Tail(inputPP) /\ inputMeta' = Tail(inputMeta)
    BY <1>3, <2>2 DEF NextPair, Rest
  <2>4. /\ Waiting'
        /\ \A i \in DOMAIN Tail(settings) : i + 1 \in DOMAIN settings /\ Tail(settings)[i] = settings[i + 1]
    BY <1>1, <2>1, <2>2, <2>3, WaitingTaken
  <2>5. \A i \in DOMAIN Tail(settings) : asked[Tail(settings)[i]] = "live"
    BY <2>1, <2>4 DEF Live
  <2>6. Live'
    BY <1>1, <2>1, <2>2, <2>3, <2>5 DEF Live
  <2> QED BY <2>2, <2>4, <2>6 DEF Ahead
<1> QED BY <1>2, <1>3

\* Every step keeps what waits in front of the hardware in order.
LEMMA AheadStep ==
  ASSUME Ind, Control, Ahead, Next, ~muddled'
  PROVE  Ahead'
<1>1. CASE \E f \in Frames, kind \in {"live", "input"} : Request(f, kind)
  BY <1>1, AheadRequest
<1>2. CASE QueueLive \/ QueueInput
  BY <1>2, AheadQueueLive, AheadQueueInput
<1>3. CASE StreamsStop
  <2>1. settings = <<>>
    BY <1>3 DEF StreamsStop, Control, Places, Ahead, Waiting
  <2>2. /\ UNCHANGED <<asked, settings, inputFWK, inputPP, inputMeta>> /\ image' = {} /\ metadata' = {}
    BY <1>3 DEF StreamsStop, queues
  <2> QED BY <2>1, <2>2, NothingWaits, NothingLeft
<1>4. CASE ImageArrives \/ MetadataArrives
  BY <1>4, AheadArrives
<1>5. CASE StopDone
  <2>1. settings = <<>>
    BY <1>5 DEF StopDone
  <2>2. /\ UNCHANGED <<asked, settings, image, metadata>>
        /\ inputFWK' = <<>> /\ inputPP' = <<>> /\ inputMeta' = <<>>
    BY <1>5 DEF StopDone, FlushQueues
  <2> QED BY <2>1, <2>2, NothingWaits, NothingLeft
<1>6. CASE NextInput \/ NextPair
  BY <1>6, AheadNextInput, AheadNextPair
<1>7. CASE StartDone
  <2>1. /\ active' /\ hwi' = "queue" /\ cmds # <<>> /\ Head(cmds) = "start"
        /\ UNCHANGED <<reproc, asked, settings, inputPP, inputMeta, inputFWK, image, metadata>>
    BY <1>7 DEF StartDone, queues
  <2>2. hwi = "start"
    BY <2>1, CallTaken DEF Control
  <2> QED BY <2>1, <2>2, AheadKept DEF Asking
<1>8. CASE Stop
  <2>1. /\ hwi' = "stop"
        /\ UNCHANGED <<reproc, asked, active, settings, inputPP, inputMeta, inputFWK, image, metadata>>
    BY <1>8 DEF Stop, queues
  <2> QED BY <2>1, AheadKept DEF Asking
<1>9. CASE Reprocessed \/ EncoderDone \/ (\E job \in event : Answer(job)) \/ NextInactive \/ NextJpeg
  <2>1. UNCHANGED <<reproc, asked, hwi, active, settings, inputPP, inputMeta, inputFWK, image, metadata>>
    BY <1>9 DEF Reprocessed, EncoderDone, Answer, NextInactive, NextJpeg, queues
  <2> QED BY <2>1, AheadKept DEF Asking
<1> QED BY <1>1, <1>2, <1>3, <1>4, <1>5, <1>6, <1>7, <1>8, <1>9 DEF Next

-----------------------------------------------------------------------------
(* In and behind the hardware: every request is in one place.              *)

\* The frames in the hardware are those of the ongoing jobs.
Matched(frames, jobs) ==
    Len(frames) = Len(jobs) /\ \A i \in DOMAIN frames : frames[i] = jobs[i].set

LEMMA MatchedNone == Matched(<<>>, <<>>)
BY EmptyAt DEF Matched

LEMMA MatchedAdded ==
  ASSUME NEW frames \in Seq(Frames), NEW jobs \in Seq(Job), Matched(frames, jobs), NEW f \in Frames
  PROVE  Matched(Append(frames, f), Append(jobs, Own(f)))
<1> DEFINE a == Append(frames, f)
           b == Append(jobs, Own(f))
<1>1. /\ Len(frames) \in Nat /\ DOMAIN frames = 1 .. Len(frames) /\ DOMAIN a = 1 .. Len(frames) + 1
      /\ Len(a) = Len(frames) + 1
      /\ \A i \in 1 .. Len(frames) : a[i] = frames[i]
      /\ a[Len(frames) + 1] = f
  BY AppendAt
<1>2. /\ Len(b) = Len(jobs) + 1 /\ \A i \in 1 .. Len(jobs) : b[i] = jobs[i]
      /\ b[Len(jobs) + 1].set = f
  BY JobIs, AppendAt
<1>3. Len(frames) = Len(jobs) /\ \A i \in 1 .. Len(frames) : frames[i] = jobs[i].set
  BY <1>1 DEF Matched
<1> HIDE DEF a, b
<1>4. \A i \in 1 .. Len(frames) + 1 : a[i] = b[i].set
  BY <1>1, <1>2, <1>3
<1>5. Matched(a, b)
  BY <1>1, <1>2, <1>3, <1>4 DEF Matched
<1> QED BY <1>5 DEF a, b

LEMMA MatchedTaken ==
  ASSUME NEW frames \in Seq(Frames), NEW jobs \in Seq(Job), Matched(frames, jobs), frames # <<>>
  PROVE  jobs # <<>> /\ Head(frames) = Head(jobs).set /\ Matched(Tail(frames), Tail(jobs))
<1> DEFINE a == Tail(frames)
           b == Tail(jobs)
<1>1. /\ Head(frames) = frames[1] /\ Len(frames) \in Nat \ {0} /\ Len(a) = Len(frames) - 1
      /\ DOMAIN frames = 1 .. Len(frames) /\ DOMAIN a = 1 .. Len(frames) - 1
      /\ \A i \in 1 .. Len(frames) - 1 : a[i] = frames[i + 1]
  BY TailAt
<1>2. Len(frames) = Len(jobs) /\ \A i \in 1 .. Len(frames) : frames[i] = jobs[i].set
  BY <1>1 DEF Matched
<1>3. jobs # <<>>
  BY <1>1, <1>2, EmptyAt
<1>4. /\ Head(jobs) = jobs[1] /\ Len(b) = Len(jobs) - 1
      /\ \A i \in 1 .. Len(jobs) - 1 : b[i] = jobs[i + 1]
  BY <1>3, TailAt
<1> HIDE DEF a, b
<1>5. \A i \in 1 .. Len(frames) - 1 : a[i] = b[i].set
  BY <1>1, <1>2, <1>4
<1>6. Matched(a, b)
  BY <1>1, <1>2, <1>4, <1>5 DEF Matched
<1> QED BY <1>1, <1>2, <1>3, <1>4, <1>6 DEF a, b

Waits(all, w) == \A i \in DOMAIN all : w[all[i]] = "settings"

LEMMA WaitsTaken ==
  ASSUME NEW all \in Seq(Frames), Increasing(all), all # <<>>,
         NEW w \in [Frames -> Stages], NEW to \in Stages, Waits(all, w)
  PROVE  /\ Head(all) \in Frames /\ w[Head(all)] = "settings"
         /\ Waits(Tail(all), Moved(w, Head(all), to))
<1> DEFINE r == Tail(all)
           f == Head(all)
           v == Moved(w, f, to)
<1>1. /\ f \in Frames /\ f = all[1] /\ Len(all) \in Nat \ {0} /\ DOMAIN all = 1 .. Len(all)
      /\ DOMAIN r = 1 .. Len(all) - 1 /\ \A i \in 1 .. Len(all) - 1 : r[i] = all[i + 1]
  BY TailAt
<1>2. \A g \in Frames : g # f => v[g] = w[g]
  BY <1>1, MovedIs
<1> HIDE DEF r, f, v
<1>3. ASSUME NEW i \in DOMAIN r PROVE v[r[i]] = "settings"
  <2>1. i + 1 \in DOMAIN all /\ 1 \in DOMAIN all /\ 1 < i + 1 /\ r[i] = all[i + 1]
    BY <1>1
  <2>2. all[i + 1] \in Frames /\ f < all[i + 1]
    BY <1>1, <2>1, ElementOfSeq DEF Increasing
  <2>3. all[i + 1] # f
    BY <1>1, <2>2 DEF Frames
  <2> QED BY <1>2, <2>1, <2>2, <2>3 DEF Waits
<1>4. w[f] = "settings"
  BY <1>1 DEF Waits
<1> QED BY <1>1, <1>3, <1>4 DEF Waits, r, f, v

LEMMA WaitsAdded ==
  ASSUME NEW all \in Seq(Frames), NEW w \in [Frames -> Stages], Waits(all, w),
         NEW f \in Frames, w[f] # "settings"
  PROVE  Waits(Append(all, f), Moved(w, f, "settings"))
<1> DEFINE r == Append(all, f)
           v == Moved(w, f, "settings")
<1>1. /\ Len(all) \in Nat /\ DOMAIN all = 1 .. Len(all) /\ DOMAIN r = 1 .. Len(all) + 1
      /\ \A i \in 1 .. Len(all) : r[i] = all[i]
      /\ r[Len(all) + 1] = f
  BY AppendAt
<1>2. \A i \in DOMAIN all : all[i] \in Frames /\ all[i] # f /\ v[all[i]] = w[all[i]]
  BY <1>1, ElementOfSeq, MovedIs DEF Waits, Stages
<1>3. v[f] = "settings"
  BY MovedIs DEF Stages
<1> HIDE DEF r, v
<1>4. Waits(r, v)
  BY <1>1, <1>2, <1>3 DEF Waits
<1> QED BY <1>4 DEF r, v

Told(jobs, w) == \A j \in jobs : w[j.set] = "event"
Unasked(w) == \A f \in Frames : asked[f] = "no" \/ (Asking /\ Newest(f)) => w[f] = "none"

Placed(w) ==
    /\ Waits(settings, w)
    /\ In(ongoingPP, w, "hardware") /\ In(inputJpeg, w, "jpeg") /\ In(ongoingJpeg, w, "encoder")
    /\ Told(event, w)
    /\ In(done, w, "done")
    /\ Unasked(w)

Jobs ==
    /\ ongoingPP \in Seq(Job) /\ inputJpeg \in Seq(Job) /\ ongoingJpeg \in Seq(Job)
    /\ event \subseteq Job /\ done \in Seq(Job) /\ hw \in Seq(Frames)

Hardware ==
    /\ ~reproc => ongoingPP = <<>>
    /\ ~active => ongoingPP = <<>> /\ (hwi # "stopped" => hw = <<>>)
    /\ active => Matched(hw, ongoingPP)

Behind == Jobs /\ Hardware /\ \E w \in [Frames -> Stages] : Placed(w)

LEMMA BehindKept ==
  ASSUME Behind, UNCHANGED <<reproc, asked, settings, ongoingPP, inputJpeg, ongoingJpeg, event, done>>,
         Hardware', hw' \in Seq(Frames), Asking' => Asking
  PROVE  Behind'
<1>1. PICK w \in [Frames -> Stages] : Placed(w)
  BY DEF Behind
<1>2. Placed(w)'
  BY <1>1 DEF Placed, Unasked, Newest
<1> QED BY <1>2 DEF Behind, Jobs

\* A request that moves is missed only where it was.
LEMMA StagesAre == {"none", "settings", "hardware", "jpeg", "encoder", "event", "done"} \subseteq Stages
BY DEF Stages

LEMMA Elsewhere ==
  ASSUME Ahead, Jobs, NEW w \in [Frames -> Stages], Placed(w), NEW f \in Frames, NEW to \in Stages
  PROVE  LET v == Moved(w, f, to) IN
         /\ v \in [Frames -> Stages] /\ v[f] = to
         /\ w[f] # "settings" => Waits(settings, v)
         /\ w[f] # "hardware" => In(ongoingPP, v, "hardware")
         /\ w[f] # "jpeg" => In(inputJpeg, v, "jpeg")
         /\ w[f] # "encoder" => In(ongoingJpeg, v, "encoder")
         /\ w[f] # "event" => Told(event, v)
         /\ w[f] # "done" => In(done, v, "done")
         /\ w[f] # "none" => Unasked(v)
<1> DEFINE v == Moved(w, f, to)
<1>1. v \in [Frames -> Stages] /\ v[f] = to /\ \A g \in Frames : g # f => v[g] = w[g]
  BY MovedIs
<1> HIDE DEF v
<1>2. w[f] # "settings" => Waits(settings, v)
  <2>1. \A i \in DOMAIN settings : settings[i] \in Frames
    BY LenProperties, ElementOfSeq DEF Ahead, Waiting
  <2> QED BY <1>1, <2>1 DEF Placed, Waits
<1>3. /\ w[f] # "hardware" => In(ongoingPP, v, "hardware")
      /\ w[f] # "jpeg" => In(inputJpeg, v, "jpeg")
      /\ w[f] # "encoder" => In(ongoingJpeg, v, "encoder")
      /\ w[f] # "done" => In(done, v, "done")
  BY InKept DEF Placed, Jobs, v
<1>4. w[f] # "event" => Told(event, v)
  BY <1>1, JobIs DEF Placed, Jobs, Told
<1>5. w[f] # "none" => Unasked(v)
  BY <1>1 DEF Placed, Unasked
<1> QED BY <1>1, <1>2, <1>3, <1>4, <1>5 DEF v

LEMMA BehindRequest ==
  ASSUME Control, Behind, NEW f \in Frames, NEW kind \in {"live", "input"}, Request(f, kind)
  PROVE  Behind'
<1>1. /\ hwi = "idle" /\ asked[f] = "no" /\ asked' = [asked EXCEPT ![f] = kind]
      /\ UNCHANGED <<reproc, active, settings, ongoingPP, inputJpeg, ongoingJpeg, event, done, hw>>
  BY DEF Request, queues
<1>2. /\ asked \in [Frames -> {"no", "live", "input"}]
      /\ \A g, h \in Frames : asked[g] # "no" /\ h < g => asked[h] # "no"
  BY DEF Control, Asked
<1>3. PICK w \in [Frames -> Stages] : Placed(w)
  BY DEF Behind
<1>4. ASSUME NEW g \in Frames, Newest(g)' PROVE w[g] = "none"
  <2>1. asked'[f] # "no" /\ asked'[g] # "no"
    BY <1>1, <1>2, <1>4 DEF Newest
  <2>2. f <= g
    BY <1>4, <2>1 DEF Newest, Frames
  <2>3. g = f \/ (f < g /\ asked[g] # "no")
    BY <1>1, <1>2, <2>1, <2>2 DEF Frames
  <2>4. g = f
    BY <1>1, <1>2, <2>3
  <2> QED BY <1>1, <1>3, <2>4 DEF Placed, Unasked
<1>5. \A g \in Frames : asked'[g] = "no" => asked[g] = "no"
  BY <1>1, <1>2
<1>6. Unasked(w)'
  BY <1>3, <1>4, <1>5 DEF Placed, Unasked
<1>7. Placed(w)'
  BY <1>1, <1>3, <1>6 DEF Placed
<1>8. Hardware'
  BY <1>1 DEF Behind, Hardware
<1> QED BY <1>1, <1>7, <1>8 DEF Behind, Jobs

\* The request in hand has no place before it is queued.
LEMMA BehindQueues ==
  ASSUME Control, Ahead, Behind, QueueLive \/ QueueInput, ~muddled'
  PROVE  Behind'
<1>1. hwi = "queue" /\ hwi' = "idle"
      /\ UNCHANGED <<reproc, asked, active, ongoingPP, ongoingJpeg, event, done, hw>>
  BY DEF QueueLive, QueueInput
<1>2. /\ Current \in Frames /\ Newest(Current) /\ asked[Current] # "no"
      /\ active /\ \A i \in DOMAIN settings : settings[i] < Current
  BY <1>1, InHandIs
<1>3. PICK w \in [Frames -> Stages] : Placed(w)
  BY DEF Behind
<1>4. PICK f \in Frames : f = Current
  BY <1>2
<1>5. w[f] = "none" /\ asked[f] # "no"
  BY <1>1, <1>2, <1>3, <1>4 DEF Placed, Unasked, Asking
<1>6. Hardware'
  BY <1>1 DEF Behind, Hardware
<1>7. settings \in Seq(Frames) /\ Jobs
  BY DEF Ahead, Waiting, Behind
<1>8. ASSUME settings' = Append(settings, f), inputJpeg' = inputJpeg
      PROVE  Behind'
  <2> DEFINE v == Moved(w, f, "settings")
  <2>1. /\ v \in [Frames -> Stages] /\ In(ongoingPP, v, "hardware") /\ In(inputJpeg, v, "jpeg")
        /\ In(ongoingJpeg, v, "encoder") /\ Told(event, v)
        /\ In(done, v, "done")
    BY <1>3, <1>5, <1>7, Elsewhere, StagesAre
  <2>2. Waits(settings', v)
    BY <1>3, <1>5, <1>7, <1>8, WaitsAdded DEF Placed
  <2>3. \A g \in Frames : g # f => v[g] = w[g]
    BY MovedIs, StagesAre
  <2> HIDE DEF v
  <2>4. Unasked(v)'
    BY <1>1, <1>3, <1>5, <2>3 DEF Placed, Unasked, Asking
  <2>5. Placed(v)'
    BY <1>1, <1>8, <2>1, <2>2, <2>4 DEF Placed
  <2> QED BY <1>1, <1>6, <1>7, <1>8, <2>1, <2>5 DEF Behind, Jobs
<1>9. ASSUME settings' = settings, inputJpeg' = Append(inputJpeg, Own(f))
      PROVE  Behind'
  <2> DEFINE v == Moved(w, f, "jpeg")
  <2>1. /\ v \in [Frames -> Stages] /\ In(ongoingPP, v, "hardware") /\ Waits(settings, v)
        /\ In(ongoingJpeg, v, "encoder") /\ Told(event, v)
        /\ In(done, v, "done")
    BY <1>3, <1>5, <1>7, Elsewhere, StagesAre
  <2>2. inputJpeg' \in Seq(Job) /\ In(inputJpeg', v, "jpeg")
    BY <1>3, <1>5, <1>7, <1>9, InAdded DEF Placed, Jobs, Stages
  <2>3. \A g \in Frames : g # f => v[g] = w[g]
    BY MovedIs, StagesAre
  <2> HIDE DEF v
  <2>4. Unasked(v)'
    BY <1>1, <1>3, <1>5, <2>3 DEF Placed, Unasked, Asking
  <2>5. Placed(v)'
    BY <1>1, <1>9, <2>1, <2>2, <2>4 DEF Placed
  <2> QED BY <1>1, <1>6, <1>7, <2>1, <2>2, <2>5 DEF Behind, Jobs
<1>10. CASE QueueLive \/ (QueueInput /\ ToReprocess)
  <2>1. settings' = Append(settings, f) /\ inputJpeg' = inputJpeg
    BY <1>4, <1>10 DEF QueueLive, ToReprocess
  <2> QED BY <1>8, <2>1
<1>11. CASE QueueInput /\ ToEncoder
  <2>1. settings = <<>>
    BY <1>11 DEF ToEncoder
  <2>2. settings' = settings /\ inputJpeg' = Append(inputJpeg, Own(f))
    BY <1>2, <1>4, <1>11, <2>1, OneOf DEF ToEncoder, enqueue, Own
  <2> QED BY <1>9, <2>2
<1> QED BY <1>10, <1>11 DEF QueueInput

LEMMA BehindReprocessed ==
  ASSUME Ahead, Behind, Reprocessed
  PROVE  Behind'
<1>1. /\ hw # <<>> /\ hw' = Tail(hw)
      /\ UNCHANGED <<reproc, asked, hwi, active, settings, ongoingJpeg, event, done>>
  BY DEF Reprocessed
<1>2. Jobs /\ hw' \in Seq(Frames)
  BY <1>1, TailAt DEF Behind, Jobs
<1>3. CASE ~active
  <2>1. ongoingPP = <<>> /\ hwi = "stopped"
    BY <1>1, <1>3 DEF Behind, Hardware
  <2>2. ongoingPP' = <<>> /\ inputJpeg' = inputJpeg
    BY <2>1 DEF Reprocessed, processPPData, Rest
  <2> QED BY <1>1, <1>2, <1>3, <2>1, <2>2, BehindKept DEF Hardware, Asking
<1>4. CASE active
  <2>1. /\ ongoingPP # <<>> /\ Head(hw) = Head(ongoingPP).set
        /\ Matched(Tail(hw), Tail(ongoingPP))
    BY <1>1, <1>2, <1>4, MatchedTaken DEF Behind, Hardware, Jobs
  <2>2. PICK w \in [Frames -> Stages] : Placed(w)
    BY DEF Behind
  <2>3. Head(ongoingPP) \in Job /\ Tail(ongoingPP) \in Seq(Job) /\ Head(ongoingPP).set \in Frames
    BY <1>2, <2>1, TailAt, JobIs DEF Jobs
  <2>4. PICK f \in Frames : f = Head(ongoingPP).set
    BY <2>3
  <2> DEFINE v == Moved(w, f, "jpeg")
  <2>5. w[f] = "hardware" /\ In(Tail(ongoingPP), v, "hardware")
    <3>1. ongoingPP \in Seq(Job) /\ In(ongoingPP, w, "hardware")
      BY <1>2, <2>2 DEF Placed, Jobs
    <3> QED BY <2>1, <2>4, <3>1, InTaken, StagesAre
  <2>6. ongoingPP' = Tail(ongoingPP) /\ inputJpeg' = Append(inputJpeg, Own(f))
    <3>1. ongoingPP' = Tail(ongoingPP)
      BY <2>1 DEF Reprocessed, Rest
    <3>2. Head(ongoingPP) = Own(f) /\ f # 0
      BY <2>3, <2>4, JobIs
    <3>3. job_of(Head(hw), ongoingPP) = Own(f)
      BY <2>1, <2>4, <3>2 DEF job_of, Own
    <3>4. inputJpeg' = enqueue(inputJpeg, job_of(Head(hw), ongoingPP))
      BY <2>1, <2>4, <3>2 DEF Reprocessed, processPPData
    <3> QED BY <1>4, <3>1, <3>3, <3>4 DEF enqueue
  <2>7. /\ v \in [Frames -> Stages] /\ Waits(settings, v)
        /\ In(ongoingJpeg, v, "encoder") /\ Told(event, v)
        /\ In(done, v, "done") /\ Unasked(v)
    BY <1>2, <2>2, <2>5, Elsewhere, StagesAre
  <2>8. inputJpeg' \in Seq(Job) /\ In(inputJpeg', v, "jpeg")
    BY <1>2, <2>2, <2>5, <2>6, InAdded DEF Placed, Jobs, Stages
  <2> HIDE DEF v
  <2>9. Unasked(v)'
    BY <1>1, <2>7 DEF Unasked, Asking, Newest
  <2>10. Placed(v)'
    BY <1>1, <2>5, <2>6, <2>7, <2>8, <2>9 DEF Placed
  <2>11. Hardware' /\ Jobs'
    BY <1>1, <1>2, <1>4, <2>1, <2>3, <2>6, <2>8 DEF Behind, Hardware, Jobs
  <2> QED BY <2>7, <2>10, <2>11 DEF Behind
<1> QED BY <1>3, <1>4

LEMMA BehindEncoderDone ==
  ASSUME Ahead, Behind, EncoderDone
  PROVE  Behind'
<1>1. /\ ongoingJpeg # <<>> /\ ongoingJpeg' = Tail(ongoingJpeg) /\ event' = event \cup {Head(ongoingJpeg)}
      /\ UNCHANGED <<reproc, asked, hwi, active, settings, ongoingPP, inputJpeg, done, hw>>
  BY DEF EncoderDone, queues
<1>2. Jobs
  BY DEF Behind
<1>3. PICK w \in [Frames -> Stages] : Placed(w)
  BY DEF Behind
<1>4. Head(ongoingJpeg) \in Job /\ Tail(ongoingJpeg) \in Seq(Job) /\ Head(ongoingJpeg).set \in Frames
  BY <1>1, <1>2, TailAt, JobIs DEF Jobs
<1>5. PICK f \in Frames : f = Head(ongoingJpeg).set
  BY <1>4
<1> DEFINE v == Moved(w, f, "event")
<1>6. w[f] = "encoder" /\ In(Tail(ongoingJpeg), v, "encoder")
  <2>1. ongoingJpeg \in Seq(Job) /\ In(ongoingJpeg, w, "encoder")
    BY <1>2, <1>3 DEF Placed, Jobs
  <2> QED BY <1>1, <1>5, <2>1, InTaken, StagesAre
<1>7. /\ v \in [Frames -> Stages] /\ v[f] = "event" /\ Waits(settings, v)
      /\ In(ongoingPP, v, "hardware") /\ In(inputJpeg, v, "jpeg")
      /\ Told(event, v)
      /\ In(done, v, "done") /\ Unasked(v)
  BY <1>2, <1>3, <1>6, Elsewhere, StagesAre
<1> HIDE DEF v
<1>8. Told(event', v)
  BY <1>1, <1>5, <1>7 DEF Told
<1>9. Placed(v)'
  BY <1>1, <1>6, <1>7, <1>8 DEF Placed, Unasked, Asking, Newest
<1>10. Jobs' /\ Hardware'
  BY <1>1, <1>2, <1>4 DEF Behind, Hardware, Jobs
<1> QED BY <1>7, <1>9, <1>10 DEF Behind

LEMMA BehindAnswer ==
  ASSUME Ahead, Behind, NEW job \in event, Answer(job)
  PROVE  Behind'
<1>1. /\ event' = event \ {job} /\ done' = Append(done, job)
      /\ UNCHANGED <<reproc, asked, hwi, active, settings, ongoingPP, inputJpeg, ongoingJpeg, hw>>
  BY DEF Answer, queues
<1>2. Jobs /\ job \in Job
  BY DEF Behind, Jobs
<1>3. PICK w \in [Frames -> Stages] : Placed(w)
  BY DEF Behind
<1>4. job.set \in Frames /\ job = Own(job.set) /\ w[job.set] = "event"
  BY <1>2, <1>3, JobIs DEF Placed, Told
<1>5. PICK f \in Frames : f = job.set
  BY <1>4
<1> DEFINE v == Moved(w, f, "done")
<1>6. w[f] = "event" /\ job = Own(f)
  BY <1>4, <1>5
<1>7. /\ v \in [Frames -> Stages] /\ Waits(settings, v)
      /\ In(ongoingPP, v, "hardware") /\ In(inputJpeg, v, "jpeg")
      /\ In(ongoingJpeg, v, "encoder") /\ Unasked(v)
  BY <1>2, <1>3, <1>6, Elsewhere, StagesAre
<1>8. done' \in Seq(Job) /\ In(done', v, "done")
  BY <1>1, <1>2, <1>3, <1>6, InAdded DEF Placed, Jobs, Stages
<1>9. Told(event', v)
  <2>1. ASSUME NEW j \in event' PROVE v[j.set] = "event"
    <3>1. j \in event /\ j # job /\ j \in Job
      BY <1>1, <1>2, <2>1 DEF Jobs
    <3>2. j.set \in Frames /\ j.set # f
      BY <1>6, <3>1, JobIs
    <3>3. v[j.set] = w[j.set]
      BY <3>2, MovedIs, StagesAre
    <3> QED BY <1>3, <3>1, <3>3 DEF Placed, Told
  <2> QED BY <2>1 DEF Told
<1> HIDE DEF v
<1>10. Placed(v)'
  BY <1>1, <1>7, <1>8, <1>9 DEF Placed, Unasked, Asking, Newest
<1>11. Jobs' /\ Hardware'
  BY <1>1, <1>2, <1>8 DEF Behind, Hardware, Jobs
<1> QED BY <1>7, <1>10, <1>11 DEF Behind

LEMMA BehindNextJpeg ==
  ASSUME Ahead, Behind, NextJpeg
  PROVE  Behind'
<1>1. UNCHANGED <<reproc, asked, hwi, active, settings, ongoingPP, event, done, hw>>
  BY DEF NextJpeg
<1>2. Jobs /\ Hardware' /\ Hardware
  BY <1>1 DEF Behind, Hardware
<1>3. PICK w \in [Frames -> Stages] : Placed(w)
  BY DEF Behind
<1>4. CASE ~(ongoingJpeg = <<>> /\ inputJpeg # <<>>)
  <2>1. UNCHANGED <<inputJpeg, ongoingJpeg>>
    BY <1>4 DEF NextJpeg, encode_one
  <2> QED BY <1>1, <1>2, <2>1, BehindKept DEF Asking, Jobs
<1>5. CASE ongoingJpeg = <<>> /\ inputJpeg # <<>>
  <2>1. Head(inputJpeg) \in Job /\ Tail(inputJpeg) \in Seq(Job) /\ Head(inputJpeg).set \in Frames
    BY <1>2, <1>5, TailAt, JobIs DEF Jobs
  <2>2. PICK f \in Frames : f = Head(inputJpeg).set
    BY <2>1
  <2>3. Head(inputJpeg) = Own(f)
    BY <2>1, <2>2, JobIs
  <2>4. inputJpeg' = Tail(inputJpeg)
    BY <1>5 DEF NextJpeg, encode_one
  <2>5. ongoingJpeg' = Append(ongoingJpeg, Own(f)) \/ ongoingJpeg' = ongoingJpeg
    BY <1>5, <2>3 DEF NextJpeg
  <2>6. ASSUME NEW to \in {"encoder", "none"},
               /\ ongoingJpeg' \in Seq(Job)
               /\ In(ongoingJpeg', Moved(w, f, to), "encoder")
        PROVE  Behind'
    <3> DEFINE v == Moved(w, f, to)
    <3>1. to \in Stages /\ "jpeg" \in Stages
      BY StagesAre
    <3>2. w[f] = "jpeg" /\ In(Tail(inputJpeg), v, "jpeg")
      BY <1>2, <1>3, <1>5, <2>2, <3>1, InTaken DEF Placed, Jobs
    <3>3. /\ v \in [Frames -> Stages] /\ Waits(settings, v) /\ In(ongoingPP, v, "hardware")
          /\ Told(event, v) /\ In(done, v, "done") /\ Unasked(v)
      BY <1>2, <1>3, <3>1, <3>2, Elsewhere
    <3>4. In(ongoingJpeg', v, "encoder")
      BY <2>6
    <3> HIDE DEF v
    <3>5. Placed(v)'
      BY <1>1, <2>4, <3>2, <3>3, <3>4 DEF Placed, Unasked, Asking, Newest
    <3> QED BY <1>1, <1>2, <2>1, <2>4, <2>6, <3>3, <3>5 DEF Behind, Jobs
  <2>7. CASE ongoingJpeg' = Append(ongoingJpeg, Own(f))
    <3>1. Moved(w, f, "encoder")[f] = "encoder"
      BY MovedIs, StagesAre
    <3>2. ongoingJpeg' \in Seq(Job) /\ In(ongoingJpeg', Moved(w, f, "encoder"), "encoder")
      BY <1>5, <2>7, <3>1, InOne
    <3> QED BY <2>6, <3>2
  <2>8. CASE ongoingJpeg' = ongoingJpeg
    <3>1. ongoingJpeg' \in Seq(Job) /\ In(ongoingJpeg', Moved(w, f, "none"), "encoder")
      BY <1>5, <2>8, InNone
    <3> QED BY <2>6, <3>1
  <2> QED BY <2>5, <2>7, <2>8
<1> QED BY <1>4, <1>5

\* The oldest settings and what is paired with them are a job for the hardware.
LEMMA BehindHardware ==
  ASSUME Ahead, Behind, active, reproc, settings # <<>>, settings' = Tail(settings),
         doReprocessOffline(Own(Head(settings))),
         UNCHANGED <<reproc, asked, hwi, active, inputJpeg, ongoingJpeg, event, done>>
  PROVE  Behind'
<1>1. Jobs /\ settings \in Seq(Frames) /\ Increasing(settings)
  BY DEF Behind, Ahead, Waiting
<1>2. PICK w \in [Frames -> Stages] : Placed(w)
  BY DEF Behind
<1>3. PICK f \in Frames : f = Head(settings)
  BY <1>1, TailAt
<1>4. \/ ongoingPP' = Append(ongoingPP, Own(f)) /\ hw' = Append(hw, f)
      \/ ongoingPP' = ongoingPP /\ hw' = hw
  BY <1>3, JobIs DEF doReprocessOffline
<1>5. ASSUME NEW to \in {"hardware", "none"},
             /\ ongoingPP' \in Seq(Job) /\ hw' \in Seq(Frames) /\ Matched(hw', ongoingPP')
             /\ In(ongoingPP', Moved(w, f, to), "hardware")
      PROVE  Behind'
  <2> DEFINE v == Moved(w, f, to)
  <2>1. to \in Stages
    BY StagesAre
  <2>2. w[f] = "settings" /\ Waits(settings', v)
    BY <1>1, <1>2, <1>3, <2>1, WaitsTaken DEF Placed
  <2>3. /\ v \in [Frames -> Stages] /\ In(inputJpeg, v, "jpeg") /\ In(ongoingJpeg, v, "encoder")
        /\ Told(event, v) /\ In(done, v, "done") /\ Unasked(v)
    BY <1>1, <1>2, <2>1, <2>2, Elsewhere
  <2>4. In(ongoingPP', v, "hardware")
    BY <1>5
  <2> HIDE DEF v
  <2>5. Placed(v)'
    BY <2>2, <2>3, <2>4 DEF Placed, Unasked, Asking, Newest
  <2>6. Hardware' /\ Jobs'
    BY <1>1, <1>5 DEF Hardware, Jobs
  <2> QED BY <2>3, <2>5, <2>6 DEF Behind
<1>6. w[f] = "settings"
  BY <1>1, <1>2, <1>3, WaitsTaken, StagesAre DEF Placed
<1>7. CASE ongoingPP' = Append(ongoingPP, Own(f)) /\ hw' = Append(hw, f)
  <2>1. ongoingPP' \in Seq(Job) /\ In(ongoingPP', Moved(w, f, "hardware"), "hardware")
    BY <1>1, <1>2, <1>6, <1>7, InAdded, StagesAre DEF Placed, Jobs
  <2>2. hw' \in Seq(Frames) /\ Matched(hw', ongoingPP')
    BY <1>1, <1>7, AppendAt, MatchedAdded DEF Behind, Hardware, Jobs
  <2> QED BY <1>5, <2>1, <2>2
<1>8. CASE ongoingPP' = ongoingPP /\ hw' = hw
  <2>1. In(ongoingPP, Moved(w, f, "none"), "hardware")
    BY <1>1, <1>2, <1>6, Elsewhere, StagesAre
  <2> QED BY <1>1, <1>5, <1>8, <2>1 DEF Behind, Hardware, Jobs
<1> QED BY <1>4, <1>7, <1>8

LEMMA BehindNextInput ==
  ASSUME Control, Ahead, Behind, NextInput
  PROVE  Behind'
<1>1. /\ active
      /\ UNCHANGED <<reproc, asked, hwi, active, inputJpeg, ongoingJpeg, event, done>>
  BY DEF NextInput, Control, Places
<1>2. CASE inputFWK = <<>>
  <2>1. UNCHANGED <<settings, ongoingPP, hw>>
    BY <1>2 DEF NextInput
  <2> QED BY <1>1, <2>1, BehindKept DEF Behind, Hardware, Jobs, Asking
<1>3. CASE inputFWK # <<>>
  <2>1. reproc /\ settings # <<>> /\ Head(inputFWK) = Head(settings)
    BY <1>3, AheadNextInput DEF Ahead, Live, Given
  <2>2. settings' = Tail(settings) /\ doReprocessOffline(Own(Head(settings)))
    BY <1>3, <2>1 DEF NextInput, Rest, HeadOr0, Own
  <2> QED BY <1>1, <2>1, <2>2, BehindHardware
<1> QED BY <1>2, <1>3

LEMMA BehindNextPair ==
  ASSUME Control, Ahead, Behind, NextPair
  PROVE  Behind'
<1>1. /\ active
      /\ UNCHANGED <<reproc, asked, hwi, active, ongoingJpeg, event, done>>
  BY DEF NextPair, Control, Places
<1>2. CASE ~(inputPP # <<>> /\ inputMeta # <<>>)
  <2>1. UNCHANGED <<settings, ongoingPP, hw, inputJpeg>>
    BY <1>2 DEF NextPair
  <2> QED BY <1>1, <2>1, BehindKept DEF Behind, Hardware, Jobs, Asking
<1>3. CASE inputPP # <<>> /\ inputMeta # <<>>
  <2> DEFINE job == [img |-> Head(inputPP), meta |-> Head(inputMeta), set |-> HeadOr0(settings)]
  <2>1. settings # <<>> /\ Head(inputPP) = Head(settings) /\ Head(inputMeta) = Head(settings)
    BY <1>3, AheadNextPair
  <2>2. settings' = Tail(settings)
    BY <1>3, <2>1 DEF NextPair, Rest
  <2>3. job = Own(Head(settings))
    BY <2>1 DEF HeadOr0, Own
  <2>4. /\ reproc => doReprocessOffline(job) /\ UNCHANGED inputJpeg
        /\ ~reproc => processPPData(job.img, Append(ongoingPP, job)) /\ UNCHANGED <<ongoingPP, hw>>
    BY <1>3 DEF NextPair
  <2> HIDE DEF job
  <2>5. CASE reproc
    BY <1>1, <2>1, <2>2, <2>3, <2>4, <2>5, BehindHardware
  <2>6. CASE ~reproc
    <3>1. Jobs /\ settings \in Seq(Frames) /\ Increasing(settings) /\ ongoingPP = <<>>
      BY <2>6 DEF Behind, Ahead, Waiting, Hardware
    <3>2. PICK w \in [Frames -> Stages] : Placed(w)
      BY DEF Behind
    <3>3. PICK f \in Frames : f = Head(settings)
      BY <2>1, <3>1, TailAt
    <3>4. job = Own(f) /\ job.set = f /\ f # 0 /\ job.img = f
      BY <2>3, <3>3, JobIs
    <3>5. Append(ongoingPP, job) # <<>> /\ Head(Append(ongoingPP, job)) = Own(f)
      <4>1. Append(<<>>, job) \in Seq(Job) /\ Len(Append(<<>>, job)) = 1
        BY <3>4, JobIs, EmptyAt, AppendAt
      <4> QED BY <3>1, <3>4, <4>1, OneOf, EmptyAt
    <3>6. inputJpeg' = Append(inputJpeg, Own(f))
      <4>1. job_of(f, Append(ongoingPP, job)) = Own(f)
        BY <3>5 DEF job_of, Own
      <4>2. Head(Append(ongoingPP, job)).set # 0
        BY <3>4, <3>5
      <4>3. inputJpeg' = enqueue(inputJpeg, job_of(f, Append(ongoingPP, job)))
        BY <2>4, <2>6, <3>4, <3>5, <4>2 DEF processPPData
      <4> QED BY <1>1, <4>1, <4>3 DEF enqueue
    <3> DEFINE v == Moved(w, f, "jpeg")
    <3>7. w[f] = "settings" /\ Waits(settings', v)
      BY <2>1, <2>2, <3>1, <3>2, <3>3, WaitsTaken, StagesAre DEF Placed
    <3>8. /\ v \in [Frames -> Stages] /\ In(ongoingPP, v, "hardware") /\ In(ongoingJpeg, v, "encoder")
          /\ Told(event, v) /\ In(done, v, "done") /\ Unasked(v)
      BY <3>1, <3>2, <3>7, Elsewhere, StagesAre
    <3>9. inputJpeg' \in Seq(Job) /\ In(inputJpeg', v, "jpeg")
      BY <3>1, <3>2, <3>6, <3>7, InAdded, StagesAre DEF Placed, Jobs
    <3> HIDE DEF v
    <3>10. Placed(v)'
      BY <1>1, <2>4, <2>6, <3>7, <3>8, <3>9 DEF Placed, Unasked, Asking, Newest
    <3>11. Hardware' /\ Jobs'
      BY <1>1, <2>4, <2>6, <3>1, <3>9 DEF Behind, Hardware, Jobs
    <3> QED BY <3>8, <3>10, <3>11 DEF Behind
  <2> QED BY <2>5, <2>6
<1> QED BY <1>2, <1>3

\* Every step keeps every request in one place.
LEMMA BehindStep ==
  ASSUME Ind, Control, Ahead, Behind, Next, ~muddled'
  PROVE  Behind'
<1>1. CASE \E f \in Frames, kind \in {"live", "input"} : Request(f, kind)
  BY <1>1, BehindRequest
<1>2. CASE QueueLive \/ QueueInput
  BY <1>2, BehindQueues
<1>3. CASE Reprocessed
  BY <1>3, BehindReprocessed
<1>4. CASE EncoderDone \/ \E job \in event : Answer(job)
  BY <1>4, BehindEncoderDone, BehindAnswer
<1>5. CASE NextJpeg \/ NextInput \/ NextPair
  BY <1>5, BehindNextJpeg, BehindNextInput, BehindNextPair
<1>6. CASE ImageArrives \/ MetadataArrives \/ NextInactive
  <2>1. UNCHANGED <<reproc, asked, hwi, active, settings, ongoingPP, inputJpeg, ongoingJpeg, event, done, hw>>
    BY <1>6 DEF ImageArrives, MetadataArrives, NextInactive, queues
  <2> QED BY <2>1, BehindKept DEF Behind, Hardware, Jobs, Asking
<1>7. CASE Stop \/ StreamsStop
  <2>1. /\ UNCHANGED <<reproc, asked, active, settings, ongoingPP, inputJpeg, ongoingJpeg, event, done>>
        /\ hwi' \in {"stop", "idle"}
    BY <1>7 DEF Stop, StreamsStop, queues
  <2>2. Hardware' /\ hw' \in Seq(Frames)
    <3>1. CASE Stop
      BY <2>1, <3>1 DEF Stop, Behind, Hardware, Jobs
    <3>2. CASE StreamsStop
      <4>1. hwi = "stopped" /\ hw' = <<>>
        BY <3>2 DEF StreamsStop
      <4>2. ~active
        BY <4>1 DEF Control, Places
      <4>3. hw' \in Seq(Frames)
        BY <4>1, EmptyAt
      <4> QED BY <2>1, <4>1, <4>2, <4>3 DEF Behind, Hardware
    <3> QED BY <1>7, <3>1, <3>2
  <2> QED BY <2>1, <2>2, BehindKept DEF Asking
<1>8. CASE StartDone
  <2>1. /\ active' /\ hwi' = "queue" /\ cmds # <<>> /\ Head(cmds) = "start"
        /\ UNCHANGED <<reproc, asked, settings, ongoingPP, inputJpeg, ongoingJpeg, event, done, hw>>
    BY <1>8 DEF StartDone, queues
  <2>2. hwi = "start"
    BY <2>1, CallTaken DEF Control
  <2>3. ongoingPP = <<>> /\ hw = <<>>
    BY <2>2 DEF Behind, Hardware, Control, Places
  <2>4. Hardware' /\ hw' \in Seq(Frames)
    BY <2>1, <2>3, MatchedNone DEF Behind, Hardware, Jobs
  <2> QED BY <2>1, <2>2, <2>4, BehindKept DEF Asking
<1>9. CASE StopDone
  <2>1. /\ active' = FALSE /\ hwi' = "stopped" /\ ongoingPP' = <<>> /\ inputJpeg' = <<>> /\ ongoingJpeg' = <<>>
        /\ UNCHANGED <<reproc, asked, settings, event, done, hw>>
    BY <1>9 DEF StopDone, FlushQueues
  <2>2. PICK w \in [Frames -> Stages] : Placed(w)
    BY DEF Behind
  <2>3. Placed(w)'
    BY <2>1, <2>2, InNone DEF Placed, Unasked, Asking
  <2>4. Jobs' /\ Hardware'
    BY <2>1, InNone DEF Behind, Jobs, Hardware
  <2> QED BY <2>3, <2>4 DEF Behind
<1> QED BY <1>1, <1>2, <1>3, <1>4, <1>5, <1>6, <1>7, <1>8, <1>9 DEF Next

-----------------------------------------------------------------------------
(* The whole invariant.                                                    *)

\* One job is with the encoder, whatever else goes wrong.
OneJob == Len(ongoingJpeg) <= 1

LEMMA OneJobStep ==
  ASSUME Ind, Ind', OneJob, Next
  PROVE  OneJob'
<1>1. IsQueue(ongoingJpeg) /\ Len(ongoingJpeg) \in Nat
  BY QueueLength DEF Ind, Types
<1>2. CASE NextJpeg
  <2>1. ongoingJpeg' = ongoingJpeg \/ (ongoingJpeg = <<>> /\ ongoingJpeg' = Append(ongoingJpeg, Head(inputJpeg)))
    BY <1>2 DEF NextJpeg, encode_one
  <2>2. Len(Append(<<>>, Head(inputJpeg))) = 1
    BY EmptyQueue, Appended
  <2> QED BY <2>1, <2>2 DEF OneJob
<1>3. CASE EncoderDone
  <2>1. Len(ongoingJpeg') = Len(ongoingJpeg) - 1
    BY <1>1, <1>3, Taken DEF EncoderDone
  <2> QED BY <1>1, <2>1 DEF OneJob
<1>4. CASE StopDone
  BY <1>4, EmptyQueue DEF StopDone, OneJob
<1>5. CASE ~(NextJpeg \/ EncoderDone \/ StopDone)
  <2>1. ongoingJpeg' = ongoingJpeg
    BY <1>5 DEF Next, Request, Stop, QueueLive, QueueInput, StreamsStop, ImageArrives, MetadataArrives,
       Reprocessed, Answer, StartDone, NextInactive, NextInput, NextPair, queues
  <2> QED BY <2>1 DEF OneJob
<1> QED BY <1>2, <1>3, <1>4, <1>5

\* What was muddled stays so.
LEMMA MuddledStays ==
  ASSUME Next, ~muddled'
  PROVE  ~muddled
BY DEF Next, Request, Stop, QueueLive, QueueInput, ToReprocess, ToEncoder, StreamsStop, ImageArrives, MetadataArrives, Reprocessed,
   EncoderDone, Answer, StartDone, StopDone, NextInactive, NextJpeg, NextInput, NextPair

InOrder == ~muddled => Ahead /\ Behind

Whole == Ind /\ Control /\ OneJob /\ InOrder

LEMMA WholeBegins ==
  ASSUME Init
  PROVE  Whole
<1>1. Ind
  BY Begins
<1>2. Control
  <2>1. \A i \in DOMAIN cmds : FALSE
    BY EmptyAt DEF Init
  <2>2. asked \in [Frames -> {"no", "live", "input"}] /\ \A f \in Frames : asked[f] = "no"
    BY DEF Init
  <2>3. Calls /\ Asked
    BY <2>1, <2>2 DEF Calls, Asked, Asking, Init
  <2>4. Places
    BY DEF Init, Places
  <2> QED BY <2>3, <2>4 DEF Control
<1>3. OneJob
  BY EmptyQueue DEF Init, OneJob
<1>4. Ahead
  <2>1. settings = <<>> /\ settings \in Seq(Frames) /\ \A i \in DOMAIN settings : FALSE
    BY EmptyAt DEF Init
  <2>2. Waiting
    BY <2>1 DEF Waiting, Increasing
  <2>3. Live
    BY <2>1, PartlyNone DEF Init, Live
  <2> QED BY <2>2, <2>3 DEF Ahead
<1>5. Behind
  <2>1. Jobs
    BY InNone, EmptyAt DEF Init, Jobs
  <2>2. Hardware
    BY DEF Init, Hardware
  <2> DEFINE w == [f \in Frames |-> "none"]
  <2>3. w \in [Frames -> Stages] /\ Unasked(w)
    BY DEF Stages, Unasked
  <2>4. Placed(w)
    BY <2>3, InNone, EmptyAt DEF Init, Placed, Waits, Told
  <2> QED BY <2>1, <2>2, <2>3, <2>4 DEF Behind
<1> QED BY <1>1, <1>2, <1>3, <1>4, <1>5 DEF Whole, InOrder

LEMMA WholeKept ==
  ASSUME Whole, [Next]_vars
  PROVE  Whole'
<1>1. Ind'
  BY Keeps DEF Whole
<1>2. CASE Next
  <2>1. Control'
    BY <1>1, <1>2, ControlStep DEF Whole
  <2>2. OneJob'
    BY <1>1, <1>2, OneJobStep DEF Whole
  <2>3. ASSUME ~muddled' PROVE Ahead' /\ Behind'
    <3>1. Ahead /\ Behind
      BY <1>2, <2>3, MuddledStays DEF Whole, InOrder
    <3> QED BY <1>2, <2>3, <3>1, AheadStep, BehindStep DEF Whole
  <2> QED BY <1>1, <2>1, <2>2, <2>3 DEF Whole, InOrder
<1>3. CASE UNCHANGED vars
  <2>1. UNCHANGED <<reproc, asked, hwi, started, cmds, active, dp, settings, inputPP, inputMeta, inputFWK,
                    ongoingPP, inputJpeg, ongoingJpeg, image, metadata, hw, event, done, muddled>>
    BY <1>3 DEF vars, queues
  <2>2. Control' /\ OneJob'
    BY <2>1 DEF Whole, Control, Calls, Places, Asked, Asking, Newest, OneJob
  <2>3. Ahead => Ahead'
    BY <2>1, AheadKept DEF Asking
  <2>4. Behind => Behind'
    <3>1. ASSUME Behind PROVE Hardware' /\ hw' \in Seq(Frames)
      BY <2>1, <3>1 DEF Behind, Hardware, Jobs
    <3> QED BY <2>1, <3>1, BehindKept DEF Asking
  <2> QED BY <1>1, <2>1, <2>2, <2>3, <2>4 DEF Whole, InOrder
<1> QED BY <1>2, <1>3

LEMMA WholeIsOwn ==
  ASSUME Whole
  PROVE  OwnPicture
<1>1. ASSUME ~muddled
      PROVE  /\ \A i \in DOMAIN done : done[i].img = done[i].set /\ done[i].meta = done[i].set
             /\ \A i, j \in DOMAIN done : done[i].set = done[j].set => i = j
  <2>1. Behind
    BY <1>1 DEF Whole, InOrder
  <2>2. PICK w \in [Frames -> Stages] : Placed(w)
    BY <2>1 DEF Behind
  <2>3. \A i \in DOMAIN done : done[i] \in Job
    BY <2>1, LenProperties, ElementOfSeq DEF Behind, Jobs
  <2>4. \A i, j \in DOMAIN done : done[i].set = done[j].set => i = j
    BY <2>2 DEF Placed, In
  <2> QED BY <2>3, <2>4, JobIs
<1> QED BY <1>1 DEF Whole, OneJob, OwnPicture

\* A picture has the settings, the metadata and the answer of its own request,
\* and a request one answer, unless a stop leaves settings behind or live and
\* input requests wait together; and the encoder has one job at a time.
THEOREM OwnPictureAlways == Spec => []OwnPicture
<1>1. Init => Whole
  BY WholeBegins
<1>2. Whole /\ [Next]_vars => Whole'
  BY WholeKept
<1>3. Whole => OwnPicture
  BY WholeIsOwn
<1> QED BY <1>1, <1>2, <1>3, PTL DEF Spec
=============================================================================
