-------------------------- MODULE ConnectionProofs --------------------------
(***************************************************************************)
(* Proofs about the request pipeline, for any connections, requests, keys  *)
(* and limits.  The invariant has one part for each thing that tasks,      *)
(* executions and connections hand to each other: the charges, the leases  *)
(* of the replay cache, the two queues, and the end of the connection.     *)
(***************************************************************************)
EXTENDS Connection, FiniteSetTheorems, TLAPS

\* The states of a task whose record is charged to it, and whose reply may be
RecordHeld == {"receiving", "sending", "queued", "charging", "waiting", "admitting"}
ReplyHeld == Spawned \ {"charging"}
InWriter == {"queued", "writing"}

RequestTyped ==
    /\ task \in [Reqs -> TaskStates]
    /\ exec \in [Reqs -> {"none", "running", "over"}]
    /\ reply \in [Reqs -> {"none", "queued", "writing", "written", "lost"}]
    /\ request_buffers \subseteq Reqs /\ reply_buffers \subseteq Reqs /\ requests \subseteq Reqs

\* An execution runs for its task or after it, a reply is sent by a task that
\* is done, and each charge is for one of the bytes it stands for.
ChargeOf(r) ==
    /\ exec[r] = "running" => task[r] \in {"running", "aborted"}
    /\ reply[r] \in InWriter => task[r] \in {"finished", "joined"}
    /\ r \in request_buffers <=> task[r] \in RecordHeld \/ exec[r] = "running"
    /\ r \in reply_buffers <=> task[r] \in ReplyHeld \/ exec[r] = "running" \/ reply[r] \in InWriter
    /\ r \in requests <=> exec[r] = "running"

ChargeInv == RequestTyped /\ \A r \in Reqs : ChargeOf(r)

\* The queues hold requests of their connection, a reply queue each once, and
\* what is queued is in its queue.
In(r, s) == \E i \in 1..Len(s) : s[i] = r
QueueOf(c) ==
    /\ request_queue[c] \in Seq(Reqs) /\ Len(request_queue[c]) <= MaxRequestsPerConnection
    /\ reply_queue[c] \in Seq(Reqs) /\ Len(reply_queue[c]) <= MaxRequestsPerConnection
    /\ \A i \in 1..Len(request_queue[c]) : ConnOf[request_queue[c][i]] = c
    /\ \A i \in 1..Len(reply_queue[c]) :
          ConnOf[reply_queue[c][i]] = c /\ reply[reply_queue[c][i]] = "queued"
    /\ \A i, j \in 1..Len(reply_queue[c]) : reply_queue[c][i] = reply_queue[c][j] => i = j
    /\ \A r \in Of(c) : task[r] = "queued" => In(r, request_queue[c])
    /\ \A r \in Of(c) : reply[r] = "queued" => In(r, reply_queue[c])
QueueInv ==
    /\ request_queue \in [Conns -> Seq(Reqs)] /\ reply_queue \in [Conns -> Seq(Reqs)]
    /\ \A c \in Conns : QueueOf(c)

BudgetInv ==
    /\ Cardinality(request_buffers) <= RequestRecords
    /\ Cardinality(reply_buffers) <= ReplyRecords
    /\ Cardinality(requests) <= MaxInflight

-----------------------------------------------------------------------------
(* Charges.                                                                 *)

\* A task that moves, with what else changes about its request and no other
Alters(r) ==
    /\ \E t \in TaskStates : task' = [task EXCEPT ![r] = t]
    /\ \E e \in {"none", "running", "over"} : exec' = [exec EXCEPT ![r] = e]
    /\ \E a \in {"none", "queued", "writing", "written", "lost"} : reply' = [reply EXCEPT ![r] = a]
    /\ request_buffers' \in {request_buffers \cup {r}, request_buffers \ {r}}
    /\ reply_buffers' \in {reply_buffers \cup {r}, reply_buffers \ {r}}
    /\ requests' \in {requests \cup {r}, requests \ {r}}

\* If one request changes, its own charges must be right.
LEMMA AltersCharge ==
    ASSUME ChargeInv, NEW r \in Reqs, Alters(r), ChargeOf(r)'
    PROVE  ChargeInv'
<1>1. RequestTyped'
  BY DEF Alters, ChargeInv, RequestTyped
<1>2. ASSUME NEW q \in Reqs, q # r PROVE ChargeOf(q)'
  <2>1. /\ task'[q] = task[q] /\ exec'[q] = exec[q] /\ reply'[q] = reply[q]
        /\ q \in request_buffers' <=> q \in request_buffers
        /\ q \in reply_buffers' <=> q \in reply_buffers
        /\ q \in requests' <=> q \in requests
    BY <1>2, Zenon DEF Alters, ChargeInv, RequestTyped
  <2> QED BY <2>1, Zenon DEF ChargeInv, ChargeOf
<1> QED BY <1>1, <1>2, Zenon DEF ChargeInv

\* The reader and the processor move a request on.
LEMMA ReaderAlters ==
    ASSUME RequestTyped, NEW r \in Reqs, ReadHeader(r) \/ ReadBody(r) \/ Enqueue(r) \/ JoinFinished(r)
    PROVE  Alters(r)
BY DEF ReadHeader, ReadBody, Enqueue, JoinFinished, Moves, Alters, conns, charges, RequestTyped, TaskStates,
       Arriving, Spawned, Ended

\* The charges of a request that the reader or the processor moves on
LEMMA ReaderCharge ==
    ASSUME ChargeInv, NEW r \in Reqs, ReadHeader(r) \/ ReadBody(r) \/ Enqueue(r) \/ JoinFinished(r)
    PROVE  ChargeInv'
<1>1. Alters(r)
  BY ReaderAlters, Zenon DEF ChargeInv
<1>2. ChargeOf(r)'
  BY DEF ReadHeader, ReadBody, Enqueue, JoinFinished, Moves, conns, charges, ChargeInv, RequestTyped,
         ChargeOf, RecordHeld, ReplyHeld, Spawned, InWriter
<1> QED BY <1>1, <1>2, AltersCharge, Zenon

\* A queue's head is a request of the connection, and a queued reply is one.
LEMMA Heads ==
    ASSUME QueueInv, NEW c \in Conns
    PROVE  /\ request_queue[c] # << >> =>
                 Head(request_queue[c]) \in Reqs /\ ConnOf[Head(request_queue[c])] = c
           /\ reply_queue[c] # << >> =>
                 /\ Head(reply_queue[c]) \in Reqs /\ ConnOf[Head(reply_queue[c])] = c
                 /\ reply[Head(reply_queue[c])] = "queued"
BY DEF QueueInv, QueueOf

\* The processor takes the head of the request queue.
LEMMA SpawnAlters ==
    ASSUME RequestTyped, QueueInv, NEW c \in Conns, SpawnRequest(c)
    PROVE  \E r \in Reqs :
              /\ r = Head(request_queue[c]) /\ ConnOf[r] = c /\ Alters(r)
              /\ task[r] = "queued" /\ task'[r] = "charging"
              /\ UNCHANGED <<exec, reply, request_buffers, reply_buffers, requests>>
<1>1. PICK r \in Reqs : r = Head(request_queue[c]) /\ ConnOf[r] = c
  BY Heads, Zenon DEF SpawnRequest
<1>2. /\ task[r] = "queued" /\ task' = [task EXCEPT ![r] = "charging"]
      /\ UNCHANGED <<exec, reply, request_buffers, reply_buffers, requests>>
  BY <1>1, Zenon DEF SpawnRequest, Moves, charges
<1>3. Alters(r)
  BY <1>2, ZenonT(60) DEF Alters, RequestTyped, TaskStates, Spawned
<1> QED BY <1>1, <1>2, <1>3, Zenon DEF RequestTyped

\* The writer takes the head of the reply queue.
LEMMA TakeAlters ==
    ASSUME RequestTyped, QueueInv, NEW c \in Conns, TakeReply(c)
    PROVE  \E r \in Reqs :
              /\ r = Head(reply_queue[c]) /\ ConnOf[r] = c /\ Alters(r)
              /\ reply[r] = "queued" /\ reply'[r] = "writing"
              /\ UNCHANGED <<task, exec, request_buffers, reply_buffers, requests>>
<1>1. PICK r \in Reqs : r = Head(reply_queue[c]) /\ ConnOf[r] = c /\ reply[r] = "queued"
  BY Heads, Zenon DEF TakeReply
<1>2. /\ reply' = [reply EXCEPT ![r] = "writing"]
      /\ UNCHANGED <<task, exec, request_buffers, reply_buffers, requests>>
  BY <1>1, Zenon DEF TakeReply, charges
<1>3. Alters(r)
  BY <1>2, Zenon DEF Alters, RequestTyped
<1> QED BY <1>1, <1>2, <1>3, Zenon DEF RequestTyped

\* The charges of the heads of the queues, which move on
LEMMA HeadCharge ==
    ASSUME ChargeInv, QueueInv, NEW c \in Conns, SpawnRequest(c) \/ TakeReply(c)
    PROVE  ChargeInv'
<1>1. CASE SpawnRequest(c)
  <2>1. PICK r \in Reqs : /\ Alters(r) /\ task[r] = "queued" /\ task'[r] = "charging"
                          /\ UNCHANGED <<exec, reply, request_buffers, reply_buffers, requests>>
    BY <1>1, SpawnAlters, Zenon DEF ChargeInv
  <2>2. ChargeOf(r)'
    BY <2>1, Zenon DEF ChargeInv, ChargeOf, RecordHeld, ReplyHeld, Spawned
  <2> QED BY <2>1, <2>2, AltersCharge, Zenon
<1>2. CASE TakeReply(c)
  <2>1. PICK r \in Reqs : /\ Alters(r) /\ reply[r] = "queued" /\ reply'[r] = "writing"
                          /\ UNCHANGED <<task, exec, request_buffers, reply_buffers, requests>>
    BY <1>2, TakeAlters, Zenon DEF ChargeInv
  <2>2. ChargeOf(r)'
    BY <2>1, Zenon DEF ChargeInv, ChargeOf, InWriter
  <2> QED BY <2>1, <2>2, AltersCharge, Zenon
<1> QED BY <1>1, <1>2, Zenon

\* What the replay cache does aside, a task takes its reply budget, waits, is
\* admitted and answers; its reply is queued or lost.
TaskMove(r) ==
    \/ ChargeTimesOut(r) \/ AnsweredAtOnce(r) \/ Admit(r) \/ SendReply(r) \/ SendReplyFails(r)
    \/ \E to \in {"waiting", "admitting"} : Charged(r, to) /\ UNCHANGED request_buffers
    \/ Answers(r, "waiting") \/ Answers(r, "admitting")
    \/ Answers(r, "running") /\ exec[r] = "over"

\* A request task moves on.
LEMMA TaskAlters ==
    ASSUME RequestTyped, NEW r \in Reqs, TaskMove(r)
    PROVE  Alters(r)
BY DEF TaskMove, ChargeTimesOut, AnsweredAtOnce, Admit, SendReply, SendReplyFails, Charged, Answers,
       Moves, Alters, conns, charges, RequestTyped, TaskStates, Arriving, Spawned, Ended

\* The charges of a request whose task moves on
LEMMA TaskCharge ==
    ASSUME ChargeInv, NEW r \in Reqs, TaskMove(r)
    PROVE  ChargeInv'
<1>1. Alters(r)
  BY TaskAlters, Zenon DEF ChargeInv
<1>2. ChargeOf(r)'
  BY DEF TaskMove, ChargeTimesOut, AnsweredAtOnce, Admit, SendReply, SendReplyFails, Charged, Answers,
         Moves, charges, ChargeInv, RequestTyped, ChargeOf, RecordHeld, ReplyHeld, Spawned, InWriter
<1> QED BY <1>1, <1>2, AltersCharge, Zenon

\* An execution ends, a task is aborted, or a reply is written.
LEMMA OverAlters ==
    ASSUME RequestTyped, NEW r \in Reqs, ExecutionEnds(r) \/ AbortTask(r) \/ WriteReply(r)
    PROVE  Alters(r)
BY DEF ExecutionEnds, AbortTask, AfterAbort, WriteReply, Alters, RequestTyped, TaskStates

\* The charges of a request at the end of its execution, its task or its reply
LEMMA OverCharge ==
    ASSUME ChargeInv, NEW r \in Reqs, ExecutionEnds(r) \/ AbortTask(r) \/ WriteReply(r)
    PROVE  ChargeInv'
<1>1. Alters(r)
  BY OverAlters, Zenon DEF ChargeInv
<1>2. ChargeOf(r)'
  BY Zenon DEF ExecutionEnds, AbortTask, AfterAbort, WriteReply, ChargeInv, RequestTyped, ChargeOf,
         RecordHeld, ReplyHeld, Spawned, InWriter
<1> QED BY <1>1, <1>2, AltersCharge, Zenon

\* A reader that returns drops the record that it has in hand, and a connection
\* that is torn down drops what its futures own.
LEMMA DropCharge ==
    ASSUME ChargeInv, NEW c \in Conns, ReaderReturns(c) \/ Teardown(c)
    PROVE  ChargeInv'
<1>1. CASE ReaderReturns(c)
  <2>1. /\ \A r \in Reqs : task'[r] = IF r \in InReader(c) THEN "dropped" ELSE task[r]
        /\ DOMAIN task' = Reqs /\ request_buffers' = request_buffers \ InReader(c)
        /\ UNCHANGED <<exec, reply, reply_buffers, requests>>
        /\ \A r \in InReader(c) : r \in Reqs /\ task[r] \in Arriving
    BY <1>1, Zenon DEF ReaderReturns, InReader, Of
  <2>2. RequestTyped'
    BY <1>1, Zenon DEF ReaderReturns, ChargeInv, RequestTyped, TaskStates
  <2>3. ASSUME NEW r \in Reqs PROVE ChargeOf(r)'
    BY <2>1, Zenon DEF ChargeInv, RequestTyped, ChargeOf, RecordHeld, ReplyHeld, Spawned, InWriter, Arriving
  <2> QED BY <2>2, <2>3, Zenon DEF ChargeInv
<1>2. CASE Teardown(c)
  <2> DEFINE held == {r \in Of(c) : task[r] \in Arriving \cup {"queued"}}
             unsent == {r \in Of(c) : reply[r] \in {"queued", "writing"}}
  <2>1. /\ task' = [r \in Reqs |-> IF r \in held THEN "dropped" ELSE task[r]]
        /\ reply' = [r \in Reqs |-> IF r \in unsent THEN "lost" ELSE reply[r]]
        /\ request_buffers' = request_buffers \ held /\ reply_buffers' = reply_buffers \ unsent
        /\ UNCHANGED <<exec, requests>>
    BY <1>2, Zenon DEF Teardown
  <2>2. /\ \A r \in held : r \in Reqs /\ task[r] \in Arriving \cup {"queued"}
        /\ \A r \in unsent : r \in Reqs /\ reply[r] \in InWriter
    BY Zenon DEF Of, InWriter
  <2> HIDE DEF held, unsent
  <2>3. RequestTyped'
    BY <2>1, Zenon DEF ChargeInv, RequestTyped, TaskStates
  <2>4. ASSUME NEW r \in Reqs PROVE ChargeOf(r)'
    BY <2>1, <2>2, Zenon DEF ChargeInv, RequestTyped, ChargeOf, RecordHeld, ReplyHeld, Spawned, InWriter, Arriving
  <2> QED BY <2>3, <2>4, Zenon DEF ChargeInv
<1> QED BY <1>1, <1>2, Zenon

-----------------------------------------------------------------------------
(* Budgets.                                                                 *)

\* Permits are counted right, since there are finitely many requests.
LEMMA PermitCount ==
    ASSUME NEW S \in SUBSET Reqs, NEW k \in Nat, Cardinality(S) <= k
    PROVE  /\ \A T \in SUBSET S : Cardinality(T) <= k
           /\ Cardinality(S) < k => \A r : Cardinality(S \cup {r}) <= k
<1>1. IsFiniteSet(S) /\ Cardinality(S) \in Nat
  BY FS_Subset, FS_CardinalityType, ConnectionConstants, Zenon
<1>2. ASSUME NEW T \in SUBSET S PROVE Cardinality(T) <= k
  <2>1. IsFiniteSet(T) /\ Cardinality(T) <= Cardinality(S)
    BY <1>1, FS_Subset, Zenon
  <2>2. Cardinality(T) \in Nat
    BY <2>1, FS_CardinalityType, Zenon
  <2> QED BY <1>1, <2>1, <2>2
<1>3. ASSUME Cardinality(S) < k, NEW r PROVE Cardinality(S \cup {r}) <= k
  <2>1. Cardinality(S \cup {r}) = IF r \in S THEN Cardinality(S) ELSE Cardinality(S) + 1
    BY <1>1, FS_AddElement, Zenon
  <2> QED BY <1>1, <1>3, <2>1
<1> QED BY <1>2, <1>3, Zenon

\* A semaphore's holders only grow where there is a permit left.
Within(held, new, k) ==
    \/ new \subseteq held
    \/ Cardinality(held) < k /\ \E r \in Reqs : new = held \cup {r}

\* No step takes a permit that is not there.
LEMMA BudgetStep ==
    ASSUME RequestTyped, BudgetInv,
           Within(request_buffers, request_buffers', RequestRecords),
           Within(reply_buffers, reply_buffers', ReplyRecords),
           Within(requests, requests', MaxInflight)
    PROVE  BudgetInv'
<1>1. ASSUME NEW S \in SUBSET Reqs, NEW T, NEW k \in Nat, Cardinality(S) <= k, Within(S, T, k)
      PROVE  Cardinality(T) <= k
  BY <1>1, PermitCount, Zenon DEF Within
<1>2. RequestRecords \in Nat /\ ReplyRecords \in Nat /\ MaxInflight \in Nat
  BY ConnectionConstants, Zenon
<1> QED BY <1>1, <1>2, Zenon DEF RequestTyped, BudgetInv

\* Each action takes at most one permit, and only one that is there.
LEMMA BudgetNext ==
    ASSUME RequestTyped, BudgetInv, Next
    PROVE  BudgetInv'
<1> DEFINE Frugal == /\ Within(request_buffers, request_buffers', RequestRecords)
                     /\ Within(reply_buffers, reply_buffers', ReplyRecords)
                     /\ Within(requests, requests', MaxInflight)
<1>1. ASSUME NEW c \in Conns, ReaderStep(c) \/ ProcessorStep(c) \/ WriterStep(c) \/ AbortConnection(c)
      PROVE  Frugal
  <2>1. CASE Teardown(c)
    BY <2>1, Zenon DEF Teardown, Within
  <2>2. ASSUME NEW r \in Of(c), ReadHeader(r) \/ ReadBody(r) \/ Enqueue(r) PROVE Frugal
    BY <2>2, Zenon DEF ReadHeader, ReadBody, Enqueue, charges, Within, Of
  <2>3. CASE ReaderReturns(c)
    BY <2>3, Zenon DEF ReaderReturns, Within
  <2>4. CASE NoticeShutdown(c) \/ SpawnRequest(c) \/ ProcessorReturns(c) \/ TakeReply(c) \/ WriterReturns(c)
             \/ Close(c)
    BY <2>4, Zenon DEF NoticeShutdown, SpawnRequest, ProcessorReturns, TakeReply, WriterReturns, Close, charges, Within
  <2>5. ASSUME NEW r \in Of(c), JoinFinished(r) \/ WriteReply(r) PROVE Frugal
    BY <2>5, Zenon DEF JoinFinished, WriteReply, charges, Within
  <2>6. ASSUME NEW r \in Of(c), JoinErred(r) \/ WriteFails(r) PROVE Teardown(c)
    BY <2>6, Zenon DEF JoinErred, WriteFails, Of
  <2> HIDE DEF Frugal
  <2> QED BY <1>1, <2>1, <2>2, <2>3, <2>4, <2>5, <2>6, Zenon
          DEF ReaderStep, ProcessorStep, WriterStep, AbortConnection, ReaderFails
<1>2. ASSUME NEW r \in Reqs, TaskStep(r) \/ ExecutionStep(r)
      PROVE  Frugal
  <2>1. CASE AbortTask(r) \/ ExecutionEnds(r)
    BY <2>1, Zenon DEF AbortTask, AfterAbort, ExecutionEnds, Within
  <2>2. CASE ChargeTimesOut(r) \/ Admit(r) \/ SendReply(r) \/ SendReplyFails(r)
    BY <2>2, Zenon DEF ChargeTimesOut, Admit, SendReply, SendReplyFails, charges, Within
  <2>3. CASE AnsweredAtOnce(r) \/ BeginWait(r) \/ BeginExecute(r)
    BY <2>3, Zenon DEF AnsweredAtOnce, BeginWait, BeginExecute, Charged, Within
  <2>4. CASE Answers(r, "waiting") \/ Answers(r, "admitting") \/ Answers(r, "running")
    BY <2>4, Zenon DEF Answers, Within
  <2> HIDE DEF Frugal
  <2> QED BY <1>2, <2>1, <2>2, <2>3, <2>4, Zenon
          DEF TaskStep, ExecutionStep, Reject, BeginReplay, BeginRefused, WaitEnds, WaitTimesOut, AdmitFails,
              ReceiveReply, ExecutionCompletes, ExecutionFails
<1>3. ASSUME Shutdown \/ ServerReturns PROVE Frugal
  BY <1>3, Zenon DEF Shutdown, ServerReturns, charges, Within
<1>4. Frugal
  <2> HIDE DEF Frugal
  <2> QED BY <1>1, <1>2, <1>3, Zenon DEF Next
<1> QED BY <1>4, BudgetStep, Zenon

-----------------------------------------------------------------------------
(* Queues.                                                                  *)

\* What an Append and a Tail leave in a queue
LEMMA QueueElements ==
    ASSUME NEW s \in Seq(Reqs), NEW r \in Reqs
    PROVE  /\ Append(s, r) \in Seq(Reqs) /\ Len(Append(s, r)) = Len(s) + 1
           /\ \A i \in 1..Len(s) : Append(s, r)[i] = s[i]
           /\ Append(s, r)[Len(s) + 1] = r
           /\ s # << >> => /\ Tail(s) \in Seq(Reqs) /\ Len(Tail(s)) = Len(s) - 1
                           /\ \A i \in 1..Len(Tail(s)) : Tail(s)[i] = s[i + 1] /\ i + 1 \in 1..Len(s)
                           /\ Head(s) = s[1] /\ Len(s) >= 1
           /\ Len(s) \in Nat
OBVIOUS

\* A queue with room stays one of requests, within its bound, when a request is
\* added, and holds what it held and that request.
LEMMA QueueAppend ==
    ASSUME NEW s \in Seq(Reqs), NEW r \in Reqs, Len(s) < MaxRequestsPerConnection
    PROVE  /\ Append(s, r) \in Seq(Reqs) /\ Len(Append(s, r)) <= MaxRequestsPerConnection
           /\ \A i \in 1..Len(Append(s, r)) :
                 \/ i \in 1..Len(s) /\ Append(s, r)[i] = s[i]
                 \/ i = Len(s) + 1 /\ Append(s, r)[i] = r
<1>1. PICK n : n = Len(s) /\ n \in Nat
  OBVIOUS
<1>2. /\ Append(s, r) \in Seq(Reqs) /\ Len(Append(s, r)) = n + 1
      /\ \A i \in 1..n : Append(s, r)[i] = s[i]
      /\ Append(s, r)[n + 1] = r
  BY <1>1
<1>3. n + 1 <= MaxRequestsPerConnection
  <2>1. MaxRequestsPerConnection \in Nat /\ n < MaxRequestsPerConnection
    BY <1>1, ConnectionConstants, Zenon
  <2> QED BY <1>1, <2>1
<1>4. \A i \in 1..(n + 1) : i \in 1..n \/ i = n + 1
  BY <1>1
<1> QED BY <1>1, <1>2, <1>3, <1>4, Zenon

\* A queue of c stays one of c, within its bound, when its head is taken.
LEMMA QueueTail ==
    ASSUME NEW s \in Seq(Reqs), s # << >>, NEW c, Len(s) <= MaxRequestsPerConnection,
           \A i \in 1..Len(s) : ConnOf[s[i]] = c
    PROVE  /\ Tail(s) \in Seq(Reqs) /\ Len(Tail(s)) <= MaxRequestsPerConnection
           /\ \A i \in 1..Len(Tail(s)) : ConnOf[Tail(s)[i]] = c
<1>1. /\ Tail(s) \in Seq(Reqs) /\ Len(Tail(s)) = Len(s) - 1 /\ Len(s) \in Nat
      /\ \A i \in 1..Len(Tail(s)) : Tail(s)[i] = s[i + 1] /\ i + 1 \in 1..Len(s)
  OBVIOUS
<1>2. \A i \in 1..Len(Tail(s)) : ConnOf[Tail(s)[i]] = c
  BY <1>1, Zenon
<1>3. Len(Tail(s)) <= MaxRequestsPerConnection
  <2>1. PICK m, n : m = Len(Tail(s)) /\ n = Len(s)
    OBVIOUS
  <2>2. MaxRequestsPerConnection \in Nat
    BY ConnectionConstants, Zenon
  <2> QED BY <1>1, <2>1, <2>2
<1> QED BY <1>1, <1>2, <1>3, Zenon

\* A queued request is still queued after an Append, and after a Tail unless it
\* was the head.
LEMMA QueueMembers ==
    ASSUME NEW s \in Seq(Reqs), NEW r \in Reqs
    PROVE  /\ In(r, Append(s, r))
           /\ \A q \in Reqs : In(q, s) => In(q, Append(s, r))
           /\ s # << >> => \A q \in Reqs : In(q, s) /\ q # Head(s) => In(q, Tail(s))
<1>1. Len(s) \in Nat /\ Len(s) + 1 \in 1..Len(Append(s, r)) /\ 1..Len(s) \subseteq 1..Len(Append(s, r))
  BY QueueElements
<1>2. In(r, Append(s, r)) /\ \A q \in Reqs : In(q, s) => In(q, Append(s, r))
  BY <1>1, QueueElements DEF In
<1>3. ASSUME s # << >>, NEW q \in Reqs, NEW i \in 1..Len(s), s[i] = q, q # Head(s) PROVE In(q, Tail(s))
  <2>1. i # 1
    BY <1>3, QueueElements, Zenon
  <2>2. i - 1 \in 1..Len(Tail(s)) /\ Tail(s)[i - 1] = s[i]
    BY <1>1, <1>3, <2>1, QueueElements
  <2> QED BY <1>3, <2>2, Zenon DEF In
<1> QED BY <1>2, <1>3, Zenon DEF In

\* Queues that do not change are right, if nothing else is queued and no reply
\* in them changes.
LEMMA QueueKept ==
    ASSUME QueueInv, UNCHANGED <<request_queue, reply_queue>>,
           \A r \in Reqs : task'[r] = "queued" => task[r] = "queued",
           \A r \in Reqs : reply'[r] = "queued" <=> reply[r] = "queued"
    PROVE  QueueInv'
<1>1. ASSUME NEW c \in Conns PROVE QueueOf(c)'
  <2>1. QueueOf(c) /\ request_queue'[c] = request_queue[c] /\ reply_queue'[c] = reply_queue[c]
    BY Zenon DEF QueueInv
  <2>2. \A i \in 1..Len(reply_queue[c]) : reply_queue[c][i] \in Reqs
    BY <2>1 DEF QueueOf
  <2> QED BY <2>1, <2>2, Zenon DEF QueueOf, Of
<1> QED BY <1>1, Zenon DEF QueueInv

\* The queues of a connection that no step is about are right.
LEMMA QueueElsewhere ==
    ASSUME QueueInv, NEW c \in Conns,
           request_queue'[c] = request_queue[c], reply_queue'[c] = reply_queue[c],
           \A r \in Of(c) : task'[r] = task[r] /\ reply'[r] = reply[r]
    PROVE  QueueOf(c)'
<1>1. QueueOf(c)
  BY Zenon DEF QueueInv
<1>2. \A i \in 1..Len(reply_queue[c]) : reply_queue[c][i] \in Of(c)
  BY <1>1 DEF QueueOf, Of
<1>3. Of(c)' = Of(c)
  BY Zenon DEF Of
<1> QED BY <1>1, <1>2, <1>3, ZenonT(60) DEF QueueOf

\* The reader queues a record.
LEMMA EnqueueQueue ==
    ASSUME RequestTyped, QueueInv, NEW r \in Reqs, Enqueue(r)
    PROVE  QueueInv'
<1>1. PICK c \in Conns : c = ConnOf[r]
  BY ConnectionConstants, Zenon
<1>2. /\ Len(request_queue[c]) < MaxRequestsPerConnection
      /\ task' = [task EXCEPT ![r] = "queued"]
      /\ request_queue' = [request_queue EXCEPT ![c] = Append(@, r)]
      /\ UNCHANGED <<reply_queue, reply>>
  BY <1>1, Zenon DEF Enqueue, Moves
<1>3. ASSUME NEW d \in Conns, d # c PROVE QueueOf(d)'
  BY <1>1, <1>2, <1>3, QueueElsewhere, Zenon DEF Of, RequestTyped, QueueInv
<1>4. QueueOf(c)'
  <2> DEFINE q == request_queue[c]
  <2>1. /\ QueueOf(c) /\ request_queue'[c] = Append(q, r) /\ reply_queue'[c] = reply_queue[c]
        /\ reply' = reply
    BY <1>2, Zenon DEF QueueInv
  <2>2. q \in Seq(Reqs)
    BY <2>1, Zenon DEF QueueOf
  <2>3. /\ Append(q, r) \in Seq(Reqs) /\ Len(Append(q, r)) <= MaxRequestsPerConnection
        /\ \A i \in 1..Len(Append(q, r)) : ConnOf[Append(q, r)[i]] = c
    <3>1. /\ Append(q, r) \in Seq(Reqs) /\ Len(Append(q, r)) <= MaxRequestsPerConnection
          /\ \A i \in 1..Len(Append(q, r)) :
                \/ i \in 1..Len(q) /\ Append(q, r)[i] = q[i]
                \/ Append(q, r)[i] = r
      BY <1>2, <2>2, QueueAppend, Zenon
    <3>2. \A i \in 1..Len(q) : ConnOf[q[i]] = c
      BY <2>1, Zenon DEF QueueOf
    <3> QED BY <1>1, <3>1, <3>2, Zenon
  <2>4. \A p \in Of(c) : task'[p] = "queued" => In(p, Append(q, r))
    BY <1>2, <2>1, <2>2, QueueMembers, Zenon DEF QueueOf, Of, RequestTyped
  <2> HIDE DEF q
  <2> QED BY <2>1, <2>3, <2>4, Zenon DEF QueueOf, Of
<1> QED BY <1>2, <1>3, <1>4 DEF QueueInv

\* The processor takes the head of the request queue.
LEMMA SpawnQueue ==
    ASSUME RequestTyped, QueueInv, NEW c \in Conns, SpawnRequest(c)
    PROVE  QueueInv'
<1>1. PICK r \in Reqs : r = Head(request_queue[c]) /\ ConnOf[r] = c
  BY Heads, Zenon DEF SpawnRequest
<1>2. /\ request_queue[c] # << >> /\ task' = [task EXCEPT ![r] = "charging"]
      /\ request_queue' = [request_queue EXCEPT ![c] = Tail(@)]
      /\ UNCHANGED <<reply_queue, reply>>
  BY <1>1, Zenon DEF SpawnRequest, Moves
<1>3. ASSUME NEW d \in Conns, d # c PROVE QueueOf(d)'
  BY <1>1, <1>2, <1>3, QueueElsewhere, Zenon DEF Of, RequestTyped, QueueInv
<1>4. QueueOf(c)'
  <2> DEFINE q == request_queue[c]
  <2>1. /\ QueueOf(c) /\ request_queue'[c] = Tail(q) /\ reply_queue'[c] = reply_queue[c]
        /\ reply' = reply
    BY <1>2, Zenon DEF QueueInv
  <2>2. q \in Seq(Reqs)
    BY <2>1, Zenon DEF QueueOf
  <2>3. /\ Tail(q) \in Seq(Reqs) /\ Len(Tail(q)) <= MaxRequestsPerConnection
        /\ \A i \in 1..Len(Tail(q)) : ConnOf[Tail(q)[i]] = c
    BY <1>2, <2>1, <2>2, QueueTail, Zenon DEF QueueOf
  <2>4. \A p \in Of(c) : task'[p] = "queued" => In(p, Tail(q))
    BY <1>1, <1>2, <2>1, <2>2, QueueMembers, Zenon DEF QueueOf, Of, RequestTyped
  <2> HIDE DEF q
  <2> QED BY <2>1, <2>3, <2>4, Zenon DEF QueueOf, Of
<1> QED BY <1>2, <1>3, <1>4 DEF QueueInv

\* A task queues its reply, which no queue has yet.
LEMMA SendQueue ==
    ASSUME ChargeInv, QueueInv, NEW r \in Reqs, SendReply(r)
    PROVE  QueueInv'
<1>1. PICK c \in Conns : c = ConnOf[r]
  BY ConnectionConstants, Zenon
<1>2. /\ Len(reply_queue[c]) < MaxRequestsPerConnection
      /\ task[r] = "replying" /\ task' = [task EXCEPT ![r] = "finished"]
      /\ reply_queue' = [reply_queue EXCEPT ![c] = Append(@, r)]
      /\ reply' = [reply EXCEPT ![r] = "queued"]
      /\ UNCHANGED request_queue
  BY <1>1, Zenon DEF SendReply, Moves
<1>3. ASSUME NEW d \in Conns, d # c PROVE QueueOf(d)'
  BY <1>1, <1>2, <1>3, QueueElsewhere, Zenon DEF Of, ChargeInv, RequestTyped, QueueInv
<1>4. reply[r] # "queued"
  BY <1>2, Zenon DEF ChargeInv, ChargeOf, InWriter
<1>5. QueueOf(c)'
  <2> DEFINE q == reply_queue[c]
  <2>1. QueueOf(c) /\ reply_queue'[c] = Append(q, r) /\ request_queue'[c] = request_queue[c]
    BY <1>2, Zenon DEF QueueInv
  <2>2. q \in Seq(Reqs) /\ \A i \in 1..Len(q) : q[i] \in Reqs /\ q[i] # r
    <3>1. q \in Seq(Reqs) /\ \A i \in 1..Len(q) : reply[q[i]] = "queued"
      BY <2>1, Zenon DEF QueueOf
    <3> HIDE DEF q
    <3>2. \A i \in 1..Len(q) : q[i] \in Reqs
      BY <3>1
    <3> QED BY <1>4, <3>1, <3>2, Zenon
  <2>3. /\ Append(q, r) \in Seq(Reqs) /\ Len(Append(q, r)) <= MaxRequestsPerConnection
        /\ \A i \in 1..Len(Append(q, r)) :
              ConnOf[Append(q, r)[i]] = c /\ reply'[Append(q, r)[i]] = "queued"
    <3>1. /\ Append(q, r) \in Seq(Reqs) /\ Len(Append(q, r)) <= MaxRequestsPerConnection
          /\ \A i \in 1..Len(Append(q, r)) :
                \/ i \in 1..Len(q) /\ Append(q, r)[i] = q[i]
                \/ Append(q, r)[i] = r
      BY <1>2, <2>2, QueueAppend, Zenon
    <3>2. \A i \in 1..Len(q) : ConnOf[q[i]] = c /\ reply[q[i]] = "queued"
      BY <2>1, Zenon DEF QueueOf
    <3>3. \A i \in 1..Len(q) : reply'[q[i]] = "queued"
      BY <1>2, <2>2, <3>2, Zenon DEF ChargeInv, RequestTyped
    <3>4. reply'[r] = "queued" /\ ConnOf[r] = c
      BY <1>1, <1>2, Zenon DEF ChargeInv, RequestTyped
    <3> QED BY <3>1, <3>2, <3>3, <3>4, Zenon
  <2>4. \A i, j \in 1..Len(Append(q, r)) : Append(q, r)[i] = Append(q, r)[j] => i = j
    BY <2>1, <2>2, QueueElements DEF QueueOf
  <2>5. \A p \in Of(c) : reply'[p] = "queued" => In(p, Append(q, r))
    BY <1>2, <2>1, <2>2, QueueMembers, Zenon DEF QueueOf, Of, ChargeInv, RequestTyped
  <2>6. \A p \in Of(c) : task'[p] = "queued" => task[p] = "queued"
    BY <1>2, Zenon DEF Of, ChargeInv, RequestTyped
  <2> HIDE DEF q
  <2> QED BY <2>1, <2>3, <2>4, <2>5, <2>6, Zenon DEF QueueOf, Of
<1> QED BY <1>2, <1>3, <1>5 DEF QueueInv

\* The writer takes the head of the reply queue, which is there once.
LEMMA TakeQueue ==
    ASSUME RequestTyped, QueueInv, NEW c \in Conns, TakeReply(c)
    PROVE  QueueInv'
<1>1. PICK r \in Reqs : r = Head(reply_queue[c]) /\ ConnOf[r] = c
  BY Heads, Zenon DEF TakeReply
<1>2. /\ reply_queue[c] # << >> /\ reply' = [reply EXCEPT ![r] = "writing"]
      /\ reply_queue' = [reply_queue EXCEPT ![c] = Tail(@)]
      /\ UNCHANGED <<request_queue, task>>
  BY <1>1, Zenon DEF TakeReply
<1>3. ASSUME NEW d \in Conns, d # c PROVE QueueOf(d)'
  BY <1>1, <1>2, <1>3, QueueElsewhere, Zenon DEF Of, RequestTyped, QueueInv
<1>4. QueueOf(c)'
  <2> DEFINE q == reply_queue[c]
  <2>1. /\ QueueOf(c) /\ reply_queue'[c] = Tail(q) /\ request_queue'[c] = request_queue[c]
        /\ task' = task
    BY <1>2, Zenon DEF QueueInv
  <2>2. q \in Seq(Reqs)
    BY <2>1, Zenon DEF QueueOf
  <2>3. \A i \in 1..Len(Tail(q)) : Tail(q)[i] \in Reqs /\ Tail(q)[i] # r
    BY <1>1, <1>2, <2>1, <2>2, QueueElements DEF QueueOf
  <2>4. /\ Tail(q) \in Seq(Reqs) /\ Len(Tail(q)) <= MaxRequestsPerConnection
        /\ \A i \in 1..Len(Tail(q)) : ConnOf[Tail(q)[i]] = c /\ reply'[Tail(q)[i]] = "queued"
    <3>1. /\ Tail(q) \in Seq(Reqs) /\ Len(Tail(q)) <= MaxRequestsPerConnection
          /\ \A i \in 1..Len(Tail(q)) : ConnOf[Tail(q)[i]] = c
      BY <1>2, <2>1, <2>2, QueueTail, Zenon DEF QueueOf
    <3>2. \A i \in 1..Len(Tail(q)) : Tail(q)[i] = q[i + 1] /\ i + 1 \in 1..Len(q)
      BY <1>1, <1>2, <2>2, QueueElements, Zenon
    <3>3. \A i \in 1..Len(q) : reply[q[i]] = "queued"
      BY <2>1, Zenon DEF QueueOf
    <3>4. \A i \in 1..Len(Tail(q)) : reply'[Tail(q)[i]] = "queued"
      <4>1. \A i \in 1..Len(Tail(q)) : reply[Tail(q)[i]] = "queued"
        BY <3>2, <3>3, Zenon
      <4>2. \A p \in Reqs : p # r => reply'[p] = reply[p]
        BY <1>2, Zenon DEF RequestTyped
      <4> QED BY <2>3, <4>1, <4>2, Zenon
    <3> QED BY <3>1, <3>4, Zenon
  <2>5. \A i, j \in 1..Len(Tail(q)) : Tail(q)[i] = Tail(q)[j] => i = j
    BY <1>2, <2>1, <2>2, QueueElements DEF QueueOf
  <2>6. \A p \in Of(c) : reply'[p] = "queued" => In(p, Tail(q))
    BY <1>1, <1>2, <2>1, <2>2, QueueMembers, Zenon DEF QueueOf, Of, RequestTyped
  <2> HIDE DEF q
  <2> QED BY <2>1, <2>4, <2>5, <2>6, Zenon DEF QueueOf, Of
<1> QED BY <1>2, <1>3, <1>4 DEF QueueInv

\* A torn down connection leaves empty queues and nothing queued.
LEMMA TeardownQueue ==
    ASSUME RequestTyped, QueueInv, NEW c \in Conns, Teardown(c)
    PROVE  QueueInv'
<1>1. /\ request_queue' = [request_queue EXCEPT ![c] = << >>]
      /\ reply_queue' = [reply_queue EXCEPT ![c] = << >>]
      /\ \A r \in Reqs : r \notin Of(c) => task'[r] = task[r] /\ reply'[r] = reply[r]
      /\ \A r \in Of(c) : task'[r] # "queued" /\ reply'[r] # "queued"
  BY Zenon DEF Teardown, Of
<1>2. ASSUME NEW d \in Conns, d # c PROVE QueueOf(d)'
  BY <1>1, <1>2, QueueElsewhere, Zenon DEF Of, QueueInv
<1>3. QueueOf(c)'
  <2>1. request_queue'[c] = << >> /\ reply_queue'[c] = << >>
    BY <1>1, Zenon DEF QueueInv
  <2>2. << >> \in Seq(Reqs) /\ 1..Len(<< >>) = {} /\ Len(<< >>) <= MaxRequestsPerConnection
    BY ConnectionConstants
  <2>3. \A r \in Of(c)' : task'[r] # "queued" /\ reply'[r] # "queued"
    BY <1>1, Zenon DEF Of
  <2> HIDE DEF Of
  <2> QED BY <2>1, <2>2, <2>3, Zenon DEF QueueOf
<1> QED BY <1>1, <1>2, <1>3 DEF QueueInv

-----------------------------------------------------------------------------
(* The replay cache.                                                        *)

\* A slot that names this request as the leader of its own call, unanswered
Leads(s, r) == s # Empty /\ s.leader = r /\ s.fingerprint = ArgsOf[r] /\ s.answered = FALSE

\* Another call has been made under the key of this request.
Reused(r) == \E q \in Reqs : XidOf[q] = XidOf[r] /\ ArgsOf[q] # ArgsOf[r] /\ stage[q] # "idle"

CacheTyped ==
    /\ slot \in [Xids -> Replay!Slots \cup {Empty}]
    /\ stage \in [Reqs -> Replay!Stages]
    /\ source \in [Reqs -> Reqs \cup {NoCall}]

\* An execution has the slot of its key, or the key has been reused.
SlotInv == \A r \in Reqs : stage[r] = "executing" => Leads(slot[XidOf[r]], r) \/ Reused(r)

\* A slot with a leader is not one that may be forgotten.
LEMMA LedIsKept ==
    ASSUME CacheTyped, NEW S \in SUBSET Replay!Answered, NEW r \in Reqs, Leads(slot[XidOf[r]], r)
    PROVE  Replay!Forget(S)[XidOf[r]] = slot[XidOf[r]]
<1>1. XidOf[r] \in Xids
  BY ConnectionConstants, Zenon
<1>2. XidOf[r] \notin Replay!Answered
  BY Zenon DEF Leads, Replay!Answered
<1> QED BY <1>1, <1>2, Zenon DEF Replay!Forget

\* Forgetting keeps the type of the slots.
LEMMA ForgetTyped ==
    ASSUME CacheTyped, NEW S
    PROVE  Replay!Forget(S) \in [Xids -> Replay!Slots \cup {Empty}]
BY Zenon DEF CacheTyped, Replay!Forget

\* The calls of the replay cache that do not execute
LEMMA LookupSlots ==
    ASSUME CacheTyped, SlotInv, NEW r \in Reqs,
           \/ Replay!Replay(r, XidOf[r], ArgsOf[r]) \/ Replay!Refuse(r)
           \/ Replay!Join(r, XidOf[r], ArgsOf[r])
    PROVE  CacheTyped' /\ SlotInv'
<1>1. PICK S \in SUBSET Replay!Answered : slot' = Replay!Forget(S)
  BY Zenon DEF Replay!Replay, Replay!Refuse, Replay!Join
<1>2. XidOf[r] \in Xids
  BY ConnectionConstants, Zenon
<1>3. PICK st \in {"answered", "failed", "awaiting"} : stage' = [stage EXCEPT ![r] = st]
  BY Zenon DEF Replay!Replay, Replay!Refuse, Replay!Join
<1>4. source' \in [Reqs -> Reqs \cup {NoCall}]
  <2>1. slot[XidOf[r]] # Empty => slot[XidOf[r]].leader \in Reqs
    BY <1>2, Zenon DEF CacheTyped, Replay!Slots
  <2> QED BY <2>1, Zenon DEF Replay!Replay, Replay!Refuse, Replay!Join, Replay!Matches, CacheTyped
<1>5. CacheTyped'
  BY <1>1, <1>3, <1>4, ForgetTyped, Zenon DEF CacheTyped, Replay!Stages
<1>6. ASSUME NEW q \in Reqs, stage'[q] = "executing" PROVE Leads(slot'[XidOf[q]], q) \/ Reused(q)'
  <2>1. stage[q] = "executing"
    BY <1>3, <1>6, Zenon DEF CacheTyped
  <2>2. CASE Leads(slot[XidOf[q]], q)
    BY <1>1, <2>2, LedIsKept, Zenon
  <2>3. CASE Reused(q)
    BY <1>3, <2>3, Zenon DEF Reused, CacheTyped
  <2> QED BY <2>1, <2>2, <2>3, Zenon DEF SlotInv
<1> QED BY <1>5, <1>6, Zenon DEF SlotInv

\* A call that executes takes the slot of its key: whoever led it had another
\* fingerprint.
LEMMA ExecuteSlots ==
    ASSUME CacheTyped, SlotInv, NEW r \in Reqs, Replay!Execute(r, XidOf[r], ArgsOf[r])
    PROVE  CacheTyped' /\ SlotInv'
<1> DEFINE new == [fingerprint |-> ArgsOf[r], leader |-> r, answered |-> FALSE]
<1>1. PICK S \in SUBSET Replay!Answered :
          /\ ~Replay!Matches(Replay!Forget(S)[XidOf[r]], ArgsOf[r])
          /\ slot' = [Replay!Forget(S) EXCEPT ![XidOf[r]] = new]
  BY Zenon DEF Replay!Execute
<1>2. /\ stage[r] = "idle" /\ stage' = [stage EXCEPT ![r] = "executing"]
      /\ source' = [source EXCEPT ![r] = r]
  BY Zenon DEF Replay!Execute
<1>3. XidOf[r] \in Xids /\ ArgsOf[r] \in Args
  BY ConnectionConstants, Zenon
<1>4. Replay!Forget(S) \in [Xids -> Replay!Slots \cup {Empty}]
  BY ForgetTyped, Zenon
<1>5. new \in Replay!Slots
  BY <1>3, Zenon DEF Replay!Slots
<1>6. CacheTyped'
  BY <1>1, <1>2, <1>4, <1>5, Zenon DEF CacheTyped, Replay!Stages
<1>7. ASSUME NEW q \in Reqs, stage'[q] = "executing", Leads(slot[XidOf[q]], q), q # r
      PROVE  Leads(slot'[XidOf[q]], q) \/ Reused(q)'
  <2>1. Replay!Forget(S)[XidOf[q]] = slot[XidOf[q]]
    BY <1>7, LedIsKept, Zenon
  <2>2. CASE XidOf[q] # XidOf[r]
    BY <1>1, <1>3, <1>4, <1>7, <2>1, <2>2, ConnectionConstants, Zenon
  <2>3. CASE XidOf[q] = XidOf[r]
    <3>1. ArgsOf[q] # ArgsOf[r]
      BY <1>1, <1>7, <2>1, <2>3, Zenon DEF Leads, Replay!Matches
    <3>2. stage'[r] # "idle"
      BY <1>2, Zenon DEF CacheTyped
    <3> QED BY <2>3, <3>1, <3>2, Zenon DEF Reused
  <2> QED BY <2>2, <2>3, Zenon
<1>8. ASSUME NEW q \in Reqs, Reused(q) PROVE Reused(q)'
  BY <1>2, <1>8, Zenon DEF Reused, CacheTyped
<1>9. Leads(slot'[XidOf[r]], r)
  BY <1>1, <1>3, <1>4, <1>5, EmptyIsNoSlot, Zenon DEF Leads
<1> QED BY <1>2, <1>6, <1>7, <1>8, <1>9, Zenon DEF SlotInv, CacheTyped

\* The end of an execution, and of those who wait for it
Settles(r, outcome) ==
    /\ stage[r] = "executing" /\ UNCHANGED source
    /\ stage' = [d \in Reqs |-> IF d \in Replay!Audience(r) THEN outcome ELSE stage[d]]

\* Finish and Fail settle the calls, and keep the slots that others lead.
LEMMA SettleSlots ==
    ASSUME CacheTyped, SlotInv, NEW r \in Reqs, Replay!Finish(r) \/ Replay!Fail(r)
    PROVE  /\ CacheTyped' /\ SlotInv'
           /\ Settles(r, "answered") \/ Settles(r, "failed")
<1>1. PICK outcome \in {"answered", "failed"} : Settles(r, outcome)
  BY Zenon DEF Replay!Finish, Replay!Fail, Settles
<1>2. slot' \in [Xids -> Replay!Slots \cup {Empty}]
  <2>1. CASE Replay!Fail(r)
    BY <2>1, Zenon DEF Replay!Fail, CacheTyped
  <2>2. CASE Replay!Finish(r)
    <3>1. PICK S \in SUBSET Replay!Answered, keep \in BOOLEAN :
             slot' = [x \in Xids |-> IF ~Replay!IsCurrent(r, x) THEN Replay!Forget(S)[x]
                                     ELSE IF keep THEN [fingerprint |-> slot[x].fingerprint, leader |-> r,
                                                        answered |-> TRUE] ELSE Empty]
      BY <2>2 DEF Replay!Finish
    <3>2. Replay!Forget(S) \in [Xids -> Replay!Slots \cup {Empty}]
      BY ForgetTyped, Zenon
    <3>3. ASSUME NEW x \in Xids, Replay!IsCurrent(r, x)
          PROVE  [fingerprint |-> slot[x].fingerprint, leader |-> r, answered |-> TRUE]
                    \in Replay!Slots
      BY <3>3, Zenon DEF Replay!IsCurrent, CacheTyped, Replay!Slots
    <3> QED BY <3>1, <3>2, <3>3, Zenon
  <2> QED BY <2>1, <2>2, Zenon
<1>3. CacheTyped'
  BY <1>1, <1>2, Zenon DEF CacheTyped, Settles, Replay!Stages
<1>4. ASSUME NEW q \in Reqs, q # r, Leads(slot[XidOf[q]], q) PROVE slot'[XidOf[q]] = slot[XidOf[q]]
  <2>1. XidOf[q] \in Xids
    BY ConnectionConstants, Zenon
  <2>2. ~Replay!IsCurrent(r, XidOf[q])
    BY <1>4, Zenon DEF Leads, Replay!IsCurrent
  <2>3. CASE Replay!Fail(r)
    BY <2>1, <2>2, <2>3, Zenon DEF Replay!Fail
  <2>4. CASE Replay!Finish(r)
    <3>1. PICK S \in SUBSET Replay!Answered, keep \in BOOLEAN :
             slot' = [x \in Xids |-> IF ~Replay!IsCurrent(r, x) THEN Replay!Forget(S)[x]
                                     ELSE IF keep THEN [fingerprint |-> slot[x].fingerprint, leader |-> r,
                                                        answered |-> TRUE] ELSE Empty]
      BY <2>4 DEF Replay!Finish
    <3>2. slot'[XidOf[q]] = Replay!Forget(S)[XidOf[q]]
      BY <2>1, <2>2, <3>1, Zenon
    <3> QED BY <1>4, <3>2, LedIsKept, Zenon
  <2> QED BY <2>3, <2>4, Zenon
<1>5. ASSUME NEW q \in Reqs, stage'[q] = "executing" PROVE q # r /\ stage[q] = "executing"
  BY <1>1, <1>5, Zenon DEF Settles, Replay!Audience
<1>6. ASSUME NEW q \in Reqs, Reused(q) PROVE Reused(q)'
  BY <1>1, <1>6, Zenon DEF Reused, Settles
<1>7. SlotInv'
  BY <1>4, <1>5, <1>6, Zenon DEF SlotInv
<1> QED BY <1>1, <1>3, <1>7, Zenon

\* A call that stops waiting changes no slot.
LEMMA LeaveSlots ==
    ASSUME CacheTyped, SlotInv, NEW r \in Reqs, Replay!Leave(r)
    PROVE  CacheTyped' /\ SlotInv'
<1>1. /\ stage[r] = "awaiting" /\ stage' = [stage EXCEPT ![r] = "failed"]
      /\ slot' = slot /\ source' = source
  BY Zenon DEF Replay!Leave
<1>2. CacheTyped'
  BY <1>1, Zenon DEF CacheTyped, Replay!Stages
<1>3. ASSUME NEW q \in Reqs, Reused(q) PROVE Reused(q)'
  BY <1>1, <1>3, Zenon DEF Reused, CacheTyped
<1>4. ASSUME NEW q \in Reqs, stage'[q] = "executing" PROVE stage[q] = "executing"
  BY <1>1, <1>4, Zenon DEF CacheTyped
<1> QED BY <1>1, <1>2, <1>3, <1>4, Zenon DEF SlotInv

-----------------------------------------------------------------------------
(* Leases.                                                                  *)

LeaseAt(r) ==
    /\ stage[r] = "executing" <=> task[r] = "admitting" \/ exec[r] = "running"
    /\ stage[r] = "awaiting" => task[r] = "waiting"

CacheInv == CacheTyped /\ SlotInv /\ \A r \in Reqs : LeaseAt(r)

\* Steps that do not use the cache, for a request and for all
KeepsLease(r) ==
    /\ task'[r] = "admitting" \/ exec'[r] = "running" <=> task[r] = "admitting" \/ exec[r] = "running"
    /\ task[r] = "waiting" /\ stage[r] = "awaiting" => task'[r] = "waiting"

\* A step that does not use the cache
LEMMA CacheKept ==
    ASSUME CacheInv, UNCHANGED <<slot, stage, source>>, \A r \in Reqs : KeepsLease(r)
    PROVE  CacheInv'
<1>1. CacheTyped' /\ SlotInv'
  BY Zenon DEF CacheInv, CacheTyped, SlotInv, Reused
<1>2. \A r \in Reqs : LeaseAt(r)'
  BY Zenon DEF CacheInv, LeaseAt, KeepsLease
<1> QED BY <1>1, <1>2, Zenon DEF CacheInv

\* A request that gets another stage, and no other does
LEMMA CacheOne ==
    ASSUME RequestTyped, CacheInv, NEW r \in Reqs, Alters(r), CacheTyped', SlotInv', LeaseAt(r)',
           \A q \in Reqs : q # r => stage'[q] = stage[q]
    PROVE  CacheInv'
<1>1. \A q \in Reqs : q # r => task'[q] = task[q] /\ exec'[q] = exec[q]
  BY Zenon DEF Alters, RequestTyped
<1> QED BY <1>1, Zenon DEF CacheInv, LeaseAt

\* An execution that settles takes its waiters along, none of which executes.
LEMMA CacheSettles ==
    ASSUME RequestTyped, CacheInv, NEW r \in Reqs, Alters(r), Replay!Finish(r) \/ Replay!Fail(r),
           task'[r] # "admitting", exec'[r] # "running"
    PROVE  CacheInv'
<1>1. /\ CacheTyped' /\ SlotInv'
      /\ \E outcome \in {"answered", "failed"} : Settles(r, outcome)
  BY SettleSlots, Zenon DEF CacheInv
<1>2. PICK outcome \in {"answered", "failed"} : Settles(r, outcome)
  BY <1>1, Zenon
<1>3. \A q \in Reqs : q # r => task'[q] = task[q] /\ exec'[q] = exec[q]
  BY Zenon DEF Alters, RequestTyped
<1>4. \A q \in Reqs : \/ stage'[q] = stage[q] /\ q # r
                      \/ stage'[q] = outcome /\ (q = r \/ stage[q] = "awaiting")
  BY <1>2, Zenon DEF Settles, Replay!Audience
<1>5. ASSUME NEW q \in Reqs PROVE LeaseAt(q)'
  <2>1. CASE q = r
    BY <1>4, <2>1, Zenon DEF LeaseAt
  <2>2. CASE q # r
    BY <1>3, <1>4, <2>2, Zenon DEF LeaseAt, CacheInv
  <2> QED BY <2>1, <2>2, Zenon
<1> QED BY <1>1, <1>5, Zenon DEF CacheInv

\* A request task's step, with what it asks of the cache
LEMMA TaskCache ==
    ASSUME ChargeInv, CacheInv, NEW r \in Reqs, TaskStep(r)
    PROVE  CacheInv'
<1> USE DEF ChargeInv, CacheInv
<1>1. CASE ChargeTimesOut(r) \/ Reject(r) \/ WaitEnds(r) \/ Admit(r) \/ ReceiveReply(r)
           \/ SendReply(r) \/ SendReplyFails(r)
  <2>1. UNCHANGED <<slot, stage, source>>
    BY <1>1, Zenon DEF ChargeTimesOut, Reject, WaitEnds, Admit, ReceiveReply, SendReply, SendReplyFails, cache
  <2>2. \A q \in Reqs : KeepsLease(q)
    BY <1>1 DEF ChargeTimesOut, Reject, AnsweredAtOnce, Charged, WaitEnds, Admit, ReceiveReply, SendReply,
                SendReplyFails, Answers, Moves, KeepsLease, RequestTyped, ChargeOf
  <2> HIDE DEF ChargeInv, CacheInv
  <2> QED BY <2>1, <2>2, CacheKept, Zenon
<1>2. CASE BeginReplay(r) \/ BeginRefused(r) \/ BeginWait(r)
  <2>1. /\ task[r] = "charging" /\ \E to \in {"replying", "waiting"} : task' = [task EXCEPT ![r] = to]
        /\ exec' = exec
    BY <1>2, Zenon DEF BeginReplay, BeginRefused, BeginWait, AnsweredAtOnce, Charged, Moves
  <2>2. CacheTyped' /\ SlotInv'
    BY <1>2, LookupSlots, Zenon DEF BeginReplay, BeginRefused, BeginWait
  <2>3. /\ \A q \in Reqs : q # r => stage'[q] = stage[q]
        /\ stage'[r] \in {"answered", "failed"} \/ (stage'[r] = "awaiting" /\ task'[r] = "waiting")
    BY <1>2, Zenon DEF BeginReplay, BeginRefused, BeginWait, Charged, Moves, Replay!Replay, Replay!Refuse,
                Replay!Join, CacheTyped, RequestTyped
  <2>4. LeaseAt(r)'
    BY <2>1, <2>3, Zenon DEF LeaseAt, RequestTyped, ChargeOf
  <2>5. Alters(r)
    BY <1>2 DEF BeginReplay, BeginRefused, BeginWait, AnsweredAtOnce, Charged, Moves, Alters, RequestTyped,
                TaskStates, Spawned
  <2> QED BY <2>2, <2>3, <2>4, <2>5, CacheOne, Zenon
<1>3. CASE BeginExecute(r)
  <2>1. CacheTyped' /\ SlotInv'
    BY <1>3, ExecuteSlots, Zenon DEF BeginExecute
  <2>2. /\ \A q \in Reqs : q # r => stage'[q] = stage[q]
        /\ LeaseAt(r)'
    BY <1>3, Zenon DEF BeginExecute, Charged, Moves, Replay!Execute, CacheTyped, RequestTyped, LeaseAt
  <2>3. Alters(r)
    BY <1>3, Zenon DEF BeginExecute, Charged, Moves, Alters, RequestTyped, TaskStates, Spawned
  <2> QED BY <2>1, <2>2, <2>3, CacheOne, Zenon
<1>4. CASE WaitTimesOut(r) \/ (AbortTask(r) /\ task[r] = "waiting" /\ stage[r] = "awaiting")
  <2>1. Replay!Leave(r)
    BY <1>4, Zenon DEF WaitTimesOut, AbortTask, LeaseOf
  <2>2. CacheTyped' /\ SlotInv'
    BY <2>1, LeaveSlots, Zenon
  <2>3. Alters(r) /\ task'[r] # "admitting" /\ task[r] = "waiting" /\ exec'[r] = exec[r]
    BY <1>4 DEF WaitTimesOut, Answers, AbortTask, AfterAbort, Moves, Alters, RequestTyped, TaskStates, Spawned
  <2>4. /\ \A q \in Reqs : q # r => stage'[q] = stage[q]
        /\ stage'[r] = "failed"
    BY <2>1, Zenon DEF Replay!Leave, CacheTyped
  <2>5. LeaseAt(r)'
    BY <2>3, <2>4, Zenon DEF LeaseAt, ChargeOf
  <2> QED BY <2>2, <2>3, <2>4, <2>5, CacheOne, Zenon
<1>5. CASE AdmitFails(r) \/ (AbortTask(r) /\ task[r] = "admitting")
  <2>1. Replay!Fail(r)
    BY <1>5, Zenon DEF AdmitFails, AbortTask, LeaseOf
  <2>2. Alters(r) /\ task'[r] # "admitting" /\ task[r] = "admitting" /\ exec'[r] = exec[r]
    BY <1>5 DEF AdmitFails, Answers, AbortTask, AfterAbort, Moves, Alters, RequestTyped, TaskStates, Spawned
  <2>3. exec'[r] # "running"
    BY <2>2, Zenon DEF ChargeOf
  <2> QED BY <2>1, <2>2, <2>3, CacheSettles, Zenon
<1>6. CASE AbortTask(r) /\ task[r] # "admitting" /\ ~(task[r] = "waiting" /\ stage[r] = "awaiting")
  <2>1. UNCHANGED <<slot, stage, source>>
    BY <1>6, Zenon DEF AbortTask, LeaseOf, cache
  <2>2. \A q \in Reqs : KeepsLease(q)
    BY <1>6, Zenon DEF AbortTask, KeepsLease, RequestTyped
  <2> HIDE DEF ChargeInv, CacheInv
  <2> QED BY <2>1, <2>2, CacheKept, Zenon
<1> QED BY <1>1, <1>2, <1>3, <1>4, <1>5, <1>6, Zenon DEF TaskStep

\* The end of an execution
LEMMA ExecutionCache ==
    ASSUME ChargeInv, CacheInv, NEW r \in Reqs, ExecutionStep(r)
    PROVE  CacheInv'
<1>1. ExecutionEnds(r) /\ (Replay!Finish(r) \/ Replay!Fail(r))
  BY Zenon DEF ExecutionStep, ExecutionCompletes, ExecutionFails
<1>2. Alters(r)
  BY <1>1, Zenon DEF ExecutionEnds, Alters, ChargeInv, RequestTyped
<1>3. exec'[r] = "over" /\ task'[r] # "admitting"
  BY <1>1, Zenon DEF ExecutionEnds, ChargeInv, RequestTyped, ChargeOf
<1> QED BY <1>1, <1>2, <1>3, CacheSettles, Zenon DEF ChargeInv

\* The steps of a connection do not use the cache.
LEMMA ConnectionCache ==
    ASSUME ChargeInv, QueueInv, CacheInv, NEW c \in Conns,
           ReaderStep(c) \/ ProcessorStep(c) \/ WriterStep(c) \/ Teardown(c)
    PROVE  CacheInv'
<1> DEFINE Kept == UNCHANGED <<slot, stage, source>> /\ \A r \in Reqs : KeepsLease(r)
<1>1. ASSUME NEW r \in Reqs, ReadHeader(r) \/ ReadBody(r) \/ Enqueue(r) \/ JoinFinished(r) \/ WriteReply(r)
      PROVE  Kept
  BY <1>1, Zenon DEF ReadHeader, ReadBody, Enqueue, JoinFinished, WriteReply, Moves, cache, KeepsLease, ChargeInv,
              RequestTyped
<1>2. ASSUME ReaderReturns(c) \/ Teardown(c) PROVE Kept
  BY <1>2, Zenon DEF ReaderReturns, Teardown, InReader, Of, Arriving, cache, KeepsLease
<1>3. ASSUME SpawnRequest(c) PROVE Kept
  BY <1>3, Zenon DEF SpawnRequest, Moves, cache, KeepsLease, ChargeInv, RequestTyped
<1>4. ASSUME \/ NoticeShutdown(c) \/ ProcessorReturns(c) \/ TakeReply(c) \/ WriterReturns(c) \/ Close(c)
      PROVE  Kept
  BY <1>4, Zenon DEF NoticeShutdown, ProcessorReturns, TakeReply, WriterReturns, Close, cache, KeepsLease
<1>5. ASSUME NEW r \in Of(c), JoinErred(r) \/ WriteFails(r) PROVE Teardown(c)
  BY <1>5, Zenon DEF JoinErred, WriteFails, Of
<1>6. Kept
  <2> HIDE DEF Kept
  <2>1. \A r \in Of(c) : r \in Reqs
    BY Zenon DEF Of
  <2> QED BY <1>1, <1>2, <1>3, <1>4, <1>5, <2>1, Zenon DEF ReaderStep, ProcessorStep, WriterStep, ReaderFails
<1> QED BY <1>6, CacheKept, Zenon

-----------------------------------------------------------------------------
(* The end of a connection.                                                 *)

ConnTyped ==
    /\ shutdown \in BOOLEAN /\ tracker \in BOOLEAN
    /\ link \in [Conns -> {"open", "closed", "failed"}]
    /\ reader \in [Conns -> {"reading", "done"}]
    /\ processor \in [Conns -> {"running", "draining", "done"}]
    /\ writer \in [Conns -> {"running", "done"}]

\* What is left of a request when the reader, the processor and the writer of
\* its connection have returned, and when the connection has closed
EndAt(r) ==
    LET c == ConnOf[r]
    IN /\ reader[c] = "done" => task[r] \notin Arriving
       /\ link[c] = "open" =>
             /\ task[r] # "aborted"
             /\ task[r] \in {"finished", "joined"} => reply[r] \in InWriter \cup {"written"}
             /\ processor[c] = "done" => task[r] \in Arriving \cup {"unsent", "joined", "dropped"}
             /\ writer[c] = "done" => reply[r] \notin InWriter
       /\ link[c] = "closed" =>
             task[r] \in {"unsent", "dropped"} \/ (task[r] = "joined" /\ reply[r] = "written")

EndInv ==
    /\ ConnTyped
    /\ \A c \in Conns : link[c] = "open" /\ writer[c] = "done" => processor[c] = "done"
    /\ \A r \in Reqs : EndAt(r)

futures == <<link, reader, processor, writer>>

\* A step about one request, that leaves the futures of connections alone
LEMMA EndOne ==
    ASSUME RequestTyped, EndInv, NEW r \in Reqs, Alters(r), UNCHANGED <<shutdown, tracker, futures>>, EndAt(r)'
    PROVE  EndInv'
<1>1. \A q \in Reqs : q # r => task'[q] = task[q] /\ reply'[q] = reply[q]
  BY Zenon DEF Alters, RequestTyped
<1>2. UNCHANGED <<shutdown, tracker, link, reader, processor, writer>>
  BY Zenon DEF futures
<1>3. ASSUME NEW q \in Reqs, q # r PROVE EndAt(q)'
  BY <1>1, <1>2, <1>3, Zenon DEF EndInv, EndAt
<1>4. ConnTyped'
  BY <1>2, Zenon DEF EndInv, ConnTyped
<1> QED BY <1>2, <1>3, <1>4, Zenon DEF EndInv

\* The reader and the processor move a request on.
LEMMA ReaderEnd ==
    ASSUME ChargeInv, EndInv, NEW r \in Reqs, ReadHeader(r) \/ ReadBody(r) \/ Enqueue(r) \/ JoinFinished(r)
    PROVE  EndInv'
<1>1. Alters(r)
  BY ReaderAlters, Zenon DEF ChargeInv
<1>2. UNCHANGED <<shutdown, tracker, futures>>
  BY Zenon DEF ReadHeader, ReadBody, Enqueue, JoinFinished, conns, futures
<1>3. ConnOf[r] \in Conns /\ EndAt(r) /\ task \in [Reqs -> TaskStates]
  BY ConnectionConstants, Zenon DEF EndInv, ChargeInv, RequestTyped
<1>4. EndAt(r)'
  BY <1>3, Zenon DEF ReadHeader, ReadBody, Enqueue, JoinFinished, ReceiverClosed, Moves, conns, EndAt, Arriving, InWriter
<1> QED BY <1>1, <1>2, <1>4, EndOne, Zenon DEF ChargeInv

\* A request is spawned, and a reply taken, while their futures run.
LEMMA HeadEnd ==
    ASSUME ChargeInv, QueueInv, EndInv, NEW c \in Conns, SpawnRequest(c) \/ TakeReply(c)
    PROVE  EndInv'
<1>1. UNCHANGED <<shutdown, tracker, link, reader, processor, writer>> /\ link[c] = "open"
  BY Zenon DEF SpawnRequest, TakeReply
<1>2. CASE SpawnRequest(c)
  <2>1. PICK r \in Reqs : /\ ConnOf[r] = c /\ Alters(r) /\ task[r] = "queued" /\ task'[r] = "charging"
                          /\ UNCHANGED reply
    BY <1>2, SpawnAlters, Zenon DEF ChargeInv
  <2>2. EndAt(r)'
    BY <1>1, <2>1, Zenon DEF EndInv, EndAt, Arriving
  <2> QED BY <1>1, <2>1, <2>2, EndOne, Zenon DEF ChargeInv, futures
<1>3. CASE TakeReply(c)
  <2>1. PICK r \in Reqs : /\ ConnOf[r] = c /\ Alters(r) /\ reply[r] = "queued" /\ reply'[r] = "writing"
                          /\ UNCHANGED task
    BY <1>3, TakeAlters, Zenon DEF ChargeInv
  <2>2. EndAt(r)'
    BY <1>1, <2>1, Zenon DEF EndInv, EndAt, InWriter
  <2> QED BY <1>1, <2>1, <2>2, EndOne, Zenon DEF ChargeInv, futures
<1> QED BY <1>2, <1>3, Zenon

\* A request task only moves while its processor has not returned, or after an
\* error of its connection.
LEMMA TaskEnd ==
    ASSUME ChargeInv, EndInv, NEW r \in Reqs, TaskMove(r)
    PROVE  EndInv'
<1>1. Alters(r)
  BY TaskAlters, Zenon DEF ChargeInv
<1>2. /\ UNCHANGED <<shutdown, tracker, link, reader, processor, writer>>
      /\ task[r] \in Spawned /\ task'[r] \in Spawned \cup Ended
      /\ reply'[r] = reply[r] \/ reply'[r] = "queued" \/ task'[r] = "erred" \/ link[ConnOf[r]] # "open"
      /\ task'[r] = "finished" => reply'[r] = "queued" \/ link[ConnOf[r]] # "open"
  BY Zenon DEF TaskMove, ChargeTimesOut, AnsweredAtOnce, Admit, SendReply, SendReplyFails, Charged, Answers,
         Moves, conns, ChargeInv, RequestTyped, Spawned, Ended
<1>3. ConnOf[r] \in Conns /\ EndAt(r)
  BY ConnectionConstants, Zenon DEF EndInv
<1>4. link[ConnOf[r]] = "open" => processor[ConnOf[r]] # "done" /\ writer[ConnOf[r]] # "done"
  BY <1>2, <1>3, Zenon DEF EndInv, EndAt, Arriving, Spawned
<1>5. link[ConnOf[r]] # "closed"
  BY <1>2, <1>3, Zenon DEF EndAt, Spawned
<1>6. EndAt(r)'
  BY <1>2, <1>4, <1>5, Zenon DEF EndAt, Arriving, InWriter, Spawned, Ended
<1> QED BY <1>1, <1>2, <1>6, EndOne, Zenon DEF ChargeInv, futures

\* An execution ends, a task is aborted, or a reply is written.
LEMMA OverEnd ==
    ASSUME ChargeInv, EndInv, NEW r \in Reqs, ExecutionEnds(r) \/ AbortTask(r) \/ WriteReply(r)
    PROVE  EndInv'
<1>1. Alters(r)
  BY OverAlters, Zenon DEF ChargeInv
<1>2. UNCHANGED <<shutdown, tracker, link, reader, processor, writer>>
  BY Zenon DEF ExecutionEnds, AbortTask, WriteReply, conns
<1>3. EndAt(r) /\ ChargeOf(r)
  BY Zenon DEF EndInv, ChargeInv
<1>4. EndAt(r)'
  BY <1>2, <1>3, Zenon DEF ExecutionEnds, AbortTask, WriteReply, EndAt, ChargeInv, RequestTyped, ChargeOf, Arriving,
                    InWriter, Spawned
<1> QED BY <1>1, <1>2, <1>4, EndOne, Zenon DEF ChargeInv, futures

\* A reader returns, or a connection is torn down.
LEMMA DropEnd ==
    ASSUME ChargeInv, EndInv, NEW c \in Conns, ReaderReturns(c) \/ Teardown(c)
    PROVE  EndInv'
<1>1. CASE ReaderReturns(c)
  <2>1. /\ reader' = [reader EXCEPT ![c] = "done"]
        /\ \A r \in Reqs : task'[r] =
              IF ConnOf[r] = c /\ task[r] \in Arriving THEN "dropped" ELSE task[r]
        /\ UNCHANGED <<shutdown, tracker, link, processor, writer, reply>> /\ link[c] = "open"
    BY <1>1, Zenon DEF ReaderReturns, InReader, Of
  <2>2. ConnTyped'
    BY <2>1, Zenon DEF EndInv, ConnTyped
  <2>3. ASSUME NEW r \in Reqs PROVE EndAt(r)'
    BY <2>1, ConnectionConstants DEF EndInv, EndAt, ConnTyped, Arriving
  <2> QED BY <2>1, <2>2, <2>3, Zenon DEF EndInv
<1>2. CASE Teardown(c)
  <2>1. /\ link' = [link EXCEPT ![c] = "failed"] /\ reader' = [reader EXCEPT ![c] = "done"]
        /\ processor' = [processor EXCEPT ![c] = "done"] /\ writer' = [writer EXCEPT ![c] = "done"]
        /\ \A r \in Reqs : ConnOf[r] = c => task'[r] \notin Arriving
        /\ \A r \in Reqs : ConnOf[r] # c => task'[r] = task[r] /\ reply'[r] = reply[r]
        /\ UNCHANGED <<shutdown, tracker>>
    BY <1>2, Zenon DEF Teardown, Of, Arriving
  <2>2. ConnTyped'
    BY <2>1, Zenon DEF EndInv, ConnTyped
  <2>3. ASSUME NEW r \in Reqs PROVE EndAt(r)'
    <3>1. ConnOf[r] \in Conns /\ EndAt(r)
      BY ConnectionConstants, Zenon DEF EndInv
    <3>2. CASE ConnOf[r] = c
      BY <2>1, <3>1, <3>2, Zenon DEF EndInv, ConnTyped, EndAt
    <3>3. CASE ConnOf[r] # c
      BY <2>1, <3>1, <3>3 DEF EndInv, ConnTyped, EndAt
    <3> QED BY <3>2, <3>3, Zenon
  <2> QED BY <2>1, <2>2, <2>3, Zenon DEF EndInv, ConnTyped
<1> QED BY <1>1, <1>2, Zenon

\* The processor and the writer return when nothing is left to do, and the
\* connection closes.
LEMMA FutureEnd ==
    ASSUME ChargeInv, QueueInv, EndInv, NEW c \in Conns,
           NoticeShutdown(c) \/ ProcessorReturns(c) \/ WriterReturns(c) \/ Close(c)
    PROVE  EndInv'
<1>1. UNCHANGED <<shutdown, tracker, task, reply, reader>> /\ link[c] = "open"
  BY Zenon DEF NoticeShutdown, ProcessorReturns, WriterReturns, Close
<1>2. ASSUME NEW r \in Reqs, ConnOf[r] # c PROVE EndAt(r)'
  <2>1. ConnOf[r] \in Conns /\ EndAt(r)
    BY ConnectionConstants, Zenon DEF EndInv
  <2>2. /\ link'[ConnOf[r]] = link[ConnOf[r]] /\ processor'[ConnOf[r]] = processor[ConnOf[r]]
        /\ writer'[ConnOf[r]] = writer[ConnOf[r]]
    BY <1>2, <2>1, Zenon DEF NoticeShutdown, ProcessorReturns, WriterReturns, Close, EndInv, ConnTyped
  <2> QED BY <1>1, <2>1, <2>2, Zenon DEF EndAt
<1>3. ConnTyped'
  BY Zenon DEF NoticeShutdown, ProcessorReturns, WriterReturns, Close, EndInv, ConnTyped
<1>4. ASSUME NEW r \in Reqs, ConnOf[r] = c PROVE EndAt(r)'
  <2>1. EndAt(r) /\ r \in Of(c) /\ QueueOf(c) /\ task[r] \in TaskStates
        /\ reply[r] \in InWriter \cup {"none", "written", "lost"}
    BY <1>4, Zenon DEF EndInv, Of, QueueInv, ChargeInv, RequestTyped, InWriter
  <2>2. CASE NoticeShutdown(c)
    BY <1>1, <1>4, <2>1, <2>2, Zenon DEF NoticeShutdown, EndInv, ConnTyped, EndAt
  <2>3. CASE ProcessorReturns(c)
    <3>1. task[r] # "queued"
      BY <2>1, <2>3 DEF ProcessorReturns, ProcessorIdle, QueueOf, In
    <3>2. task[r] \notin Spawned \cup Ended
      BY <2>1, <2>3, Zenon DEF ProcessorReturns, ProcessorIdle, JoinSet
    <3>3. link' = link /\ writer' = writer
      BY <2>3, Zenon DEF ProcessorReturns
    <3> QED BY <1>1, <1>4, <2>1, <3>1, <3>2, <3>3, Zenon DEF EndAt, TaskStates
  <2>4. CASE WriterReturns(c)
    <3>1. reply[r] \notin InWriter
      BY <2>1, <2>4 DEF WriterReturns, QueueOf, In, InWriter
    <3>2. link' = link /\ processor' = processor
      BY <2>4, Zenon DEF WriterReturns
    <3> QED BY <1>1, <1>4, <2>1, <3>1, <3>2, Zenon DEF EndAt
  <2>5. CASE Close(c)
    <3>1. /\ link'[c] = "closed" /\ reader[c] = "done" /\ processor[c] = "done" /\ writer[c] = "done"
      BY <2>5, Zenon DEF Close, EndInv, ConnTyped
    <3> QED BY <1>1, <1>4, <2>1, <3>1, Zenon DEF EndAt, InWriter, Arriving
  <2> QED BY <2>2, <2>3, <2>4, <2>5, Zenon
<1>5. ASSUME NEW d \in Conns, link'[d] = "open", writer'[d] = "done" PROVE processor'[d] = "done"
  BY <1>1, <1>5, Zenon DEF NoticeShutdown, ProcessorReturns, WriterReturns, Close, EndInv, ConnTyped
<1> QED BY <1>2, <1>3, <1>4, <1>5, Zenon DEF EndInv
-----------------------------------------------------------------------------
(* Together.                                                                *)

Inv == ChargeInv /\ BudgetInv /\ QueueInv /\ CacheInv /\ EndInv

\* What the steps of requests and connections keep, the budgets and the replay
\* cache aside
Core == ChargeInv /\ QueueInv /\ EndInv

\* The steps that neither queue nor take anything
LEMMA PlainQueue ==
    ASSUME ChargeInv, QueueInv, NEW r \in Reqs,
           \/ ReadHeader(r) \/ ReadBody(r) \/ JoinFinished(r)
           \/ TaskMove(r) /\ ~SendReply(r)
           \/ ExecutionEnds(r) \/ AbortTask(r) \/ WriteReply(r)
    PROVE  QueueInv'
<1>1. CASE ReadHeader(r) \/ ReadBody(r) \/ JoinFinished(r)
  BY <1>1, QueueKept, Zenon DEF ReadHeader, ReadBody, JoinFinished, Moves, conns, ChargeInv, RequestTyped
<1>2. CASE TaskMove(r) /\ ~SendReply(r)
  <2>1. UNCHANGED <<request_queue, reply_queue>>
    BY <1>2, Zenon DEF TaskMove, ChargeTimesOut, AnsweredAtOnce, Admit, SendReplyFails, Charged, Answers, conns
  <2>2. \A q \in Reqs : task'[q] = "queued" => task[q] = "queued"
    BY <1>2, Zenon DEF TaskMove, ChargeTimesOut, AnsweredAtOnce, Admit, SendReplyFails, Charged, Answers, Moves,
                ChargeInv, RequestTyped
  <2>3. \A q \in Reqs : reply'[q] = "queued" <=> reply[q] = "queued"
    BY <1>2, Zenon DEF TaskMove, ChargeTimesOut, AnsweredAtOnce, Admit, SendReplyFails, Charged, Answers, Moves,
                ChargeInv, RequestTyped, ChargeOf, InWriter
  <2> QED BY <2>1, <2>2, <2>3, QueueKept, Zenon
<1>3. CASE ExecutionEnds(r) \/ AbortTask(r) \/ WriteReply(r)
  BY <1>3, QueueKept, Zenon DEF ExecutionEnds, AbortTask, WriteReply, conns, ChargeInv, RequestTyped
<1> QED BY <1>1, <1>2, <1>3, Zenon

\* The steps of one request
LEMMA RequestCore ==
    ASSUME Core, NEW r \in Reqs,
           \/ ReadHeader(r) \/ ReadBody(r) \/ Enqueue(r) \/ JoinFinished(r)
           \/ TaskMove(r) \/ ExecutionEnds(r) \/ AbortTask(r) \/ WriteReply(r)
    PROVE  Core'
<1>1. CASE ReadHeader(r) \/ ReadBody(r) \/ Enqueue(r) \/ JoinFinished(r)
  <2>1. QueueInv'
    BY <1>1, PlainQueue, EnqueueQueue, Zenon DEF Core, ChargeInv
  <2> QED BY <1>1, <2>1, ReaderCharge, ReaderEnd, Zenon DEF Core
<1>2. CASE TaskMove(r)
  <2>1. QueueInv'
    BY <1>2, PlainQueue, SendQueue, Zenon DEF Core
  <2> QED BY <1>2, <2>1, TaskCharge, TaskEnd, Zenon DEF Core
<1>3. CASE ExecutionEnds(r) \/ AbortTask(r) \/ WriteReply(r)
  BY <1>3, PlainQueue, OverCharge, OverEnd, Zenon DEF Core
<1> QED BY <1>1, <1>2, <1>3, Zenon

\* The steps of one connection
LEMMA ConnectionCore ==
    ASSUME Core, NEW c \in Conns,
           \/ SpawnRequest(c) \/ TakeReply(c) \/ ReaderReturns(c) \/ Teardown(c)
           \/ NoticeShutdown(c) \/ ProcessorReturns(c) \/ WriterReturns(c) \/ Close(c)
    PROVE  Core'
<1>1. CASE SpawnRequest(c) \/ TakeReply(c)
  BY <1>1, HeadCharge, HeadEnd, SpawnQueue, TakeQueue, Zenon DEF Core, ChargeInv
<1>2. CASE ReaderReturns(c)
  <2>1. QueueInv'
    BY <1>2, QueueKept, Zenon DEF Core, ReaderReturns, ChargeInv, RequestTyped
  <2> QED BY <1>2, <2>1, DropCharge, DropEnd, Zenon DEF Core
<1>3. CASE Teardown(c)
  BY <1>3, DropCharge, DropEnd, TeardownQueue, Zenon DEF Core, ChargeInv
<1>4. CASE NoticeShutdown(c) \/ ProcessorReturns(c) \/ WriterReturns(c) \/ Close(c)
  <2>1. UNCHANGED <<request_queue, reply_queue, task, exec, reply, charges>>
    BY <1>4, Zenon DEF NoticeShutdown, ProcessorReturns, WriterReturns, Close
  <2>2. ChargeInv'
    BY <2>1, Zenon DEF Core, ChargeInv, RequestTyped, ChargeOf, charges
  <2>3. QueueInv'
    BY <2>1, QueueKept, Zenon DEF Core
  <2> QED BY <1>4, <2>2, <2>3, FutureEnd, Zenon DEF Core
<1> QED BY <1>1, <1>2, <1>3, <1>4, Zenon

\* The steps of the server, and none
LEMMA ServerCore ==
    ASSUME Inv, Shutdown \/ ServerReturns \/ UNCHANGED vars
    PROVE  Core' /\ CacheInv' /\ BudgetInv'
<1>1. UNCHANGED <<conns, task, exec, reply, charges, cache>> /\ shutdown' \in BOOLEAN /\ tracker' \in BOOLEAN
  BY Zenon DEF Shutdown, ServerReturns, vars, Inv, EndInv, ConnTyped
<1>2. ChargeInv' /\ BudgetInv'
  BY <1>1, Zenon DEF Inv, ChargeInv, BudgetInv, RequestTyped, ChargeOf, charges
<1>3. QueueInv'
  BY <1>1, QueueKept, Zenon DEF Inv, conns
<1>4. CacheInv'
  BY <1>1, CacheKept, Zenon DEF Inv, cache, KeepsLease
<1>5. EndInv'
  BY <1>1, Zenon DEF Inv, EndInv, ConnTyped, EndAt, conns
<1> QED BY <1>2, <1>3, <1>4, <1>5, Zenon DEF Core

\* A step of a request task is one of the moves, or the task is aborted.
LEMMA TaskMoves ==
    ASSUME NEW r \in Reqs, TaskStep(r)
    PROVE  TaskMove(r) \/ AbortTask(r)
BY Zenon DEF TaskStep, TaskMove, Reject, BeginReplay, BeginRefused, BeginWait, BeginExecute, WaitEnds,
       WaitTimesOut, AdmitFails, ReceiveReply

\* A step of a connection is one of the steps above.
LEMMA ConnectionSteps ==
    ASSUME NEW c \in Conns, ReaderStep(c) \/ ProcessorStep(c) \/ WriterStep(c) \/ AbortConnection(c)
    PROVE  \/ \E r \in Reqs : \/ ReadHeader(r) \/ ReadBody(r) \/ Enqueue(r) \/ JoinFinished(r)
                              \/ WriteReply(r)
           \/ SpawnRequest(c) \/ TakeReply(c) \/ ReaderReturns(c) \/ Teardown(c)
           \/ NoticeShutdown(c) \/ ProcessorReturns(c) \/ WriterReturns(c) \/ Close(c)
BY Zenon DEF ReaderStep, ProcessorStep, WriterStep, AbortConnection, ReaderFails, JoinErred, WriteFails, Of

\* Every step of the reader, processor, writer, tasks and executions keeps the
\* invariant: one lemma per action and part, put together.
LEMMA NextInv ==
    ASSUME Inv, [Next]_vars
    PROVE  Inv'
<1>1. CASE Shutdown \/ ServerReturns \/ UNCHANGED vars
  BY <1>1, ServerCore, Zenon DEF Inv, Core
<1>2. ASSUME NEW c \in Conns, ReaderStep(c) \/ ProcessorStep(c) \/ WriterStep(c) \/ AbortConnection(c)
      PROVE  Inv'
  <2>1. Core'
    BY <1>2, ConnectionSteps, RequestCore, ConnectionCore, Zenon DEF Inv, Core
  <2>2. CacheInv'
    BY <1>2, ConnectionCache, Zenon DEF Inv, AbortConnection
  <2>3. BudgetInv'
    BY <1>2, BudgetNext, Zenon DEF Inv, ChargeInv, Next
  <2> QED BY <2>1, <2>2, <2>3, Zenon DEF Inv, Core
<1>3. ASSUME NEW r \in Reqs, TaskStep(r)
      PROVE  Inv'
  <2>1. Core'
    BY <1>3, TaskMoves, RequestCore, Zenon DEF Inv, Core
  <2>2. CacheInv'
    BY <1>3, TaskCache, Zenon DEF Inv
  <2>3. BudgetInv'
    BY <1>3, BudgetNext, Zenon DEF Inv, ChargeInv, Next
  <2> QED BY <2>1, <2>2, <2>3, Zenon DEF Inv, Core
<1>4. ASSUME NEW r \in Reqs, ExecutionStep(r)
      PROVE  Inv'
  <2>1. Core'
    BY <1>4, RequestCore, Zenon DEF Inv, Core, ExecutionStep, ExecutionCompletes, ExecutionFails
  <2>2. CacheInv'
    BY <1>4, ExecutionCache, Zenon DEF Inv
  <2>3. BudgetInv'
    BY <1>4, BudgetNext, Zenon DEF Inv, ChargeInv, Next
  <2> QED BY <2>1, <2>2, <2>3, Zenon DEF Inv, Core
<1> QED BY <1>1, <1>2, <1>3, <1>4, Zenon DEF Next

\* A connection starts with empty queues and no charges, which satisfies the
\* invariant.
LEMMA InitInv ==
    ASSUME Init
    PROVE  Inv
<1>1. ChargeInv
  BY Zenon DEF Init, ChargeInv, RequestTyped, TaskStates, ChargeOf, RecordHeld, ReplyHeld, Spawned, InWriter
<1>2. BudgetInv
  BY FS_EmptySet, ConnectionConstants DEF Init, BudgetInv
<1>3. QueueInv
  BY ConnectionConstants DEF Init, QueueInv, QueueOf, Of
<1>4. CacheInv
  BY Zenon DEF Init, CacheInv, CacheTyped, SlotInv, LeaseAt, Replay!Init, Replay!Stages
<1>5. EndInv
  BY ConnectionConstants, Zenon DEF Init, EndInv, ConnTyped, EndAt, Arriving
<1> QED BY <1>1, <1>2, <1>3, <1>4, <1>5, Zenon DEF Inv

\* The pipeline of connections keeps its invariant: the charges of each request,
\* the queues, the leases of the replay cache and the ends of connections.
THEOREM Invariance == Spec => []Inv
<1>1. Init => Inv
  BY InitInv, Zenon
<1>2. Inv /\ [Next]_vars => Inv'
  BY NextInv, Zenon
<1> QED BY <1>1, <1>2, PTL DEF Spec

\* For any number of connections and requests and any budgets: a request is charged
\* exactly as long as its record, its reply or its execution exists, whatever times
\* out or is torn down, but for the records that dispatch_record still holds when
\* their execution is over, which are charged as replies; and no budget is exceeded.
THEOREM BytesAreCharged == Spec => []ChargesFollowBytes
<1>1. ASSUME Inv PROVE ChargesFollowBytes
  <2>1. TypeOK
    <3>1. \A c \in Conns : /\ Len(request_queue[c]) <= MaxRequestsPerConnection
                           /\ Len(reply_queue[c]) <= MaxRequestsPerConnection
      BY <1>1, Zenon DEF Inv, QueueInv, QueueOf
    <3> QED BY <1>1, <3>1, Zenon DEF TypeOK, Inv, ChargeInv, RequestTyped, QueueInv, BudgetInv, CacheInv, CacheTyped,
                             EndInv, ConnTyped
  <2>2. \A r \in Reqs : ChargeOf(r)
    BY <1>1, Zenon DEF Inv, ChargeInv
  <2>3. request_buffers \subseteq Reqs /\ reply_buffers \subseteq Reqs /\ requests \subseteq Reqs
    BY <1>1, Zenon DEF Inv, ChargeInv, RequestTyped
  <2>4. request_buffers = Records \ Outlived
    BY <2>2, <2>3, Zenon DEF Records, Outlived, ChargeOf, RecordHeld, Arriving
  <2>5. Outlived \subseteq reply_buffers
    BY <2>2, Zenon DEF Outlived, ChargeOf, ReplyHeld, Spawned
  <2> QED BY <2>1, <2>2, <2>3, <2>4, <2>5, Zenon DEF ChargesFollowBytes, ChargeOf, ReplyHeld, InWriter
<1> QED BY <1>1, Invariance, PTL

\* Every lease of the replay cache has a task or an execution that will end it, and
\* every waiter a task, in every state.
THEOREM LeasesAreOwned == Spec => []LeaseHasOwner
<1>1. Inv => LeaseHasOwner
  BY Zenon DEF Inv, CacheInv, LeaseAt, LeaseHasOwner
<1> QED BY <1>1, Invariance, PTL

\* A connection that closes without an error has written the reply of every request
\* that it queued.
THEOREM ClosedIsAnswered == Spec => []CleanCloseAnswersAll
<1>1. Inv => CleanCloseAnswersAll
  BY Zenon DEF Inv, EndInv, EndAt, CleanCloseAnswersAll
<1> QED BY <1>1, Invariance, PTL

\* Two executions of one call never run together, unless its key was reused meanwhile.
THEOREM RepeatsRunApart == Spec => []RepeatsNeverRunTogether
<1>1. ASSUME Inv PROVE RepeatsNeverRunTogether
  <2> SUFFICES ASSUME NEW r \in Reqs, NEW s \in Reqs, r # s, exec[r] = "running", exec[s] = "running",
                      XidOf[r] = XidOf[s], ArgsOf[r] = ArgsOf[s]
               PROVE  Reused(r)
    BY Zenon DEF RepeatsNeverRunTogether, Reused
  <2>1. stage[r] = "executing" /\ stage[s] = "executing"
    BY <1>1, Zenon DEF Inv, CacheInv, LeaseAt
  <2>2. Leads(slot[XidOf[r]], r) \/ Reused(r)
    BY <1>1, <2>1, Zenon DEF Inv, CacheInv, SlotInv
  <2>3. Leads(slot[XidOf[s]], s) \/ Reused(s)
    BY <1>1, <2>1, Zenon DEF Inv, CacheInv, SlotInv
  <2> QED BY <2>2, <2>3, Zenon DEF Leads, Reused
<1> QED BY <1>1, Invariance, PTL
=============================================================================
