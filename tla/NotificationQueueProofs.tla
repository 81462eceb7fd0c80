----------------------- MODULE NotificationQueueProofs -----------------------
(***************************************************************************)
(* Theorems about NotificationQueue, for every set of contents, processes, *)
(* flushes and administrators, every number of attempts from two on, every *)
(* batch size and any number of mishaps.                                   *)
(***************************************************************************)
EXTENDS NotificationQueue, SequenceTheorems, FiniteSetTheorems, TLAPS

(***************************************************************************)
(* Types.                                                                  *)
(***************************************************************************)
Retried == {j \in Waiting : j.attempts > 0}
Dead == {j \in Job : j.attempts > MaxAttempts}

\* What one call of processQueueBatch may be at.
BatchOK(b) ==
    \/ b = NoBatch
    \/ /\ DOMAIN b = {"pc", "left", "job"}
       /\ b.left \in 0 .. BatchSize
       /\ \/ b.pc = "pop"
          \/ b.pc = "save" /\ b.job \in Waiting
          \/ b.pc = "retry" /\ b.job \in Waiting /\ b.job.attempts > 0
          \/ b.pc = "dead" /\ b.job \in Job /\ b.job.attempts > MaxAttempts

LEMMA TypeParts ==
    TypeOK <=>
        /\ queue \in Seq(Waiting)
        /\ retry \in SUBSET Retried
        /\ due \in SUBSET retry
        /\ dlq \in Seq(Dead)
        /\ stored \in [Contents -> Nat]
        /\ enqueued \in [Contents -> Nat]
        /\ DOMAIN batch = Processes
        /\ \A p \in Processes : BatchOK(batch[p])
        /\ flush \in [Flushes -> [todo : SUBSET Retried, pushed : SUBSET Retried]]
        /\ hand \in [Admins -> SUBSET Dead]
        /\ mishaps \in Nat
        /\ spoiled \in SUBSET Contents
  BY DEF TypeOK, BatchOK, Retried, Dead

LEMMA JobFacts ==
    /\ \A c \in Contents : [content |-> c, attempts |-> 0] \in Waiting
    /\ Waiting \subseteq Job
    /\ \A j \in Dead : j \in Job /\ j.content \in Contents
    /\ \A j \in Waiting : j.content \in Contents /\ j.attempts \in 0 .. MaxAttempts
    /\ \A j \in Dead : ResetJobAttempts(j) \in Waiting
                       /\ ResetJobAttempts(j).content = j.content
                       /\ ResetJobAttempts(j).attempts = 0
  BY AttemptsAssumption DEF Waiting, Job, Dead, ResetJobAttempts

\* What a batch is at after one of its steps.
LEMMA BatchMoves ==
    ASSUME TypeOK, NEW p \in Processes, NEW b, batch' = [batch EXCEPT ![p] = b]
    PROVE  /\ DOMAIN batch' = Processes
           /\ batch'[p] = b
           /\ \A q \in Processes \ {p} : batch'[q] = batch[q]
  BY DEF TypeOK

LEMMA BatchGotoMoves ==
    ASSUME TypeOK, NEW p \in Processes, batch[p] # NoBatch, NEW pc, BatchGoto(p, pc)
    PROVE  /\ DOMAIN batch' = Processes
           /\ batch'[p].pc = pc
           /\ batch'[p].left = batch[p].left
           /\ batch'[p].job = batch[p].job
           /\ DOMAIN batch'[p] = {"pc", "left", "job"}
           /\ \A q \in Processes \ {p} : batch'[q] = batch[q]
  <1>1. PICK b : b = [batch[p] EXCEPT !.pc = pc]
    OBVIOUS
  <1>2. batch' = [batch EXCEPT ![p] = b]
    BY <1>1 DEF BatchGoto
  <1>3. DOMAIN batch[p] = {"pc", "left", "job"}
    BY DEF TypeOK
  <1> QED
    BY <1>1, <1>2, <1>3, BatchMoves

\* A save that fails: the job goes on with one attempt more.
FailedWith(p, attempts) ==
    batch' = [batch EXCEPT ![p].pc = AfterFailure(attempts), ![p].job.attempts = attempts]

LEMMA FailureMoves ==
    ASSUME TypeOK, NEW p \in Processes, BatchAt(p, "save"),
           FailedWith(p, batch[p].job.attempts + 1)
    PROVE  /\ DOMAIN batch' = Processes
           /\ \A q \in Processes \ {p} : batch'[q] = batch[q]
           /\ batch[p].job \in Waiting
           /\ batch'[p].job \in Job
           /\ batch'[p].job.content = batch[p].job.content
           /\ batch'[p].job.attempts = batch[p].job.attempts + 1
           /\ batch'[p].pc = AfterFailure(batch[p].job.attempts + 1)
           /\ BatchOK(batch'[p])
  <1>1. /\ DOMAIN batch[p] = {"pc", "left", "job"}
        /\ batch[p].left \in 0 .. BatchSize
        /\ batch[p].job \in Waiting
    BY DEF TypeOK, BatchAt, NoBatch
  <1>2. PICK n \in Nat : n = batch[p].job.attempts + 1
    BY <1>1, JobFacts
  <1>3. PICK j : j = [batch[p].job EXCEPT !.attempts = n]
    OBVIOUS
  <1>4. PICK b : b = [[batch[p] EXCEPT !.pc = AfterFailure(n)] EXCEPT !.job = j]
    OBVIOUS
  <1>5. n \in 1 .. MaxAttempts + 1
    BY <1>1, <1>2, AttemptsAssumption DEF Waiting
  <1>6. j \in Job /\ j.content = batch[p].job.content /\ j.attempts = n
    BY <1>1, <1>3, <1>5, AttemptsAssumption DEF Waiting, Job
  <1>7. n <= MaxAttempts => j \in Waiting
    BY <1>5, <1>6, AttemptsAssumption DEF Waiting, Job
  <1>8. /\ DOMAIN b = {"pc", "left", "job"} /\ b.pc = AfterFailure(n) /\ b.job = j
        /\ b.left = batch[p].left
    BY <1>1, <1>4
  <1>9. batch' = [batch EXCEPT ![p] = b]
    BY <1>1, <1>2, <1>3, <1>4 DEF FailedWith
  <1>10. BatchOK(b)
    BY <1>1, <1>5, <1>6, <1>7, <1>8, AttemptsAssumption DEF BatchOK, AfterFailure
  <1> QED
    BY <1>1, <1>2, <1>6, <1>8, <1>9, <1>10, BatchMoves

\* What is spoiled stays so.
LEMMA SpoiledStep ==
    ASSUME TypeOK, [Next]_vars
    PROVE  mishaps' \in Nat /\ spoiled' \in SUBSET Contents /\ spoiled \subseteq spoiled'
  <1>t. /\ mishaps \in Nat /\ spoiled \in SUBSET Contents
        /\ retry \in SUBSET Retried /\ due \in SUBSET retry /\ hand \in [Admins -> SUBSET Dead]
        /\ flush \in [Flushes -> [todo : SUBSET Retried, pushed : SUBSET Retried]]
        /\ \A p \in Processes : BatchOK(batch[p])
    BY TypeParts
  <1>r. \A j \in Retried \union Dead \union Waiting : j.content \in Contents
    BY JobFacts DEF Retried
  <1>1. ASSUME NEW cs, Mishap(cs), cs \subseteq Contents
        PROVE  mishaps' \in Nat /\ spoiled' \in SUBSET Contents /\ spoiled \subseteq spoiled'
    BY <1>t, <1>1 DEF Mishap
  <1>2. ASSUME UNCHANGED <<mishaps, spoiled>>
        PROVE  mishaps' \in Nat /\ spoiled' \in SUBSET Contents /\ spoiled \subseteq spoiled'
    BY <1>t, <1>2
  <1>b. \A p \in Processes : InJob(p) => batch[p].job.content \in Contents
    BY <1>r, <1>t DEF InJob, BatchOK, NoBatch, Dead
  <1>3. ASSUME NEW p \in Processes, ProcessBatch(p), ~SaveUnanswered(p)
        PROVE  UNCHANGED <<mishaps, spoiled>>
    BY <1>3
       DEF ProcessBatch, StartBatch, EndBatch, PopJob, SaveNotification, SaveFails, AddRetry,
           AddDeadLetter
  <1>4. ASSUME NEW p \in Processes, SaveUnanswered(p)
        PROVE  Mishap({batch[p].job.content}) /\ {batch[p].job.content} \subseteq Contents
    BY <1>b, <1>4 DEF SaveUnanswered, BatchAt, InJob
  <1>5. ASSUME NEW f \in Flushes, StartFlush(f)
        PROVE  UNCHANGED <<mishaps, spoiled>> \/ (Mishap(Overlap) /\ Overlap \subseteq Contents)
    BY <1>r, <1>t, <1>5 DEF StartFlush, Overlap, ContentsOf
  <1>6. ASSUME NEW f \in Flushes, FlushRetryJobs(f), ~StartFlush(f)
        PROVE  UNCHANGED <<mishaps, spoiled>>
    BY <1>6 DEF FlushRetryJobs, PushDue, RemoveDue
  <1>7. ASSUME NEW a \in Admins, RetryDeadLetterJobs(a)
        PROVE  UNCHANGED <<mishaps, spoiled>>
    BY <1>7 DEF RetryDeadLetterJobs, PopDeadLetter, PushDeadLetter
  <1>8. CASE Crash
    <2>1. ASSUME NEW p \in Processes, BatchDies(p)
          PROVE  \E cs : Mishap(cs) /\ cs \subseteq Contents
      BY <1>b, <2>1 DEF BatchDies
    <2>2. ASSUME NEW f \in Flushes, FlushDies(f)
          PROVE  \E cs : Mishap(cs) /\ cs \subseteq Contents
      <3>1. ContentsOf(flush[f].todo) \subseteq Contents
        BY <1>r, <1>t DEF ContentsOf
      <3> QED
        BY <2>2, <3>1 DEF FlushDies
    <2>3. ASSUME NEW a \in Admins, RetryDies(a)
          PROVE  \E cs : Mishap(cs) /\ cs \subseteq Contents
      <3>1. ContentsOf(hand[a]) \subseteq Contents
        BY <1>r, <1>t DEF ContentsOf
      <3> QED
        BY <2>3, <3>1 DEF RetryDies
    <2> QED
      BY <1>1, <1>8, <2>1, <2>2, <2>3 DEF Crash
  <1> QED
    BY <1>1, <1>2, <1>3, <1>4, <1>5, <1>6, <1>7, <1>8 DEF Next, EnqueueDelivery, Elapse, vars

LEMMA TypeStep == TypeOK /\ [Next]_vars => TypeOK'
  <1> SUFFICES ASSUME TypeOK, [Next]_vars
               PROVE  TypeOK'
    OBVIOUS
  <1>t. /\ queue \in Seq(Waiting)
        /\ retry \in SUBSET Retried
        /\ due \in SUBSET retry
        /\ dlq \in Seq(Dead)
        /\ stored \in [Contents -> Nat]
        /\ enqueued \in [Contents -> Nat]
        /\ DOMAIN batch = Processes
        /\ \A p \in Processes : BatchOK(batch[p])
        /\ flush \in [Flushes -> [todo : SUBSET Retried, pushed : SUBSET Retried]]
        /\ hand \in [Admins -> SUBSET Dead]
    BY TypeParts
  <1>p. TypeOK' <=>
                    (/\ queue \in Seq(Waiting)
                     /\ retry \in SUBSET Retried
                     /\ due \in SUBSET retry
                     /\ dlq \in Seq(Dead)
                     /\ stored \in [Contents -> Nat]
                     /\ enqueued \in [Contents -> Nat]
                     /\ DOMAIN batch = Processes
                     /\ \A p \in Processes : BatchOK(batch[p])
                     /\ flush \in [Flushes -> [todo : SUBSET Retried, pushed : SUBSET Retried]]
                     /\ hand \in [Admins -> SUBSET Dead])'
    BY SpoiledStep DEF TypeOK, BatchOK, Retried, Dead
  <1>b. ASSUME NEW p \in Processes, DOMAIN batch' = Processes, BatchOK(batch'[p]),
               \A q \in Processes \ {p} : batch'[q] = batch[q]
        PROVE  \A q \in Processes : BatchOK(batch'[q])
    BY <1>t, <1>b
  <1>1. ASSUME NEW c \in Contents, EnqueueDelivery(c)
        PROVE  TypeOK'
    <2>1. queue' \in Seq(Waiting)
      BY <1>t, <1>1, JobFacts, AppendProperties DEF EnqueueDelivery
    <2>2. enqueued' \in [Contents -> Nat]
      BY <1>t, <1>1 DEF EnqueueDelivery
    <2> QED
      BY <1>t, <1>p, <1>1, <2>1, <2>2 DEF EnqueueDelivery, taskVars
  <1>2. ASSUME NEW j \in Job, Elapse(j)
        PROVE  TypeOK'
    BY <1>t, <1>p, <1>2 DEF Elapse, taskVars
  <1>3. ASSUME NEW p \in Processes, ProcessBatch(p)
        PROVE  TypeOK'
    <2>0. BatchOK(batch[p])
      BY <1>t
    <2>1. CASE StartBatch(p)
      <3>1. PICK b : b = [NoBatch EXCEPT !.pc = "pop", !.left = BatchSize]
        OBVIOUS
      <3>2. BatchOK(b)
        BY <3>1, BatchAssumption DEF BatchOK, NoBatch
      <3>3. DOMAIN batch' = Processes /\ \A q \in Processes : BatchOK(batch'[q])
        BY <1>b, <2>1, <3>1, <3>2, BatchMoves DEF StartBatch
      <3> QED
        BY <1>t, <1>p, <2>1, <3>3 DEF StartBatch, queueVars
    <2>2. CASE EndBatch(p)
      <3>1. DOMAIN batch' = Processes /\ \A q \in Processes : BatchOK(batch'[q])
        BY <1>b, <2>2, BatchMoves DEF EndBatch, BatchOK
      <3> QED
        BY <1>t, <1>p, <2>2, <3>1 DEF EndBatch, queueVars
    <2>3. CASE PopJob(p)
      <3>1. PICK b : b = [pc |-> "save", left |-> batch[p].left - 1, job |-> Head(queue)]
        OBVIOUS
      <3>2. /\ Head(queue) \in Waiting /\ Tail(queue) \in Seq(Waiting)
            /\ batch[p].left \in 1 .. BatchSize
        BY <1>t, <2>3, HeadTailProperties DEF PopJob, BatchAt, BatchOK, NoBatch
      <3>3. BatchOK(b)
        BY <3>1, <3>2, BatchAssumption DEF BatchOK
      <3>4. DOMAIN batch' = Processes /\ \A q \in Processes : BatchOK(batch'[q])
        BY <1>b, <2>3, <3>1, <3>3, BatchMoves DEF PopJob
      <3> QED
        BY <1>t, <1>p, <2>3, <3>2, <3>4 DEF PopJob
    <2>4. CASE SaveNotification(p) \/ AddRetry(p) \/ AddDeadLetter(p)
      <3>1. batch[p] # NoBatch /\ BatchGoto(p, "pop")
        BY <2>4 DEF SaveNotification, AddRetry, AddDeadLetter, BatchAt, NoBatch
      <3>2. BatchOK(batch'[p])
        BY <1>t, <3>1, BatchGotoMoves DEF BatchOK
      <3>3. DOMAIN batch' = Processes /\ \A q \in Processes : BatchOK(batch'[q])
        BY <1>b, <3>1, <3>2, BatchGotoMoves
      <3>4. CASE SaveNotification(p)
        <4>1. stored' \in [Contents -> Nat]
          <5>1. batch[p].job.content \in Contents
            BY <2>0, <3>4, JobFacts DEF SaveNotification, BatchAt, BatchOK, NoBatch
          <5> QED
            BY <1>t, <3>4, <5>1 DEF SaveNotification
        <4> QED
          BY <1>t, <1>p, <3>3, <3>4, <4>1 DEF SaveNotification, queueVars
      <3>5. CASE AddRetry(p)
        <4>1. batch[p].job \in Retried
          BY <2>0, <3>5 DEF AddRetry, BatchAt, BatchOK, NoBatch, Retried
        <4>2. retry' \in SUBSET Retried /\ due' \in SUBSET retry'
          BY <1>t, <3>5, <4>1 DEF AddRetry
        <4> QED
          BY <1>t, <1>p, <3>3, <3>5, <4>2 DEF AddRetry
      <3>6. CASE AddDeadLetter(p)
        <4>1. batch[p].job \in Dead
          BY <2>0, <3>6 DEF AddDeadLetter, BatchAt, BatchOK, NoBatch, Dead
        <4>2. dlq' \in Seq(Dead)
          BY <1>t, <3>6, <4>1, AppendProperties DEF AddDeadLetter
        <4> QED
          BY <1>t, <1>p, <3>3, <3>6, <4>2 DEF AddDeadLetter
      <3> QED
        BY <2>4, <3>4, <3>5, <3>6
    <2>5. CASE SaveFails(p) \/ SaveUnanswered(p)
      <3>1. BatchAt(p, "save") /\ FailedWith(p, batch[p].job.attempts + 1)
        BY <2>5 DEF SaveFails, SaveUnanswered, FailedWith
      <3>2. DOMAIN batch' = Processes /\ \A q \in Processes : BatchOK(batch'[q])
        BY <1>b, <3>1, FailureMoves
      <3>3. stored' \in [Contents -> Nat]
        <4>1. batch[p].job.content \in Contents
          BY <3>1, FailureMoves, JobFacts
        <4>2. CASE SaveFails(p)
          BY <1>t, <4>2 DEF SaveFails
        <4>3. CASE SaveUnanswered(p)
          <5>1. PICK c \in Contents : c = batch[p].job.content
            BY <4>1
          <5>2. stored' = [stored EXCEPT ![c] = @ + 1]
            BY <4>3, <5>1 DEF SaveUnanswered
          <5> QED
            BY <1>t, <5>1, <5>2
        <4> QED
          BY <2>5, <4>2, <4>3
      <3> QED
        BY <1>t, <1>p, <2>5, <3>2, <3>3 DEF SaveFails, SaveUnanswered, queueVars
    <2> QED
      BY <1>3, <2>1, <2>2, <2>3, <2>4, <2>5 DEF ProcessBatch
  <1>4. ASSUME NEW f \in Flushes, FlushRetryJobs(f)
        PROVE  TypeOK'
    <2>1. CASE StartFlush(f)
      <3>1. flush' \in [Flushes -> [todo : SUBSET Retried, pushed : SUBSET Retried]]
        BY <1>t, <2>1 DEF StartFlush
      <3> QED
        BY <1>t, <1>p, <2>1, <3>1 DEF StartFlush, queueVars
    <2>2. ASSUME NEW j \in Job, PushDue(f, j)
          PROVE  TypeOK'
      <3>1. j \in Retried
        BY <1>t, <2>2 DEF PushDue
      <3>2. queue' \in Seq(Waiting)
        BY <1>t, <2>2, <3>1, AppendProperties DEF PushDue, Retried
      <3>3. flush' \in [Flushes -> [todo : SUBSET Retried, pushed : SUBSET Retried]]
        BY <1>t, <2>2, <3>1 DEF PushDue
      <3> QED
        BY <1>t, <1>p, <2>2, <3>2, <3>3 DEF PushDue
    <2>3. ASSUME NEW j \in Job, RemoveDue(f, j)
          PROVE  TypeOK'
      <3>1. flush' \in [Flushes -> [todo : SUBSET Retried, pushed : SUBSET Retried]]
        BY <1>t, <2>3 DEF RemoveDue
      <3>2. retry' \in SUBSET Retried /\ due' \in SUBSET retry'
        BY <1>t, <2>3 DEF RemoveDue
      <3> QED
        BY <1>t, <1>p, <2>3, <3>1, <3>2 DEF RemoveDue
    <2> QED
      BY <1>4, <2>1, <2>2, <2>3 DEF FlushRetryJobs
  <1>5. ASSUME NEW a \in Admins, RetryDeadLetterJobs(a)
        PROVE  TypeOK'
    <2>1. CASE PopDeadLetter(a)
      <3>1. Head(dlq) \in Dead /\ dlq' \in Seq(Dead)
        BY <1>t, <2>1, HeadTailProperties DEF PopDeadLetter
      <3>2. hand' \in [Admins -> SUBSET Dead]
        BY <1>t, <2>1, <3>1 DEF PopDeadLetter
      <3> QED
        BY <1>t, <1>p, <2>1, <3>1, <3>2 DEF PopDeadLetter
    <2>2. ASSUME NEW j \in Job, PushDeadLetter(a, j)
          PROVE  TypeOK'
      <3>1. ResetJobAttempts(j) \in Waiting
        BY <1>t, <2>2, JobFacts DEF PushDeadLetter
      <3>2. queue' \in Seq(Waiting)
        BY <1>t, <2>2, <3>1, AppendProperties DEF PushDeadLetter
      <3>3. hand' \in [Admins -> SUBSET Dead]
        BY <1>t, <2>2 DEF PushDeadLetter
      <3> QED
        BY <1>t, <1>p, <2>2, <3>2, <3>3 DEF PushDeadLetter
    <2> QED
      BY <1>5, <2>1, <2>2 DEF RetryDeadLetterJobs
  <1>6. CASE Crash
    <2>1. ASSUME NEW p \in Processes, BatchDies(p)
          PROVE  TypeOK'
      <3>1. batch' = [batch EXCEPT ![p] = NoBatch]
        BY <2>1 DEF BatchDies
      <3>2. DOMAIN batch' = Processes /\ \A q \in Processes : BatchOK(batch'[q])
        BY <1>b, <3>1, BatchMoves DEF BatchOK
      <3> QED
        BY <1>t, <1>p, <2>1, <3>2 DEF BatchDies, queueVars
    <2>2. ASSUME NEW f \in Flushes, FlushDies(f)
          PROVE  TypeOK'
      <3>1. flush' \in [Flushes -> [todo : SUBSET Retried, pushed : SUBSET Retried]]
        BY <1>t, <2>2 DEF FlushDies, NoFlush
      <3> QED
        BY <1>t, <1>p, <2>2, <3>1 DEF FlushDies, queueVars
    <2>3. ASSUME NEW a \in Admins, RetryDies(a)
          PROVE  TypeOK'
      <3>1. hand' \in [Admins -> SUBSET Dead]
        BY <1>t, <2>3 DEF RetryDies
      <3> QED
        BY <1>t, <1>p, <2>3, <3>1 DEF RetryDies, queueVars
    <2> QED
      BY <1>6, <2>1, <2>2, <2>3 DEF Crash
  <1>7. CASE UNCHANGED vars
    BY <1>t, <1>p, <1>7 DEF vars, queueVars, taskVars
  <1> QED
    BY <1>1, <1>2, <1>3, <1>4, <1>5, <1>6, <1>7 DEF Next

\* Every variable has its type; what waits in the queue or in the retry set has
\* attempts left, what is dead has used them up, however calls overlap or die.
THEOREM TypeCorrect == Spec => []TypeOK
  <1>1. Init => TypeOK
    BY EmptySeq, AttemptsAssumption DEF Init, TypeOK, NoFlush
  <1> QED
    BY <1>1, TypeStep, PTL DEF Spec

-----------------------------------------------------------------------------
(***************************************************************************)
(* Where the copies of the jobs are: a copy is a place and a job.  "set"   *)
(* is the retry set; a batch holds a job at the step it is about to take.  *)
(***************************************************************************)
Elements(s) == {s[i] : i \in 1 .. Len(s)}

LEMMA ElementsAppend ==
    ASSUME NEW S, NEW s \in Seq(S), NEW e \in S
    PROVE  Elements(Append(s, e)) = Elements(s) \union {e}
  <1>1. Len(s) \in Nat
    BY LenProperties
  <1>2. /\ Len(Append(s, e)) = Len(s) + 1
        /\ \A i \in 1 .. Len(s) : Append(s, e)[i] = s[i]
        /\ Append(s, e)[Len(s) + 1] = e
    BY AppendProperties
  <1>3. 1 .. Len(s) + 1 = (1 .. Len(s)) \union {Len(s) + 1}
    BY <1>1
  <1> QED
    BY <1>2, <1>3 DEF Elements

LEMMA ElementsTail ==
    ASSUME NEW S, NEW s \in Seq(S), s # <<>>
    PROVE  Elements(s) = {Head(s)} \union Elements(Tail(s))
  <1>1. Len(s) \in Nat \ {0}
    BY EmptySeq
  <1>2. Head(s) = s[1]
    BY <1>1, HeadTailOfSubSeq, SubSeqFull
  <1>3. Len(Tail(s)) = Len(s) - 1 /\ \A i \in 1 .. Len(Tail(s)) : Tail(s)[i] = s[i + 1]
    BY HeadTailProperties
  <1>4. ASSUME NEW i \in 1 .. Len(s)
        PROVE  s[i] = Head(s) \/ s[i] \in Elements(Tail(s))
    <2>1. CASE i = 1
      BY <1>2, <2>1
    <2>2. CASE i # 1
      <3>1. i - 1 \in 1 .. Len(Tail(s)) /\ i - 1 + 1 = i
        BY <1>1, <1>3, <2>2
      <3>2. Tail(s)[i - 1] = s[i]
        BY <1>3, <3>1
      <3> QED
        BY <3>1, <3>2 DEF Elements
    <2> QED
      BY <2>1, <2>2
  <1>5. ASSUME NEW i \in 1 .. Len(Tail(s))
        PROVE  Tail(s)[i] \in Elements(s)
    <2>1. i + 1 \in 1 .. Len(s) /\ Tail(s)[i] = s[i + 1]
      BY <1>1, <1>3
    <2> QED
      BY <2>1 DEF Elements
  <1>6. Head(s) \in Elements(s)
    BY <1>1, <1>2 DEF Elements
  <1> QED
    BY <1>4, <1>5, <1>6 DEF Elements

Calls == {"save", "retry", "dead"}
BatchCopies == {<<batch[p].pc, batch[p].job>> : p \in {q \in Processes : batch[q].pc \in Calls}}

Copies ==
    ({"queue"} \X Elements(queue)) \union ({"dlq"} \X Elements(dlq)) \union ({"set"} \X retry)
        \union BatchCopies \union ({"hand"} \X UNION {hand[a] : a \in Admins})

\* How a copy moves.
Raised(j) == [content |-> j.content, attempts |-> j.attempts + 1]

Moves(q, r) ==
    \/ q[1] = "queue" /\ r = <<"save", q[2]>>
    \/ q[1] = "save" /\ r[2] = Raised(q[2]) /\ r[1] = AfterFailure(r[2].attempts)
    \/ q[1] = "retry" /\ r = <<"set", q[2]>>
    \/ q[1] = "dead" /\ r = <<"dlq", q[2]>>
    \/ q[1] = "dlq" /\ r = <<"hand", q[2]>>
    \/ q[1] = "hand" /\ r = <<"queue", ResetJobAttempts(q[2])>>

\* An administrator's call has taken one job.
OneInHand == \A a \in Admins : \A i, j \in hand[a] : i = j

LEMMA HandKept == TypeOK /\ OneInHand /\ [Next]_vars => OneInHand'
  <1> SUFFICES ASSUME TypeOK, OneInHand, [Next]_vars
               PROVE  OneInHand'
    OBVIOUS
  <1>h. DOMAIN hand = Admins
    BY DEF TypeOK
  <1>1. ASSUME NEW a \in Admins, NEW h, hand' = [hand EXCEPT ![a] = h], \A i, j \in h : i = j
        PROVE  OneInHand'
    BY <1>h, <1>1 DEF OneInHand
  <1>2. ASSUME NEW a \in Admins, RetryDeadLetterJobs(a)
        PROVE  OneInHand'
    <2>1. CASE PopDeadLetter(a)
      BY <1>1, <2>1 DEF PopDeadLetter
    <2>2. ASSUME NEW j \in Job, PushDeadLetter(a, j)
          PROVE  OneInHand'
      BY <1>1, <2>2 DEF PushDeadLetter
    <2> QED
      BY <1>2, <2>1, <2>2 DEF RetryDeadLetterJobs
  <1>3. ASSUME UNCHANGED hand
        PROVE  OneInHand'
    BY <1>3 DEF OneInHand
  <1>4. CASE Crash
    <2>1. ASSUME NEW a \in Admins, RetryDies(a)
          PROVE  OneInHand'
      BY <1>1, <2>1 DEF RetryDies
    <2> QED
      BY <1>3, <1>4, <2>1 DEF Crash, BatchDies, FlushDies
  <1>5. ASSUME NEW p \in Processes, ProcessBatch(p)
        PROVE  UNCHANGED hand
    BY <1>5
       DEF ProcessBatch, StartBatch, EndBatch, PopJob, SaveNotification, SaveFails, SaveUnanswered,
           AddRetry, AddDeadLetter
  <1>6. ASSUME NEW f \in Flushes, FlushRetryJobs(f)
        PROVE  UNCHANGED hand
    BY <1>6 DEF FlushRetryJobs, StartFlush, PushDue, RemoveDue
  <1> QED
    BY <1>2, <1>3, <1>4, <1>5, <1>6 DEF Next, EnqueueDelivery, Elapse, vars, taskVars

LEMMA CopyIn ==
    ASSUME TypeOK, NEW q \in Copies
    PROVE  /\ q = <<q[1], q[2]>>
           /\ q[1] \in {"queue", "dlq", "set", "hand"} \union Calls
           /\ q[2] \in Job
           /\ q[1] \in {"queue", "save"} => q[2] \in Waiting
  <1>1. CASE q \in {"queue"} \X Elements(queue)
    BY <1>1, JobFacts, ElementOfSeq DEF TypeOK, Elements
  <1>2. CASE q \in {"dlq"} \X Elements(dlq)
    BY <1>2, JobFacts, ElementOfSeq DEF TypeOK, Elements
  <1>3. CASE q \in {"set"} \X retry
    BY <1>3, JobFacts DEF TypeOK
  <1>4. CASE q \in BatchCopies
    <2>1. PICK p \in Processes : batch[p].pc \in Calls /\ q = <<batch[p].pc, batch[p].job>>
      BY <1>4 DEF BatchCopies
    <2>2. BatchOK(batch[p])
      BY TypeParts
    <2> QED
      BY <2>1, <2>2, JobFacts DEF BatchOK, NoBatch, Calls
  <1>5. CASE q \in {"hand"} \X UNION {hand[a] : a \in Admins}
    BY <1>5 DEF TypeOK
  <1> QED
    BY <1>1, <1>2, <1>3, <1>4, <1>5 DEF Copies

LEMMA BatchCopiesStep ==
    ASSUME NEW p \in Processes, \A q \in Processes \ {p} : batch'[q] = batch[q]
    PROVE  /\ BatchCopies \ {<<batch[p].pc, batch[p].job>>} \subseteq BatchCopies'
           /\ batch[p].pc \notin Calls => BatchCopies \subseteq BatchCopies'
           /\ batch'[p].pc \in Calls => <<batch'[p].pc, batch'[p].job>> \in BatchCopies'
  <1>1. ASSUME NEW q \in Processes, batch[q].pc \in Calls, q # p
        PROVE  <<batch[q].pc, batch[q].job>> \in BatchCopies'
    BY <1>1 DEF BatchCopies
  <1> QED
    BY <1>1 DEF BatchCopies

\* One copy moves on and no other is lost.
OneMoves(q, r) == q \in Copies /\ Moves(q, r) /\ r \in Copies' /\ Copies \ {q} \subseteq Copies'

\* A batch takes a job, or gives it up because it was not stored.
LEMMA BatchMovesCopy ==
    ASSUME TypeOK, NEW p \in Processes,
           PopJob(p) \/ SaveFails(p) \/ AddRetry(p) \/ AddDeadLetter(p)
    PROVE  \E q, r : OneMoves(q, r)
  <1>b. BatchOK(batch[p]) /\ queue \in Seq(Waiting) /\ dlq \in Seq(Dead)
    BY TypeParts
  <1>1. CASE PopJob(p)
    <2>1. PICK b : b = [pc |-> "save", left |-> batch[p].left - 1, job |-> Head(queue)]
      OBVIOUS
    <2>2. batch'[p] = b /\ \A q \in Processes \ {p} : batch'[q] = batch[q]
      BY <1>1, <2>1, BatchMoves DEF PopJob
    <2>3. <<"save", Head(queue)>> \in BatchCopies' /\ BatchCopies \subseteq BatchCopies'
      BY <1>1, <2>1, <2>2, BatchCopiesStep DEF PopJob, BatchAt, Calls
    <2>4. Elements(queue) = {Head(queue)} \union Elements(queue')
      BY <1>1, <1>b, ElementsTail DEF PopJob
    <2>5. UNCHANGED <<dlq, retry, hand>>
      BY <1>1 DEF PopJob
    <2>6. <<"queue", Head(queue)>> \in Copies /\ <<"save", Head(queue)>> \in Copies'
      BY <2>3, <2>4 DEF Copies
    <2>7. Copies \ {<<"queue", Head(queue)>>} \subseteq Copies'
      BY <2>3, <2>4, <2>5 DEF Copies
    <2>8. Moves(<<"queue", Head(queue)>>, <<"save", Head(queue)>>)
      BY DEF Moves
    <2> QED
      BY <2>6, <2>7, <2>8 DEF OneMoves
  <1>2. CASE SaveFails(p)
    <2>1. BatchAt(p, "save") /\ FailedWith(p, batch[p].job.attempts + 1)
      BY <1>2 DEF SaveFails, FailedWith
    <2>2. /\ \A q \in Processes \ {p} : batch'[q] = batch[q]
          /\ batch[p].job \in Waiting
          /\ batch'[p].job \in Job
          /\ batch'[p].job.content = batch[p].job.content
          /\ batch'[p].job.attempts = batch[p].job.attempts + 1
          /\ batch'[p].pc = AfterFailure(batch'[p].job.attempts)
      BY <2>1, FailureMoves
    <2>3. batch'[p].job = Raised(batch[p].job)
      BY <2>2 DEF Job, Raised
    <2>4. batch'[p].pc \in Calls /\ batch[p].pc = "save"
      BY <2>1, <2>2 DEF AfterFailure, Calls, BatchAt
    <2>5. /\ <<"save", batch[p].job>> \in BatchCopies
          /\ <<batch'[p].pc, batch'[p].job>> \in BatchCopies'
          /\ BatchCopies \ {<<"save", batch[p].job>>} \subseteq BatchCopies'
      BY <2>2, <2>4, BatchCopiesStep DEF BatchCopies, Calls
    <2>6. UNCHANGED <<queue, dlq, retry, hand>>
      BY <1>2 DEF SaveFails, queueVars
    <2>7. /\ <<"save", batch[p].job>> \in Copies
          /\ <<batch'[p].pc, batch'[p].job>> \in Copies'
          /\ Copies \ {<<"save", batch[p].job>>} \subseteq Copies'
      BY <2>5, <2>6 DEF Copies
    <2>8. Moves(<<"save", batch[p].job>>, <<batch'[p].pc, batch'[p].job>>)
      BY <2>2, <2>3 DEF Moves
    <2> QED
      BY <2>7, <2>8 DEF OneMoves
  <1>3. CASE AddRetry(p) \/ AddDeadLetter(p)
    <2>1. batch[p].pc \in {"retry", "dead"} /\ batch[p] # NoBatch /\ BatchGoto(p, "pop")
      BY <1>3 DEF AddRetry, AddDeadLetter, BatchAt, NoBatch
    <2>2. \A q \in Processes \ {p} : batch'[q] = batch[q]
      BY <2>1, BatchGotoMoves
    <2>3. /\ <<batch[p].pc, batch[p].job>> \in BatchCopies
          /\ BatchCopies \ {<<batch[p].pc, batch[p].job>>} \subseteq BatchCopies'
      BY <2>1, <2>2, BatchCopiesStep DEF BatchCopies, Calls
    <2>4. CASE AddRetry(p)
      <3>1. /\ UNCHANGED <<queue, dlq, hand>> /\ retry' = retry \union {batch[p].job}
            /\ batch[p].pc = "retry"
        BY <2>4 DEF AddRetry, BatchAt
      <3>2. <<"retry", batch[p].job>> \in Copies /\ <<"set", batch[p].job>> \in Copies'
        BY <2>3, <3>1 DEF Copies
      <3>3. Copies \ {<<"retry", batch[p].job>>} \subseteq Copies'
        BY <2>3, <3>1 DEF Copies
      <3>4. Moves(<<"retry", batch[p].job>>, <<"set", batch[p].job>>)
        BY DEF Moves
      <3> QED
        BY <3>2, <3>3, <3>4 DEF OneMoves
    <2>5. CASE AddDeadLetter(p)
      <3>1. /\ UNCHANGED <<queue, retry, hand>> /\ dlq' = Append(dlq, batch[p].job)
            /\ batch[p].pc = "dead" /\ batch[p].job \in Dead
        BY <1>b, <2>5 DEF AddDeadLetter, BatchAt, BatchOK, NoBatch, Dead
      <3>2. Elements(dlq') = Elements(dlq) \union {batch[p].job}
        BY <1>b, <3>1, ElementsAppend
      <3>3. <<"dead", batch[p].job>> \in Copies /\ <<"dlq", batch[p].job>> \in Copies'
        BY <2>3, <3>1, <3>2 DEF Copies
      <3>4. Copies \ {<<"dead", batch[p].job>>} \subseteq Copies'
        BY <2>3, <3>1, <3>2 DEF Copies
      <3>5. Moves(<<"dead", batch[p].job>>, <<"dlq", batch[p].job>>)
        BY DEF Moves
      <3> QED
        BY <3>3, <3>4, <3>5 DEF OneMoves
    <2> QED
      BY <1>3, <2>4, <2>5
  <1> QED
    BY <1>1, <1>2, <1>3

\* An administrator's call takes a dead letter, or puts it back in the queue.
LEMMA HandMovesCopy ==
    ASSUME TypeOK, OneInHand, NEW a \in Admins, RetryDeadLetterJobs(a)
    PROVE  \E q, r : OneMoves(q, r)
  <1>t. /\ queue \in Seq(Waiting) /\ dlq \in Seq(Dead) /\ hand \in [Admins -> SUBSET Dead]
    BY TypeParts
  <1>1. CASE PopDeadLetter(a)
    <2>1. Elements(dlq) = {Head(dlq)} \union Elements(dlq')
      BY <1>1, <1>t, ElementsTail DEF PopDeadLetter
    <2>2. /\ UNCHANGED <<queue, retry, batch>> /\ hand[a] = {}
          /\ \A b \in Admins : hand'[b] = IF b = a THEN {Head(dlq)} ELSE hand[b]
      BY <1>1, <1>t DEF PopDeadLetter
    <2>3. UNION {hand'[b] : b \in Admins} = {Head(dlq)} \union UNION {hand[b] : b \in Admins}
      BY <2>2
    <2>4. BatchCopies' = BatchCopies
      BY <2>2 DEF BatchCopies
    <2>5. <<"dlq", Head(dlq)>> \in Copies /\ <<"hand", Head(dlq)>> \in Copies'
      BY <2>1, <2>3 DEF Copies
    <2>6. Copies \ {<<"dlq", Head(dlq)>>} \subseteq Copies'
      BY <2>1, <2>2, <2>3, <2>4 DEF Copies
    <2>7. Moves(<<"dlq", Head(dlq)>>, <<"hand", Head(dlq)>>)
      BY DEF Moves
    <2> QED
      BY <2>5, <2>6, <2>7 DEF OneMoves
  <1>2. ASSUME NEW j \in Job, PushDeadLetter(a, j)
        PROVE  \E q, r : OneMoves(q, r)
    <2>1. ResetJobAttempts(j) \in Waiting
      BY <1>2, <1>t, JobFacts DEF PushDeadLetter
    <2>2. Elements(queue') = Elements(queue) \union {ResetJobAttempts(j)}
      BY <1>2, <1>t, <2>1, ElementsAppend DEF PushDeadLetter
    <2>3. /\ UNCHANGED <<dlq, retry, batch>> /\ hand[a] = {j}
          /\ \A b \in Admins : hand'[b] = IF b = a THEN {} ELSE hand[b]
      BY <1>2, <1>t DEF PushDeadLetter, OneInHand
    <2>4. (UNION {hand[b] : b \in Admins}) \ {j} \subseteq UNION {hand'[b] : b \in Admins}
      BY <2>3
    <2>5. BatchCopies' = BatchCopies
      BY <2>3 DEF BatchCopies
    <2>6. <<"hand", j>> \in Copies /\ <<"queue", ResetJobAttempts(j)>> \in Copies'
      BY <2>2, <2>3 DEF Copies
    <2>7. Copies \ {<<"hand", j>>} \subseteq Copies'
      BY <2>2, <2>3, <2>4, <2>5 DEF Copies
    <2>8. Moves(<<"hand", j>>, <<"queue", ResetJobAttempts(j)>>)
      BY DEF Moves
    <2> QED
      BY <2>6, <2>7, <2>8 DEF OneMoves
  <1> QED
    BY <1>1, <1>2 DEF RetryDeadLetterJobs

\* Events and pushes add a copy; nothing is lost where no job is taken.
LEMMA CopiesGrow ==
    ASSUME TypeOK,
           \/ \E c \in Contents : EnqueueDelivery(c)
           \/ \E j \in Job : Elapse(j)
           \/ \E p \in Processes : StartBatch(p) \/ EndBatch(p)
           \/ \E f \in Flushes : StartFlush(f) \/ \E j \in Job : PushDue(f, j)
           \/ UNCHANGED vars
    PROVE  Copies \subseteq Copies'
  <1>t. queue \in Seq(Waiting) /\ flush \in [Flushes -> [todo : SUBSET Retried, pushed : SUBSET Retried]]
    BY TypeParts
  <1>1. ASSUME NEW c \in Contents, EnqueueDelivery(c)
        PROVE  Copies \subseteq Copies'
    <2>1. Elements(queue) \subseteq Elements(queue')
      BY <1>1, <1>t, JobFacts, ElementsAppend DEF EnqueueDelivery
    <2>2. UNCHANGED <<dlq, retry, batch, hand>>
      BY <1>1 DEF EnqueueDelivery, taskVars
    <2> QED
      BY <2>1, <2>2 DEF Copies, BatchCopies
  <1>2. ASSUME NEW p \in Processes, StartBatch(p) \/ EndBatch(p)
        PROVE  Copies \subseteq Copies'
    <2>1. batch[p].pc \notin Calls /\ UNCHANGED <<queue, dlq, retry, hand>>
      BY <1>2 DEF StartBatch, EndBatch, BatchAt, Calls, queueVars
    <2>2. \A q \in Processes \ {p} : batch'[q] = batch[q]
      BY <1>2, BatchMoves DEF StartBatch, EndBatch
    <2>3. BatchCopies \subseteq BatchCopies'
      BY <2>1, <2>2, BatchCopiesStep
    <2> QED
      BY <2>1, <2>3 DEF Copies
  <1>3. ASSUME NEW f \in Flushes, NEW j \in Job, PushDue(f, j)
        PROVE  Copies \subseteq Copies'
    <2>1. j \in Waiting
      BY <1>3, <1>t DEF PushDue, Retried
    <2>2. Elements(queue) \subseteq Elements(queue')
      BY <1>3, <1>t, <2>1, ElementsAppend DEF PushDue
    <2>3. UNCHANGED <<dlq, retry, batch, hand>>
      BY <1>3 DEF PushDue
    <2> QED
      BY <2>2, <2>3 DEF Copies, BatchCopies
  <1>4. CASE \/ \E j \in Job : Elapse(j)
             \/ \E f \in Flushes : StartFlush(f)
             \/ UNCHANGED vars
    BY <1>4 DEF Elapse, StartFlush, vars, queueVars, taskVars, Copies, BatchCopies
  <1> QED
    BY <1>1, <1>2, <1>3, <1>4

\* A job that is stored is the one the batch held.
LEMMA StoredCopy ==
    ASSUME TypeOK, NEW p \in Processes, SaveNotification(p)
    PROVE  \E q \in Copies : Copies \ {q} \subseteq Copies' /\ stored'[q[2].content] > 0
  <1>1. batch[p].pc = "save" /\ batch[p] # NoBatch /\ BatchGoto(p, "pop")
    BY DEF SaveNotification, BatchAt, NoBatch
  <1>2. \A q \in Processes \ {p} : batch'[q] = batch[q]
    BY <1>1, BatchGotoMoves
  <1>3. /\ <<"save", batch[p].job>> \in BatchCopies
        /\ BatchCopies \ {<<"save", batch[p].job>>} \subseteq BatchCopies'
    BY <1>1, <1>2, BatchCopiesStep DEF BatchCopies, Calls
  <1>4. UNCHANGED <<queue, dlq, retry, hand>>
    BY DEF SaveNotification, queueVars
  <1>5. <<"save", batch[p].job>> \in Copies /\ Copies \ {<<"save", batch[p].job>>} \subseteq Copies'
    BY <1>3, <1>4 DEF Copies
  <1>6. batch[p].job \in Waiting /\ stored \in [Contents -> Nat]
    BY <1>1, TypeParts DEF BatchOK
  <1>7. stored'[batch[p].job.content] > 0
    BY <1>6, JobFacts DEF SaveNotification
  <1> QED
    BY <1>5, <1>7

LEMMA RemovedCopy ==
    ASSUME TypeOK, NEW f \in Flushes, NEW j \in Job, RemoveDue(f, j)
    PROVE  Copies \ {<<"set", j>>} \subseteq Copies'
  BY DEF RemoveDue, Copies, BatchCopies

LEMMA StoredGrows ==
    ASSUME TypeOK, [Next]_vars, NEW c \in Contents, stored[c] > 0
    PROVE  stored'[c] > 0
  <1>t. stored \in [Contents -> Nat]
    BY TypeParts
  <1>1. ASSUME NEW x, stored' = [stored EXCEPT ![x] = @ + 1]
        PROVE  stored'[c] > 0
    BY <1>t, <1>1
  <1>2. ASSUME NEW p \in Processes, ProcessBatch(p)
        PROVE  stored'[c] > 0
    BY <1>1, <1>2
       DEF ProcessBatch, StartBatch, EndBatch, PopJob, SaveNotification, SaveFails, SaveUnanswered,
           AddRetry, AddDeadLetter
  <1>3. ASSUME NEW f \in Flushes, FlushRetryJobs(f)
        PROVE  stored'[c] > 0
    BY <1>3 DEF FlushRetryJobs, StartFlush, PushDue, RemoveDue
  <1>4. ASSUME NEW a \in Admins, RetryDeadLetterJobs(a)
        PROVE  stored'[c] > 0
    BY <1>4 DEF RetryDeadLetterJobs, PopDeadLetter, PushDeadLetter
  <1> QED
    BY <1>2, <1>3, <1>4
       DEF Next, EnqueueDelivery, Elapse, Crash, BatchDies, FlushDies, RetryDies, vars

\* A mishap loses copies of the contents it spoils only.
LostInMishap == \A q \in Copies : q \in Copies' \/ q[2].content \in spoiled'

LEMMA MishapLoses ==
    ASSUME TypeOK, Crash \/ \E p \in Processes : SaveUnanswered(p)
    PROVE  LostInMishap
  <1>t. /\ hand \in [Admins -> SUBSET Dead]
        /\ DOMAIN batch = Processes
    BY TypeParts
  <1>1. ASSUME NEW p \in Processes, batch[p].pc \in Calls => batch[p].job.content \in spoiled',
               \A q \in Processes \ {p} : batch'[q] = batch[q],
               UNCHANGED <<queue, dlq, retry, hand>>
        PROVE  LostInMishap
    <2>1. ASSUME NEW q \in BatchCopies
          PROVE  q \in BatchCopies' \/ q[2].content \in spoiled'
      <3>1. PICK r \in Processes : batch[r].pc \in Calls /\ q = <<batch[r].pc, batch[r].job>>
        BY DEF BatchCopies
      <3>2. CASE r = p
        BY <1>1, <3>1, <3>2
      <3>3. CASE r # p
        BY <1>1, <3>1, <3>3 DEF BatchCopies
      <3> QED
        BY <3>2, <3>3
    <2> QED
      BY <1>1, <2>1 DEF LostInMishap, Copies
  <1>2. ASSUME NEW p \in Processes, SaveUnanswered(p)
        PROVE  LostInMishap
    <2>1. \A q \in Processes \ {p} : batch'[q] = batch[q]
      BY <1>t, <1>2 DEF SaveUnanswered
    <2> QED
      BY <1>1, <1>2, <2>1 DEF SaveUnanswered, Mishap, queueVars
  <1>3. ASSUME NEW p \in Processes, BatchDies(p)
        PROVE  LostInMishap
    <2>1. \A q \in Processes \ {p} : batch'[q] = batch[q]
      BY <1>t, <1>3 DEF BatchDies
    <2> QED
      BY <1>1, <1>3, <2>1 DEF BatchDies, Mishap, InJob, Calls, queueVars
  <1>4. ASSUME NEW f \in Flushes, FlushDies(f)
        PROVE  LostInMishap
    BY <1>4 DEF FlushDies, queueVars, LostInMishap, Copies, BatchCopies
  <1>5. ASSUME NEW a \in Admins, RetryDies(a)
        PROVE  LostInMishap
    <2>1. /\ UNCHANGED <<queue, dlq, retry, batch>> /\ \A j \in hand[a] : j.content \in spoiled'
          /\ \A b \in Admins \ {a} : hand'[b] = hand[b]
      BY <1>t, <1>5 DEF RetryDies, Mishap, ContentsOf, queueVars
    <2>2. BatchCopies' = BatchCopies
      BY <2>1 DEF BatchCopies
    <2>3. ASSUME NEW q \in {"hand"} \X UNION {hand[b] : b \in Admins}
          PROVE  \/ q \in {"hand"} \X UNION {hand'[b] : b \in Admins}
                 \/ q[2].content \in spoiled'
      BY <2>1
    <2> QED
      BY <2>1, <2>2, <2>3 DEF LostInMishap, Copies
  <1> QED
    BY <1>2, <1>3, <1>4, <1>5 DEF Crash

\* What a step does to the copies: none is lost but in a mishap, or one copy
\* moves on, is stored, or is removed from the retry set.
LEMMA CopiesStep ==
    ASSUME TypeOK, OneInHand, [Next]_vars
    PROVE  \/ LostInMishap
           \/ \E q, r : OneMoves(q, r)
           \/ \E p \in Processes : SaveNotification(p)
           \/ \E f \in Flushes, j \in Job : RemoveDue(f, j)
  <1>1. Copies \subseteq Copies' => LostInMishap
    BY DEF LostInMishap
  <1>2. ASSUME NEW p \in Processes, ProcessBatch(p)
        PROVE  LostInMishap \/ (\E q, r : OneMoves(q, r)) \/ SaveNotification(p)
    BY <1>1, <1>2, CopiesGrow, BatchMovesCopy, MishapLoses DEF ProcessBatch
  <1>3. ASSUME NEW f \in Flushes, FlushRetryJobs(f)
        PROVE  LostInMishap \/ \E j \in Job : RemoveDue(f, j)
    BY <1>1, <1>3, CopiesGrow DEF FlushRetryJobs
  <1>4. ASSUME NEW a \in Admins, RetryDeadLetterJobs(a)
        PROVE  \E q, r : OneMoves(q, r)
    BY <1>4, HandMovesCopy
  <1> QED
    BY <1>1, <1>2, <1>3, <1>4, CopiesGrow, MishapLoses DEF Next

-----------------------------------------------------------------------------
(***************************************************************************)
(* Flushes.  A flush works on jobs of the retry set, pushed one at a time; *)
(* of what is not spoiled no two flushes have the same to move.            *)
(***************************************************************************)
FlushInv ==
    /\ IsFiniteSet(retry)
    /\ \A g \in Flushes :
        /\ flush[g].pushed \subseteq flush[g].todo
        /\ \A i, j \in flush[g].pushed : i = j
        /\ \A j \in flush[g].todo : j \in retry \/ j.content \in spoiled
    /\ \A g, h \in Flushes : \A i \in flush[g].todo, j \in flush[h].todo :
        g = h \/ i.content # j.content \/ i.content \in spoiled

LEMMA FlushStep == TypeOK /\ FlushInv /\ [Next]_vars => FlushInv'
  <1> SUFFICES ASSUME TypeOK, FlushInv, [Next]_vars
               PROVE  FlushInv'
    OBVIOUS
  <1>f. /\ flush \in [Flushes -> [todo : SUBSET Retried, pushed : SUBSET Retried]]
        /\ due \subseteq retry
    BY TypeParts
  <1>s. spoiled \subseteq spoiled'
    BY SpoiledStep
  <1>1. ASSUME NEW j, retry' = retry \union {j}, UNCHANGED flush
        PROVE  FlushInv'
    <2>1. IsFiniteSet(retry')
      BY <1>1, FS_AddElement DEF FlushInv
    <2> QED
      BY <1>1, <1>s, <2>1 DEF FlushInv
  <1>2. ASSUME UNCHANGED <<retry, flush>>
        PROVE  FlushInv'
    BY <1>2, <1>s DEF FlushInv
  <1>3. ASSUME NEW f \in Flushes, NEW x, flush' = [flush EXCEPT ![f] = x], UNCHANGED retry,
               x.pushed \subseteq x.todo, \A i, j \in x.pushed : i = j,
               \A j \in x.todo : j \in retry \/ j.content \in spoiled,
               \A h \in Flushes \ {f} : \A i \in x.todo, j \in flush[h].todo :
                   i.content # j.content \/ i.content \in spoiled'
        PROVE  FlushInv'
    <2>1. flush'[f] = x /\ \A h \in Flushes \ {f} : flush'[h] = flush[h]
      BY <1>f, <1>3
    <2>2. ASSUME NEW g \in Flushes, NEW h \in Flushes, g # h,
                 NEW i \in flush'[g].todo, NEW j \in flush'[h].todo
          PROVE  i.content # j.content \/ i.content \in spoiled'
      <3>1. CASE g = f
        BY <1>3, <2>1, <2>2, <3>1
      <3>2. CASE h = f
        BY <1>3, <2>1, <2>2, <3>2
      <3>3. CASE g # f /\ h # f
        BY <1>s, <2>1, <2>2, <3>3 DEF FlushInv
      <3> QED
        BY <3>1, <3>2, <3>3
    <2>3. ASSUME NEW g \in Flushes
          PROVE  /\ flush'[g].pushed \subseteq flush'[g].todo
                 /\ \A i, j \in flush'[g].pushed : i = j
                 /\ \A j \in flush'[g].todo : j \in retry' \/ j.content \in spoiled'
      <3>1. CASE g = f
        BY <1>3, <1>s, <2>1, <3>1
      <3>2. CASE g # f
        BY <1>3, <1>s, <2>1, <3>2 DEF FlushInv
      <3> QED
        BY <3>1, <3>2
    <2>4. IsFiniteSet(retry')
      BY <1>3 DEF FlushInv
    <2> QED
      BY <2>2, <2>3, <2>4 DEF FlushInv
  <1>4. ASSUME NEW f \in Flushes, StartFlush(f)
        PROVE  FlushInv'
    <2>1. PICK x : x = [flush[f] EXCEPT !.todo = due]
      OBVIOUS
    <2>2. flush' = [flush EXCEPT ![f] = x] /\ UNCHANGED retry
      BY <1>f, <1>4, <2>1 DEF StartFlush, queueVars
    <2>3. x.todo = due /\ x.pushed = {}
      BY <1>f, <1>4, <2>1 DEF StartFlush, NoFlush
    <2>4. Overlap \subseteq spoiled'
      BY <1>4 DEF StartFlush, Mishap
    <2>5. ASSUME NEW h \in Flushes, NEW i \in due, NEW j \in flush[h].todo, i.content = j.content
          PROVE  i.content \in Overlap
      BY <2>5 DEF Overlap, ContentsOf
    <2>6. x.pushed \subseteq x.todo /\ \A i, j \in x.pushed : i = j
      BY <2>3
    <2>7. \A j \in x.todo : j \in retry \/ j.content \in spoiled
      BY <1>f, <2>3
    <2>8. \A h \in Flushes \ {f} : \A i \in x.todo, j \in flush[h].todo :
              i.content # j.content \/ i.content \in spoiled'
      BY <2>3, <2>4, <2>5
    <2> QED
      BY <1>3, <2>2, <2>6, <2>7, <2>8
  <1>5. ASSUME NEW f \in Flushes, NEW j \in Job, PushDue(f, j)
        PROVE  FlushInv'
    <2>1. PICK x : x = [flush[f] EXCEPT !.pushed = {j}]
      OBVIOUS
    <2>2. flush' = [flush EXCEPT ![f] = x] /\ UNCHANGED retry
      BY <1>f, <1>5, <2>1 DEF PushDue
    <2>3. x.todo = flush[f].todo /\ x.pushed = {j} /\ j \in flush[f].todo
      BY <1>5, <1>f, <2>1 DEF PushDue
    <2>4. \A h \in Flushes \ {f} : \A i \in x.todo, k \in flush[h].todo :
              i.content # k.content \/ i.content \in spoiled'
      BY <1>s, <2>3 DEF FlushInv
    <2>5. x.pushed \subseteq x.todo /\ \A i, k \in x.pushed : i = k
      BY <2>3
    <2>6. \A k \in x.todo : k \in retry \/ k.content \in spoiled
      BY <2>3 DEF FlushInv
    <2> QED
      BY <1>3, <2>2, <2>4, <2>5, <2>6
  <1>6. ASSUME NEW f \in Flushes, NEW j \in Job, RemoveDue(f, j)
        PROVE  FlushInv'
    <2>1. /\ flush'[f] = [todo |-> flush[f].todo \ {j}, pushed |-> {}] /\ retry' = retry \ {j}
          /\ \A h \in Flushes \ {f} : flush'[h] = flush[h]
          /\ j \in flush[f].todo
      BY <1>f, <1>6 DEF RemoveDue, FlushInv
    <2>2. IsFiniteSet(retry')
      BY <2>1, FS_RemoveElement DEF FlushInv
    <2>3. \A g \in Flushes : flush'[g].todo \subseteq flush[g].todo
      BY <2>1
    <2>4. ASSUME NEW g \in Flushes
          PROVE  /\ flush'[g].pushed \subseteq flush'[g].todo
                 /\ \A i, k \in flush'[g].pushed : i = k
                 /\ \A k \in flush'[g].todo : k \in retry' \/ k.content \in spoiled'
      <3>1. CASE g = f
        BY <1>s, <2>1, <3>1 DEF FlushInv
      <3>2. CASE g # f
        <4>1. \A k \in flush[g].todo : k = j => k.content \in spoiled
          BY <2>1, <3>2 DEF FlushInv
        <4> QED
          BY <1>s, <2>1, <3>2, <4>1 DEF FlushInv
      <3> QED
        BY <3>1, <3>2
    <2> QED
      BY <1>s, <2>2, <2>3, <2>4 DEF FlushInv
  <1>7. ASSUME NEW f \in Flushes, FlushRetryJobs(f)
        PROVE  FlushInv'
    BY <1>4, <1>5, <1>6, <1>7 DEF FlushRetryJobs
  <1>8. ASSUME NEW p \in Processes, ProcessBatch(p)
        PROVE  FlushInv'
    <2>1. CASE AddRetry(p)
      BY <1>1, <2>1 DEF AddRetry
    <2> QED
      BY <1>2, <1>8, <2>1
         DEF ProcessBatch, StartBatch, EndBatch, PopJob, SaveNotification, SaveFails,
             SaveUnanswered, AddDeadLetter, queueVars
  <1>9. CASE Crash
    <2>1. ASSUME NEW f \in Flushes, FlushDies(f)
          PROVE  FlushInv'
      <3>1. PICK x : x = NoFlush
        OBVIOUS
      <3>2. flush' = [flush EXCEPT ![f] = x] /\ x.pushed = {} /\ x.todo = {} /\ UNCHANGED retry
        BY <2>1, <3>1 DEF FlushDies, NoFlush, queueVars
      <3> QED
        BY <1>3, <3>2
    <2> QED
      BY <1>2, <1>9, <2>1 DEF Crash, BatchDies, RetryDies, queueVars
  <1>10. ASSUME NEW a \in Admins, RetryDeadLetterJobs(a)
         PROVE  FlushInv'
    BY <1>2, <1>10 DEF RetryDeadLetterJobs, PopDeadLetter, PushDeadLetter
  <1> QED
    BY <1>2, <1>7, <1>8, <1>9, <1>10 DEF Next, EnqueueDelivery, Elapse, vars, taskVars, queueVars
-----------------------------------------------------------------------------
(***************************************************************************)
(* Nothing is lost.  Between its RPUSH and its ZREM a flush has a job in   *)
(* the queue and in the retry set.  The copy that was pushed cannot come   *)
(* back to the retry set with as many attempts as it had: it has one more, *)
(* or, after the dead letters, only one, and it had at least two.          *)
(***************************************************************************)
Here(c) == stored[c] > 0 \/ \E q \in Copies : q[2].content = c

\* Copy q is where the pushed copy of j may be.
OnTheWay(q, j) ==
    /\ q[2].content = j.content
    /\ \/ q[1] = "set"
       \/ /\ q[1] \in {"queue", "save"}
          /\ q[2].attempts = j.attempts \/ (j.attempts = MaxAttempts /\ q[2].attempts = 0)
       \/ /\ q[1] = "retry"
          /\ q[2].attempts = j.attempts + 1 \/ (j.attempts = MaxAttempts /\ q[2].attempts = 1)
       \/ j.attempts = MaxAttempts /\ q[1] \in {"dead", "dlq", "hand"}

Tracked(j) ==
    \/ stored[j.content] > 0
    \/ \E q \in Copies : q # <<"set", j>> /\ OnTheWay(q, j)

\* What makes NothingLost inductive.
NothingInv ==
    /\ OneInHand
    /\ FlushInv
    /\ \A c \in Contents \ spoiled : enqueued[c] > 0 => Here(c)
    /\ \A f \in Flushes : \A j \in flush[f].pushed : j.content \in spoiled \/ Tracked(j)

LEMMA MoveKeepsWay ==
    ASSUME NEW q, NEW r, Moves(q, r), NEW j \in Retried, OnTheWay(q, j), q[2] \in Job,
           q = <<q[1], q[2]>>, q # <<"set", j>>
    PROVE  OnTheWay(r, j) /\ r # <<"set", j>>
  <1>j. j.attempts \in 1 .. MaxAttempts /\ j = [content |-> j.content, attempts |-> j.attempts]
    BY AttemptsAssumption DEF Retried, Waiting
  <1>q. q[2].attempts \in 0 .. MaxAttempts + 1
    BY DEF Job
  <1>1. CASE q[1] = "queue" /\ r = <<"save", q[2]>>
    BY <1>1 DEF OnTheWay
  <1>2. CASE q[1] = "save" /\ r[2] = Raised(q[2]) /\ r[1] = AfterFailure(r[2].attempts)
    <2>1. r[2].content = j.content /\ r[2].attempts = q[2].attempts + 1
      BY <1>2 DEF Raised, OnTheWay
    <2>2. q[2].attempts = j.attempts \/ (j.attempts = MaxAttempts /\ q[2].attempts = 0)
      BY <1>2 DEF OnTheWay
    <2>3. r[1] = "retry" \/ (r[1] = "dead" /\ r[2].attempts > MaxAttempts)
      BY <1>2, <1>q, <2>1, AttemptsAssumption DEF AfterFailure
    <2>4. r[1] # "set"
      BY <2>3
    <2> QED
      BY <1>j, <1>q, <2>1, <2>2, <2>3, <2>4, AttemptsAssumption DEF OnTheWay
  <1>3. CASE q[1] = "retry" /\ r = <<"set", q[2]>>
    <2>1. q[2].attempts # j.attempts
      BY <1>3, <1>j, AttemptsAssumption DEF OnTheWay
    <2> QED
      BY <1>3, <2>1 DEF OnTheWay
  <1>4. CASE q[1] = "dead" /\ r = <<"dlq", q[2]>>
    BY <1>4 DEF OnTheWay
  <1>5. CASE q[1] = "dlq" /\ r = <<"hand", q[2]>>
    BY <1>5 DEF OnTheWay
  <1>6. CASE q[1] = "hand" /\ r = <<"queue", ResetJobAttempts(q[2])>>
    <2>1. ResetJobAttempts(q[2]).content = j.content /\ ResetJobAttempts(q[2]).attempts = 0
      BY <1>6 DEF ResetJobAttempts, OnTheWay, Job
    <2> QED
      BY <1>6, <2>1 DEF OnTheWay
  <1> QED
    BY <1>1, <1>2, <1>3, <1>4, <1>5, <1>6 DEF Moves

LEMMA MoveKeepsContent ==
    ASSUME NEW q, NEW r, Moves(q, r), q[2] \in Job
    PROVE  r[2].content = q[2].content
  BY DEF Moves, Raised, ResetJobAttempts, Job

\* Every step but a ZREM keeps what is announced, and the pushed copies.
LEMMA KeptWithoutRemoval ==
    ASSUME TypeOK, OneInHand, [Next]_vars,
           ~ \E f \in Flushes, j \in Job : RemoveDue(f, j)
    PROVE  /\ \A c \in Contents \ spoiled' : Here(c) => Here(c)'
           /\ \A j \in Retried : j.content \in spoiled' \/ (Tracked(j) => Tracked(j)')
  <1>1. ASSUME NEW c \in Contents \ spoiled', Here(c)
        PROVE  Here(c)'
    <2>1. CASE stored[c] > 0
      BY <2>1, StoredGrows DEF Here
    <2>2. ASSUME NEW q \in Copies, q[2].content = c
          PROVE  Here(c)'
      <3>1. CASE q \in Copies'
        BY <2>2, <3>1 DEF Here
      <3>2. CASE q \notin Copies'
        <4>1. ASSUME NEW s, NEW r, OneMoves(s, r)
              PROVE  Here(c)'
          <5>1. q = s
            BY <3>2, <4>1 DEF OneMoves
          <5>2. r[2].content = c /\ r \in Copies'
            BY <2>2, <4>1, <5>1, CopyIn, MoveKeepsContent DEF OneMoves
          <5> QED
            BY <5>2 DEF Here
        <4>2. ASSUME NEW p \in Processes, SaveNotification(p)
              PROVE  Here(c)'
          BY <2>2, <3>2, <4>2, StoredCopy DEF Here
        <4>3. ~LostInMishap
          BY <2>2, <3>2 DEF LostInMishap
        <4> QED
          BY <4>1, <4>2, <4>3, CopiesStep
      <3> QED
        BY <3>1, <3>2
    <2> QED
      BY <1>1, <2>1, <2>2 DEF Here
  <1>2. ASSUME NEW j \in Retried, j.content \notin spoiled', Tracked(j)
        PROVE  Tracked(j)'
    <2>0. j.content \in Contents
      BY JobFacts DEF Retried
    <2>1. CASE stored[j.content] > 0
      BY <2>0, <2>1, StoredGrows DEF Tracked
    <2>2. ASSUME NEW q \in Copies, q # <<"set", j>>, OnTheWay(q, j)
          PROVE  Tracked(j)'
      <3>1. CASE q \in Copies'
        BY <2>2, <3>1 DEF Tracked
      <3>2. CASE q \notin Copies'
        <4>1. ASSUME NEW s, NEW r, OneMoves(s, r)
              PROVE  Tracked(j)'
          <5>1. q = s
            BY <3>2, <4>1 DEF OneMoves
          <5>2. OnTheWay(r, j) /\ r # <<"set", j>> /\ r \in Copies'
            BY <2>2, <4>1, <5>1, CopyIn, MoveKeepsWay DEF OneMoves
          <5> QED
            BY <5>2 DEF Tracked
        <4>2. ASSUME NEW p \in Processes, SaveNotification(p)
              PROVE  Tracked(j)'
          BY <2>2, <3>2, <4>2, StoredCopy DEF Tracked, OnTheWay
        <4>3. ~LostInMishap
          BY <1>2, <2>2, <3>2 DEF LostInMishap, OnTheWay
        <4> QED
          BY <4>1, <4>2, <4>3, CopiesStep
      <3> QED
        BY <3>1, <3>2
    <2> QED
      BY <1>2, <2>1, <2>2 DEF Tracked
  <1> QED
    BY <1>1, <1>2

\* What a step does to the jobs a flush has pushed.
LEMMA PushedSteps ==
    ASSUME TypeOK, [Next]_vars, NEW f \in Flushes
    PROVE  \/ flush'[f].pushed \subseteq flush[f].pushed
           \/ \E j \in Job : PushDue(f, j) /\ flush'[f].pushed = {j}
  <1>t. flush \in [Flushes -> [todo : SUBSET Retried, pushed : SUBSET Retried]]
    BY TypeParts
  <1>1. ASSUME NEW g \in Flushes, StartFlush(g)
        PROVE  flush'[f].pushed \subseteq flush[f].pushed
    BY <1>t, <1>1 DEF StartFlush
  <1>2. ASSUME NEW g \in Flushes, NEW j \in Job, PushDue(g, j)
        PROVE  \/ flush'[f].pushed \subseteq flush[f].pushed
               \/ PushDue(f, j) /\ flush'[f].pushed = {j}
    BY <1>t, <1>2 DEF PushDue
  <1>3. ASSUME NEW g \in Flushes, NEW j \in Job, RemoveDue(g, j)
        PROVE  flush'[f].pushed \subseteq flush[f].pushed
    BY <1>t, <1>3 DEF RemoveDue
  <1>4. CASE Crash
    <2>1. ASSUME NEW g \in Flushes, FlushDies(g)
          PROVE  flush'[f].pushed \subseteq flush[f].pushed
      BY <1>t, <2>1 DEF FlushDies, NoFlush
    <2> QED
      BY <1>4, <2>1 DEF Crash, BatchDies, RetryDies
  <1>5. ASSUME UNCHANGED flush
        PROVE  flush'[f].pushed \subseteq flush[f].pushed
    BY <1>5
  <1>6. ASSUME NEW p \in Processes, ProcessBatch(p)
        PROVE  UNCHANGED flush
    BY <1>6
       DEF ProcessBatch, StartBatch, EndBatch, PopJob, SaveNotification, SaveFails, SaveUnanswered,
           AddRetry, AddDeadLetter
  <1>7. ASSUME NEW a \in Admins, RetryDeadLetterJobs(a)
        PROVE  UNCHANGED flush
    BY <1>7 DEF RetryDeadLetterJobs, PopDeadLetter, PushDeadLetter
  <1> QED
    BY <1>1, <1>2, <1>3, <1>4, <1>5, <1>6, <1>7
       DEF Next, FlushRetryJobs, EnqueueDelivery, Elapse, vars, taskVars

LEMMA EnqueuedSteps ==
    ASSUME TypeOK, [Next]_vars, NEW c \in Contents
    PROVE  enqueued'[c] = enqueued[c] \/ (EnqueueDelivery(c) /\ enqueued'[c] = enqueued[c] + 1)
  <1>t. enqueued \in [Contents -> Nat]
    BY TypeParts
  <1>1. ASSUME NEW d \in Contents, EnqueueDelivery(d)
        PROVE  enqueued'[c] = enqueued[c] \/ (EnqueueDelivery(c) /\ enqueued'[c] = enqueued[c] + 1)
    <2>1. CASE d = c
      BY <1>t, <1>1, <2>1 DEF EnqueueDelivery
    <2>2. CASE d # c
      BY <1>t, <1>1, <2>2 DEF EnqueueDelivery
    <2> QED
      BY <2>1, <2>2
  <1>2. ASSUME NEW p \in Processes, ProcessBatch(p)
        PROVE  UNCHANGED enqueued
    BY <1>2
       DEF ProcessBatch, StartBatch, EndBatch, PopJob, SaveNotification, SaveFails, SaveUnanswered,
           AddRetry, AddDeadLetter
  <1>3. ASSUME NEW f \in Flushes, FlushRetryJobs(f)
        PROVE  UNCHANGED enqueued
    BY <1>3 DEF FlushRetryJobs, StartFlush, PushDue, RemoveDue
  <1>4. ASSUME NEW a \in Admins, RetryDeadLetterJobs(a)
        PROVE  UNCHANGED enqueued
    BY <1>4 DEF RetryDeadLetterJobs, PopDeadLetter, PushDeadLetter
  <1> QED
    BY <1>1, <1>2, <1>3, <1>4 DEF Next, Elapse, Crash, BatchDies, FlushDies, RetryDies, vars

LEMMA NothingKept == TypeOK /\ NothingInv /\ [Next]_vars => NothingInv'
  <1> SUFFICES ASSUME TypeOK, NothingInv, [Next]_vars
               PROVE  NothingInv'
    OBVIOUS
  <1>h. OneInHand /\ OneInHand' /\ FlushInv /\ FlushInv'
    BY HandKept, FlushStep DEF NothingInv
  <1>t. /\ flush \in [Flushes -> [todo : SUBSET Retried, pushed : SUBSET Retried]]
        /\ queue \in Seq(Waiting)
    BY TypeParts
  <1>q. flush' \in [Flushes -> [todo : SUBSET Retried, pushed : SUBSET Retried]]
    BY TypeStep DEF TypeOK, Retried
  <1>s. spoiled \subseteq spoiled'
    BY SpoiledStep
  <1>i. /\ \A c \in Contents \ spoiled : enqueued[c] > 0 => Here(c)
        /\ \A f \in Flushes : \A j \in flush[f].pushed :
               j \in Retried /\ (j.content \in spoiled \/ Tracked(j))
    BY <1>t DEF NothingInv
  <1> SUFFICES /\ \A c \in Contents \ spoiled' : enqueued'[c] > 0 => Here(c)'
               /\ \A f \in Flushes : \A j \in flush'[f].pushed :
                      j.content \in spoiled' \/ Tracked(j)'
    BY <1>h DEF NothingInv
  <1>1. ASSUME NEW f \in Flushes, NEW j \in Job, RemoveDue(f, j)
        PROVE  /\ \A c \in Contents \ spoiled' : enqueued'[c] > 0 => Here(c)'
               /\ \A g \in Flushes : \A i \in flush'[g].pushed :
                      i.content \in spoiled' \/ Tracked(i)'
    <2>1. /\ j \in flush[f].pushed /\ j \in flush[f].todo
          /\ j \in Retried /\ (j.content \in spoiled \/ Tracked(j))
      BY <1>1, <1>h, <1>i DEF RemoveDue, FlushInv
    <2>2. /\ Copies \ {<<"set", j>>} \subseteq Copies' /\ stored' = stored /\ enqueued' = enqueued
          /\ spoiled' = spoiled
      BY <1>1, RemovedCopy DEF RemoveDue
    <2>3. ASSUME NEW c \in Contents \ spoiled, Here(c)
          PROVE  Here(c)'
      <3>1. CASE c = j.content
        BY <2>1, <2>2, <3>1 DEF Tracked, Here, OnTheWay
      <3>2. CASE c # j.content
        BY <2>2, <2>3, <3>2 DEF Here
      <3> QED
        BY <3>1, <3>2
    <2>4. ASSUME NEW g \in Flushes, NEW i \in flush'[g].pushed, i.content \notin spoiled
          PROVE  Tracked(i)'
      <3>1. g # f /\ i \in flush[g].pushed
        BY <1>1, <1>t, <2>4 DEF RemoveDue
      <3>2. i.content # j.content
        BY <1>h, <2>1, <2>4, <3>1 DEF FlushInv
      <3>3. Tracked(i)
        BY <1>i, <2>4, <3>1
      <3>4. ASSUME NEW q \in Copies, q # <<"set", i>>, OnTheWay(q, i)
            PROVE  q \in Copies'
        <4>1. q # <<"set", j>>
          BY <3>2, <3>4 DEF OnTheWay
        <4> QED
          BY <2>2, <4>1
      <3> QED
        BY <2>2, <3>3, <3>4 DEF Tracked
    <2> QED
      BY <1>i, <2>2, <2>3, <2>4
  <1>2. CASE ~ \E f \in Flushes, j \in Job : RemoveDue(f, j)
    <2>k. /\ \A c \in Contents \ spoiled' : Here(c) => Here(c)'
          /\ \A j \in Retried : j.content \in spoiled' \/ (Tracked(j) => Tracked(j)')
      BY <1>2, <1>h, KeptWithoutRemoval
    <2>1. ASSUME NEW c \in Contents \ spoiled', enqueued'[c] > 0
          PROVE  Here(c)'
      <3>1. CASE enqueued[c] > 0
        BY <1>i, <1>s, <2>k, <3>1
      <3>2. CASE EnqueueDelivery(c)
        <4>1. PICK j \in Waiting : j = [content |-> c, attempts |-> 0]
          BY JobFacts
        <4>2. Elements(queue') = Elements(queue) \union {j}
          BY <1>t, <3>2, <4>1, ElementsAppend DEF EnqueueDelivery
        <4>3. <<"queue", j>> \in Copies' /\ j.content = c
          BY <4>1, <4>2 DEF Copies
        <4> QED
          BY <4>3 DEF Here
      <3> QED
        BY <2>1, <3>1, <3>2, EnqueuedSteps
    <2>2. ASSUME NEW f \in Flushes, NEW j \in flush'[f].pushed, j.content \notin spoiled'
          PROVE  Tracked(j)'
      <3>1. CASE j \in flush[f].pushed
        BY <1>i, <1>s, <2>2, <2>k, <3>1
      <3>2. CASE PushDue(f, j)
        <4>1. j \in Waiting
          BY <1>t, <3>2 DEF PushDue, Retried
        <4>2. Elements(queue') = Elements(queue) \union {j}
          BY <1>t, <3>2, <4>1, ElementsAppend DEF PushDue
        <4>3. <<"queue", j>> \in Copies' /\ <<"queue", j>> # <<"set", j>>
          BY <4>2 DEF Copies
        <4>4. OnTheWay(<<"queue", j>>, j)
          BY DEF OnTheWay
        <4> QED
          BY <4>3, <4>4 DEF Tracked
      <3> QED
        BY <2>2, <3>1, <3>2, PushedSteps
    <2> QED
      BY <2>1, <2>2
  <1> QED
    BY <1>1, <1>2

LEMMA HereIsAccounted ==
    ASSUME TypeOK, NEW c \in Contents, Here(c)
    PROVE  Accounted(c)
  <1>1. CASE stored[c] > 0
    BY <1>1 DEF Accounted
  <1>2. ASSUME NEW q \in Copies, q[2].content = c
        PROVE  Accounted(c)
    <2>1. CASE q \in {"queue"} \X Elements(queue)
      BY <1>2, <2>1 DEF Accounted, Holds, Elements
    <2>2. CASE q \in {"dlq"} \X Elements(dlq)
      BY <1>2, <2>2 DEF Accounted, Holds, Elements
    <2>3. CASE q \in {"set"} \X retry
      BY <1>2, <2>3 DEF Accounted
    <2>4. CASE q \in BatchCopies
      BY <1>2, <2>4 DEF Accounted, BatchCopies, InBatch, InJob, Calls
    <2>5. CASE q \in {"hand"} \X UNION {hand[a] : a \in Admins}
      BY <1>2, <2>5 DEF Accounted
    <2> QED
      BY <2>1, <2>2, <2>3, <2>4, <2>5 DEF Copies
  <1> QED
    BY <1>1, <1>2 DEF Here

\* Whatever calls die and however many flushes, processes and administrators
\* work at once, an event that was announced is stored, queued, to be retried or
\* among the dead letters, unless a mishap met its content: a dying call loses
\* what it held, two flushes what both were moving, and nothing else.
THEOREM JobsAreKept == Spec => []NothingLost
  <1>1. Init => NothingInv
    BY FS_EmptySet DEF Init, NothingInv, FlushInv, OneInHand, NoFlush
  <1>2. TypeOK /\ NothingInv => NothingLost
    BY HereIsAccounted DEF NothingInv, NothingLost
  <1> QED
    BY <1>1, <1>2, NothingKept, TypeCorrect, PTL DEF Spec

-----------------------------------------------------------------------------
(***************************************************************************)
(* Nobody is notified twice.  What is stored of a content and what may     *)
(* still be stored are no more than the events with this content: a job    *)
(* that a flush has pushed and not yet removed counts once.                *)
(***************************************************************************)
With(s, c) == {i \in 1 .. Len(s) : s[i].content = c}
Pushed == UNION {flush[g].pushed : g \in Flushes}
WaitingFor(c) == {j \in retry \ Pushed : j.content = c}
BatchesWith(c) == {p \in Processes : InBatch(p, c)}
Has(jobs, c) == \E j \in jobs : j.content = c
HandsWith(c) == {a \in Admins : Has(hand[a], c)}

Total(c) ==
    stored[c] + Cardinality(With(queue, c)) + Cardinality(With(dlq, c))
        + Cardinality(WaitingFor(c)) + Cardinality(BatchesWith(c)) + Cardinality(HandsWith(c))

OnceInv ==
    /\ FlushInv
    /\ \A c \in Contents \ spoiled : Total(c) <= enqueued[c]

\* 1 if the claim holds.
One(claim) == IF claim THEN 1 ELSE 0

LEMMA CountOne ==
    ASSUME NEW S, NEW T, NEW x, IsFiniteSet(S), S \ {x} = T \ {x}
    PROVE  /\ IsFiniteSet(T)
           /\ Cardinality(S) \in Nat /\ Cardinality(T) \in Nat
           /\ Cardinality(T) = Cardinality(S) - One(x \in S) + One(x \in T)
  <1>1. IsFiniteSet(S \ {x}) /\ IsFiniteSet(T \ {x})
    BY FS_RemoveElement
  <1>2. IsFiniteSet(T)
    <2>1. IsFiniteSet((T \ {x}) \union {x})
      BY <1>1, FS_AddElement
    <2>2. T \subseteq (T \ {x}) \union {x}
      OBVIOUS
    <2> QED
      BY <2>1, <2>2, FS_Subset
  <1>3. Cardinality(S) \in Nat /\ Cardinality(T) \in Nat
    BY <1>2, FS_CardinalityType
  <1>4. Cardinality(S \ {x}) = IF x \in S THEN Cardinality(S) - 1 ELSE Cardinality(S)
    BY FS_RemoveElement
  <1>5. Cardinality(T \ {x}) = IF x \in T THEN Cardinality(T) - 1 ELSE Cardinality(T)
    BY <1>2, FS_RemoveElement
  <1> QED
    BY <1>2, <1>3, <1>4, <1>5 DEF One

LEMMA WithFinite ==
    ASSUME NEW S, NEW s \in Seq(S), NEW c
    PROVE  IsFiniteSet(With(s, c)) /\ Cardinality(With(s, c)) \in Nat
  <1>1. Len(s) \in Nat
    BY LenProperties
  <1>2. IsFiniteSet(1 .. Len(s))
    BY <1>1, FS_Interval
  <1>3. With(s, c) \subseteq 1 .. Len(s)
    BY DEF With
  <1> QED
    BY <1>2, <1>3, FS_Subset, FS_CardinalityType

LEMMA WithAppend ==
    ASSUME NEW S, NEW s \in Seq(S), NEW e \in S, NEW c
    PROVE  Cardinality(With(Append(s, e), c)) = Cardinality(With(s, c)) + One(e.content = c)
  <1>1. Len(s) \in Nat
    BY LenProperties
  <1>2. /\ Len(Append(s, e)) = Len(s) + 1
        /\ \A i \in 1 .. Len(s) : Append(s, e)[i] = s[i]
        /\ Append(s, e)[Len(s) + 1] = e
    BY AppendProperties
  <1>3. With(Append(s, e), c) \ {Len(s) + 1} = With(s, c) \ {Len(s) + 1}
    BY <1>1, <1>2 DEF With
  <1>4. /\ Len(s) + 1 \notin With(s, c)
        /\ Len(s) + 1 \in With(Append(s, e), c) <=> e.content = c
    BY <1>1, <1>2 DEF With
  <1> QED
    BY <1>3, <1>4, WithFinite, CountOne DEF One

LEMMA WithTail ==
    ASSUME NEW S, NEW s \in Seq(S), s # <<>>, NEW c
    PROVE  Cardinality(With(s, c)) = Cardinality(With(Tail(s), c)) + One(Head(s).content = c)
  <1>1. Len(s) \in Nat \ {0}
    BY EmptySeq
  <1>2. Head(s) = s[1]
    BY <1>1, HeadTailOfSubSeq, SubSeqFull
  <1>3. /\ Tail(s) \in Seq(S) /\ Len(Tail(s)) = Len(s) - 1
        /\ \A i \in 1 .. Len(Tail(s)) : Tail(s)[i] = s[i + 1]
    BY HeadTailProperties
  <1> DEFINE A == With(Tail(s), c)
             B == With(s, c) \ {1}
             f == [i \in A |-> i + 1]
  <1>4. \A i \in A : i \in Nat /\ i + 1 \in B
    BY <1>1, <1>3 DEF With
  <1>5. \A k \in B : k \in Nat /\ k - 1 \in A /\ k - 1 + 1 = k
    <2>1. ASSUME NEW k \in B
          PROVE  k \in Nat /\ k - 1 \in A /\ k - 1 + 1 = k
      <3>1. k \in 2 .. Len(s) /\ s[k].content = c
        BY <1>1 DEF With
      <3>2. k - 1 \in 1 .. Len(Tail(s)) /\ k - 1 + 1 = k
        BY <1>1, <1>3, <3>1
      <3>3. Tail(s)[k - 1] = s[k]
        BY <1>3, <3>2
      <3> QED
        BY <3>1, <3>2, <3>3 DEF With
    <2> QED
      BY <2>1
  <1>6. ExistsBijection(A, B)
    <2>1. f \in [A -> B] /\ \A i \in A : f[i] = i + 1
      BY <1>4
    <2>2. \A i, k \in A : f[i] = f[k] => i = k
      BY <1>4, <2>1
    <2>3. \A k \in B : \E i \in A : f[i] = k
      BY <1>5, <2>1
    <2>4. f \in Bijection(A, B)
      <3> HIDE DEF A, B, f
      <3> QED
        BY <2>1, <2>2, <2>3 DEF Bijection, Injection, Surjection, IsInjective
    <2> QED
      BY <2>4 DEF ExistsBijection
  <1>7. IsFiniteSet(A) /\ Cardinality(B) = Cardinality(A)
    BY <1>3, <1>6, WithFinite, FS_Bijection
  <1>8. Cardinality(B) = IF 1 \in With(s, c) THEN Cardinality(With(s, c)) - 1
                         ELSE Cardinality(With(s, c))
    BY WithFinite, FS_RemoveElement
  <1>9. 1 \in With(s, c) <=> Head(s).content = c
    BY <1>1, <1>2 DEF With
  <1> QED
    BY <1>3, <1>7, <1>8, <1>9, WithFinite DEF One

LEMMA BatchCount ==
    ASSUME IsFiniteSet(Processes), NEW p \in Processes, NEW c,
           \A q \in Processes \ {p} : batch'[q] = batch[q]
    PROVE  Cardinality(BatchesWith(c)')
               = Cardinality(BatchesWith(c)) - One(InBatch(p, c)) + One(InBatch(p, c)')
  <1>1. IsFiniteSet(BatchesWith(c))
    BY FS_Subset DEF BatchesWith
  <1>2. BatchesWith(c) \ {p} = BatchesWith(c)' \ {p}
    BY DEF BatchesWith, InBatch, InJob
  <1>3. /\ p \in BatchesWith(c) <=> InBatch(p, c)
        /\ p \in BatchesWith(c)' <=> InBatch(p, c)'
    BY DEF BatchesWith
  <1> QED
    BY <1>1, <1>2, <1>3, CountOne DEF One

LEMMA HandCount ==
    ASSUME IsFiniteSet(Admins), TypeOK, NEW a \in Admins, NEW h, NEW c,
           hand' = [hand EXCEPT ![a] = h]
    PROVE  Cardinality(HandsWith(c)')
               = Cardinality(HandsWith(c)) - One(Has(hand[a], c)) + One(Has(h, c))
  <1>1. IsFiniteSet(HandsWith(c))
    BY FS_Subset DEF HandsWith
  <1>2. hand'[a] = h /\ \A b \in Admins \ {a} : hand'[b] = hand[b]
    BY DEF TypeOK
  <1>3. HandsWith(c) \ {a} = HandsWith(c)' \ {a}
    BY <1>2 DEF HandsWith
  <1>4. /\ a \in HandsWith(c) <=> Has(hand[a], c)
        /\ a \in HandsWith(c)' <=> Has(h, c)
    BY <1>2 DEF HandsWith
  <1> QED
    BY <1>1, <1>3, <1>4, CountOne DEF One

LEMMA CountsAreNat ==
    ASSUME IsFiniteSet(Processes), IsFiniteSet(Admins), TypeOK, FlushInv, NEW c \in Contents
    PROVE  /\ stored[c] \in Nat /\ enqueued[c] \in Nat
           /\ Cardinality(With(queue, c)) \in Nat /\ Cardinality(With(dlq, c)) \in Nat
           /\ IsFiniteSet(WaitingFor(c)) /\ Cardinality(WaitingFor(c)) \in Nat
           /\ Cardinality(BatchesWith(c)) \in Nat /\ Cardinality(HandsWith(c)) \in Nat
  <1>1. IsFiniteSet(WaitingFor(c)) /\ IsFiniteSet(BatchesWith(c)) /\ IsFiniteSet(HandsWith(c))
    <2>1. WaitingFor(c) \subseteq retry /\ IsFiniteSet(retry)
      BY DEF WaitingFor, FlushInv
    <2> QED
      BY <2>1, FS_Subset DEF BatchesWith, HandsWith
  <1> QED
    BY <1>1, TypeParts, WithFinite, FS_CardinalityType

\* Together with what is stored, nothing counts twice after a step.
LEMMA TotalStep ==
    ASSUME IsFiniteSet(Processes), IsFiniteSet(Admins),
           TypeOK, FlushInv, [Next]_vars, NEW c \in Contents \ spoiled'
    PROVE  Total(c)' - enqueued'[c] <= Total(c) - enqueued[c]
  <1> DEFINE Q == Cardinality(With(queue, c))
             D == Cardinality(With(dlq, c))
             W == Cardinality(WaitingFor(c))
             B == Cardinality(BatchesWith(c))
             H == Cardinality(HandsWith(c))
  <1>t. /\ queue \in Seq(Waiting) /\ dlq \in Seq(Dead)
        /\ stored \in [Contents -> Nat] /\ enqueued \in [Contents -> Nat]
        /\ flush \in [Flushes -> [todo : SUBSET Retried, pushed : SUBSET Retried]]
        /\ hand \in [Admins -> SUBSET Dead] /\ spoiled \subseteq spoiled'
        /\ \A p \in Processes : BatchOK(batch[p])
    BY TypeParts, SpoiledStep
  <1>n. /\ stored[c] \in Nat /\ enqueued[c] \in Nat /\ Q \in Nat /\ D \in Nat
        /\ W \in Nat /\ B \in Nat /\ H \in Nat
    BY CountsAreNat
  <1>w. UNCHANGED <<retry, flush>> => W' = W
    BY DEF WaitingFor, Pushed
  <1>u. /\ UNCHANGED queue => Q' = Q
        /\ UNCHANGED dlq => D' = D
        /\ UNCHANGED batch => B' = B
        /\ UNCHANGED hand => H' = H
    BY DEF With, BatchesWith, InBatch, InJob, HandsWith
  <1>T. /\ Total(c) = stored[c] + Q + D + W + B + H
        /\ Total(c)' = stored'[c] + Q' + D' + W' + B' + H'
    BY DEF Total
  <1>b. ASSUME NEW p \in Processes, \A q \in Processes \ {p} : batch'[q] = batch[q],
               NEW x, batch'[p] = x
        PROVE  B' = B - One(InBatch(p, c)) + One(x.pc \in Calls /\ x.job.content = c)
    <2>1. InBatch(p, c)' <=> x.pc \in Calls /\ x.job.content = c
      BY <1>b DEF InBatch, InJob, Calls
    <2> QED
      BY <1>b, <2>1, BatchCount DEF One
  <1> HIDE DEF Q, D, W, B, H
  <1>1. ASSUME NEW d \in Contents, EnqueueDelivery(d)
        PROVE  Total(c)' - enqueued'[c] <= Total(c) - enqueued[c]
    <2>1. Q' = Q + One(d = c)
      <3>1. PICK j \in Waiting : j = [content |-> d, attempts |-> 0]
        BY JobFacts
      <3>2. queue' = Append(queue, j) /\ j.content = d
        BY <1>1, <3>1 DEF EnqueueDelivery
      <3> QED
        BY <1>t, <3>2, WithAppend DEF Q
    <2>2. enqueued'[c] = enqueued[c] + One(d = c)
      BY <1>1, <1>t DEF EnqueueDelivery, One
    <2>3. stored'[c] = stored[c] /\ D' = D /\ W' = W /\ B' = B /\ H' = H
      BY <1>1, <1>u, <1>w DEF EnqueueDelivery, taskVars
    <2> QED
      BY <1>n, <1>T, <2>1, <2>2, <2>3 DEF One
  <1>2. ASSUME NEW p \in Processes, ProcessBatch(p)
        PROVE  Total(c)' - enqueued'[c] <= Total(c) - enqueued[c]
    <2>1. CASE StartBatch(p)
      <3>1. PICK x : x = [NoBatch EXCEPT !.pc = "pop", !.left = BatchSize]
        OBVIOUS
      <3>2. batch' = [batch EXCEPT ![p] = x] /\ x.pc = "pop"
        BY <2>1, <3>1 DEF StartBatch, NoBatch
      <3>3. ~InBatch(p, c)
        BY <2>1 DEF StartBatch, BatchAt, InBatch, InJob
      <3>4. batch'[p] = x /\ \A q \in Processes \ {p} : batch'[q] = batch[q]
        BY <3>2, BatchMoves
      <3>5. B' = B - One(InBatch(p, c)) + One(x.pc \in Calls /\ x.job.content = c)
        BY <1>b, <3>4
      <3>6. B' = B
        BY <1>n, <3>2, <3>3, <3>5 DEF One, Calls
      <3> QED
        BY <1>n, <1>T, <1>u, <1>w, <2>1, <3>6 DEF StartBatch, queueVars
    <2>2. CASE EndBatch(p)
      <3>1. batch' = [batch EXCEPT ![p] = NoBatch] /\ NoBatch.pc = "idle"
        BY <2>2 DEF EndBatch, NoBatch
      <3>2. ~InBatch(p, c)
        BY <2>2 DEF EndBatch, BatchAt, InBatch, InJob
      <3>3. batch'[p] = NoBatch /\ \A q \in Processes \ {p} : batch'[q] = batch[q]
        BY <3>1, BatchMoves
      <3>4. B' = B - One(InBatch(p, c)) + One(NoBatch.pc \in Calls /\ NoBatch.job.content = c)
        BY <1>b, <3>3
      <3>5. B' = B
        BY <1>n, <3>1, <3>2, <3>4 DEF One, Calls
      <3> QED
        BY <1>n, <1>T, <1>u, <1>w, <2>2, <3>5 DEF EndBatch, queueVars
    <2>3. CASE PopJob(p)
      <3>1. PICK x : x = [pc |-> "save", left |-> batch[p].left - 1, job |-> Head(queue)]
        OBVIOUS
      <3>2. batch' = [batch EXCEPT ![p] = x] /\ x.pc = "save" /\ x.job = Head(queue)
        BY <2>3, <3>1 DEF PopJob
      <3>3. ~InBatch(p, c)
        BY <2>3 DEF PopJob, BatchAt, InBatch, InJob
      <3>4. B' = B + One(Head(queue).content = c)
        <4>1. batch'[p] = x /\ \A q \in Processes \ {p} : batch'[q] = batch[q]
          BY <3>2, BatchMoves
        <4>2. B' = B - One(InBatch(p, c)) + One(x.pc \in Calls /\ x.job.content = c)
          BY <1>b, <4>1
        <4> QED
          BY <1>n, <3>2, <3>3, <4>2 DEF One, Calls
      <3>5. Q = Q' + One(Head(queue).content = c)
        BY <1>t, <2>3, WithTail DEF PopJob, Q
      <3>6. Q' \in Nat
        <4>1. Tail(queue) \in Seq(Waiting)
          BY <1>t, <2>3, HeadTailProperties DEF PopJob
        <4> QED
          BY <2>3, <4>1, WithFinite DEF PopJob, Q
      <3>7. stored'[c] = stored[c] /\ enqueued'[c] = enqueued[c] /\ D' = D /\ W' = W /\ H' = H
        BY <1>u, <1>w, <2>3 DEF PopJob
      <3> QED
        BY <1>n, <1>T, <3>4, <3>5, <3>6, <3>7 DEF One
    <2>4. ASSUME BatchGoto(p, "pop"), batch[p].pc \in Calls
          PROVE  /\ B' = B - One(batch[p].job.content = c)
                 /\ batch[p].job \in Job
      <3>1. batch[p] # NoBatch
        BY <2>4 DEF Calls, NoBatch
      <3>2. batch'[p].pc = "pop" /\ \A q \in Processes \ {p} : batch'[q] = batch[q]
        BY <2>4, <3>1, BatchGotoMoves
      <3>3. InBatch(p, c) <=> batch[p].job.content = c
        BY <2>4 DEF InBatch, InJob, Calls
      <3>4. B' = B - One(batch[p].job.content = c)
        BY <1>b, <1>n, <3>2, <3>3 DEF One, Calls
      <3> QED
        BY <1>t, <2>4, <3>1, <3>4, JobFacts DEF BatchOK, Calls
    <2>5. CASE SaveNotification(p)
      <3>1. batch[p].pc \in Calls
        BY <2>5 DEF SaveNotification, BatchAt, Calls
      <3>2. B' = B - One(batch[p].job.content = c)
        BY <2>4, <2>5, <3>1 DEF SaveNotification
      <3>3. stored'[c] = stored[c] + One(batch[p].job.content = c)
        BY <1>t, <2>5 DEF SaveNotification, One
      <3> QED
        BY <1>n, <1>T, <1>u, <1>w, <2>5, <3>2, <3>3 DEF One, SaveNotification, queueVars
    <2>6. CASE SaveFails(p)
      <3>1. BatchAt(p, "save") /\ FailedWith(p, batch[p].job.attempts + 1)
        BY <2>6 DEF SaveFails, FailedWith
      <3>2. /\ \A q \in Processes \ {p} : batch'[q] = batch[q]
            /\ batch'[p].job.content = batch[p].job.content
            /\ batch'[p].pc \in Calls
        BY <3>1, FailureMoves DEF AfterFailure, Calls
      <3>3. B' = B
        BY <1>b, <1>n, <3>1, <3>2 DEF One, InBatch, InJob, BatchAt
      <3> QED
        BY <1>n, <1>T, <1>u, <1>w, <2>6, <3>3 DEF SaveFails, queueVars
    <2>7. CASE SaveUnanswered(p)
      <3>1. BatchAt(p, "save") /\ FailedWith(p, batch[p].job.attempts + 1)
        BY <2>7 DEF SaveUnanswered, FailedWith
      <3>2. /\ \A q \in Processes \ {p} : batch'[q] = batch[q]
            /\ batch'[p].job.content = batch[p].job.content
            /\ batch'[p].pc \in Calls
        BY <3>1, FailureMoves DEF AfterFailure, Calls
      <3>3. batch[p].job.content # c
        BY <2>7 DEF SaveUnanswered, Mishap
      <3>4. B' = B
        BY <1>b, <1>n, <3>1, <3>2, <3>3 DEF One, InBatch, InJob
      <3>5. stored'[c] = stored[c]
        BY <1>t, <2>7, <3>3 DEF SaveUnanswered
      <3> QED
        BY <1>n, <1>T, <1>u, <1>w, <2>7, <3>4, <3>5 DEF SaveUnanswered, queueVars
    <2>8. CASE AddRetry(p)
      <3>1. batch[p].pc \in Calls
        BY <2>8 DEF AddRetry, BatchAt, Calls
      <3>2. B' = B - One(batch[p].job.content = c)
        BY <2>4, <2>8, <3>1 DEF AddRetry
      <3>3. WaitingFor(c) \ {batch[p].job} = WaitingFor(c)' \ {batch[p].job}
        BY <2>8 DEF AddRetry, WaitingFor, Pushed
      <3>4. IsFiniteSet(WaitingFor(c)) /\ (batch[p].job \in WaitingFor(c)' => batch[p].job.content = c)
        BY CountsAreNat DEF WaitingFor
      <3>5. W' \in Nat /\ W' <= W + One(batch[p].job.content = c)
        <4>1. W' \in Nat /\ W' = W - One(batch[p].job \in WaitingFor(c)) + One(batch[p].job \in WaitingFor(c)')
          BY <3>3, <3>4, CountOne DEF W
        <4> QED
          BY <1>n, <3>4, <4>1 DEF One
      <3> QED
        BY <1>n, <1>T, <1>u, <2>8, <3>2, <3>5 DEF One, AddRetry
    <2>9. CASE AddDeadLetter(p)
      <3>1. batch[p].pc \in Calls /\ batch[p].job \in Dead
        <4>1. batch[p].pc = "dead" /\ batch[p] # NoBatch
          BY <2>9 DEF AddDeadLetter, BatchAt, NoBatch
        <4> QED
          BY <1>t, <4>1 DEF Calls, BatchOK, Dead
      <3>2. B' = B - One(batch[p].job.content = c)
        BY <2>4, <2>9, <3>1 DEF AddDeadLetter
      <3>3. D' = D + One(batch[p].job.content = c)
        BY <1>t, <2>9, <3>1, WithAppend DEF AddDeadLetter, D
      <3>4. stored'[c] = stored[c] /\ enqueued'[c] = enqueued[c] /\ Q' = Q /\ W' = W /\ H' = H
        BY <1>u, <1>w, <2>9 DEF AddDeadLetter
      <3> QED
        BY <1>n, <1>T, <3>2, <3>3, <3>4 DEF One
    <2> QED
      BY <1>2, <2>1, <2>2, <2>3, <2>5, <2>6, <2>7, <2>8, <2>9 DEF ProcessBatch
  <1>3. ASSUME NEW f \in Flushes, FlushRetryJobs(f)
        PROVE  Total(c)' - enqueued'[c] <= Total(c) - enqueued[c]
    <2>1. CASE StartFlush(f)
      <3>1. Pushed' = Pushed
        <4>1. \A g \in Flushes : flush'[g].pushed = flush[g].pushed
          BY <1>t, <2>1 DEF StartFlush
        <4> QED
          BY <4>1 DEF Pushed
      <3>2. W' = W
        BY <2>1, <3>1 DEF StartFlush, WaitingFor, queueVars, W
      <3> QED
        BY <1>n, <1>T, <1>u, <2>1, <3>2 DEF StartFlush, queueVars
    <2>2. ASSUME NEW j \in Job, PushDue(f, j)
          PROVE  Total(c)' - enqueued'[c] <= Total(c) - enqueued[c]
      <3>1. /\ j \in Waiting /\ j \in flush[f].todo /\ flush[f].pushed = {}
            /\ flush'[f].pushed = {j}
            /\ \A g \in Flushes \ {f} : flush'[g] = flush[g]
        BY <1>t, <2>2 DEF PushDue, Retried
      <3>2. Pushed' = Pushed \union {j}
        BY <3>1 DEF Pushed
      <3>3. j.content = c => j \in retry /\ j \notin Pushed
        BY <1>t, <3>1 DEF FlushInv, Pushed
      <3>4. /\ WaitingFor(c) \ {j} = WaitingFor(c)' \ {j}
            /\ j \in WaitingFor(c) <=> j.content = c
            /\ j \notin WaitingFor(c)'
        BY <2>2, <3>2, <3>3 DEF PushDue, WaitingFor
      <3>5. W' = W - One(j.content = c)
        BY <1>n, <3>4, CountsAreNat, CountOne DEF One, W
      <3>6. Q' = Q + One(j.content = c)
        BY <1>t, <2>2, <3>1, WithAppend DEF PushDue, Q
      <3>7. stored'[c] = stored[c] /\ enqueued'[c] = enqueued[c] /\ D' = D /\ B' = B /\ H' = H
        BY <1>u, <2>2 DEF PushDue
      <3> QED
        BY <1>n, <1>T, <3>5, <3>6, <3>7 DEF One
    <2>3. ASSUME NEW j \in Job, RemoveDue(f, j)
          PROVE  Total(c)' - enqueued'[c] <= Total(c) - enqueued[c]
      <3>1. /\ flush[f].pushed = {j} /\ flush'[f].pushed = {} /\ retry' = retry \ {j}
            /\ \A g \in Flushes \ {f} : flush'[g] = flush[g]
        BY <1>t, <2>3 DEF RemoveDue
      <3>2. j \in Pushed /\ Pushed \subseteq Pushed' \union {j} /\ Pushed' \subseteq Pushed
        BY <3>1 DEF Pushed
      <3>3. W' = W
        BY <3>1, <3>2 DEF WaitingFor, W
      <3> QED
        BY <1>n, <1>T, <1>u, <2>3, <3>3 DEF RemoveDue
    <2> QED
      BY <1>3, <2>1, <2>2, <2>3 DEF FlushRetryJobs
  <1>4. ASSUME NEW a \in Admins, RetryDeadLetterJobs(a)
        PROVE  Total(c)' - enqueued'[c] <= Total(c) - enqueued[c]
    <2>1. CASE PopDeadLetter(a)
      <3>1. hand' = [hand EXCEPT ![a] = {Head(dlq)}] /\ hand[a] = {}
        BY <2>1 DEF PopDeadLetter
      <3>2. H' = H + One(Head(dlq).content = c)
        <4>1. PICK h : h = {Head(dlq)}
          OBVIOUS
        <4>2. H' = H - One(Has(hand[a], c)) + One(Has(h, c))
          BY <3>1, <4>1, HandCount DEF H
        <4> QED
          BY <1>n, <3>1, <4>1, <4>2 DEF One, Has
      <3>3. D = D' + One(Head(dlq).content = c)
        BY <1>t, <2>1, WithTail DEF PopDeadLetter, D
      <3>4. D' \in Nat
        <4>1. Tail(dlq) \in Seq(Dead)
          BY <1>t, <2>1, HeadTailProperties DEF PopDeadLetter
        <4> QED
          BY <2>1, <4>1, WithFinite DEF PopDeadLetter, D
      <3>5. stored'[c] = stored[c] /\ enqueued'[c] = enqueued[c] /\ Q' = Q /\ W' = W /\ B' = B
        BY <1>u, <1>w, <2>1 DEF PopDeadLetter
      <3> QED
        BY <1>n, <1>T, <3>2, <3>3, <3>4, <3>5 DEF One
    <2>2. ASSUME NEW j \in Job, PushDeadLetter(a, j)
          PROVE  Total(c)' - enqueued'[c] <= Total(c) - enqueued[c]
      <3>1. hand' = [hand EXCEPT ![a] = {}] /\ j \in hand[a] /\ j \in Dead
        BY <1>t, <2>2 DEF PushDeadLetter
      <3>2. H' = H - One(Has(hand[a], c))
        <4>1. PICK h : h = {}
          OBVIOUS
        <4>2. H' = H - One(Has(hand[a], c)) + One(Has(h, c))
          BY <3>1, <4>1, HandCount DEF H
        <4> QED
          BY <1>n, <4>1, <4>2 DEF One, Has
      <3>3. ResetJobAttempts(j) \in Waiting /\ ResetJobAttempts(j).content = j.content
        BY <3>1, JobFacts
      <3>4. Q' = Q + One(j.content = c)
        BY <1>t, <2>2, <3>3, WithAppend DEF PushDeadLetter, Q
      <3>5. One(j.content = c) <= One(Has(hand[a], c))
        BY <3>1 DEF One, Has
      <3>6. stored'[c] = stored[c] /\ enqueued'[c] = enqueued[c] /\ D' = D /\ W' = W /\ B' = B
        BY <1>u, <1>w, <2>2 DEF PushDeadLetter
      <3> QED
        BY <1>n, <1>T, <3>2, <3>4, <3>5, <3>6 DEF One
    <2> QED
      BY <1>4, <2>1, <2>2 DEF RetryDeadLetterJobs
  <1>5. CASE Crash
    <2>1. ASSUME NEW p \in Processes, BatchDies(p)
          PROVE  Total(c)' - enqueued'[c] <= Total(c) - enqueued[c]
      <3>1. batch' = [batch EXCEPT ![p] = NoBatch] /\ NoBatch.pc = "idle" /\ ~InBatch(p, c)
        BY <2>1 DEF BatchDies, NoBatch, Mishap, InBatch
      <3>2. batch'[p] = NoBatch /\ \A q \in Processes \ {p} : batch'[q] = batch[q]
        BY <3>1, BatchMoves
      <3>3. B' = B - One(InBatch(p, c)) + One(NoBatch.pc \in Calls /\ NoBatch.job.content = c)
        BY <1>b, <3>2
      <3>4. B' = B
        BY <1>n, <3>1, <3>3 DEF One, Calls
      <3> QED
        BY <1>n, <1>T, <1>u, <1>w, <2>1, <3>4 DEF BatchDies, queueVars
    <2>2. ASSUME NEW f \in Flushes, FlushDies(f)
          PROVE  Total(c)' - enqueued'[c] <= Total(c) - enqueued[c]
      <3>1. /\ flush'[f].pushed = {} /\ UNCHANGED retry
            /\ \A g \in Flushes \ {f} : flush'[g] = flush[g]
            /\ \A j \in flush[f].todo : j.content # c
        BY <1>t, <2>2 DEF FlushDies, NoFlush, Mishap, ContentsOf, queueVars
      <3>2. \A j : j.content = c => (j \in Pushed <=> j \in Pushed')
        BY <3>1 DEF Pushed, FlushInv
      <3>3. W' = W
        BY <3>1, <3>2 DEF WaitingFor, W
      <3> QED
        BY <1>n, <1>T, <1>u, <2>2, <3>3 DEF FlushDies, queueVars
    <2>3. ASSUME NEW a \in Admins, RetryDies(a)
          PROVE  Total(c)' - enqueued'[c] <= Total(c) - enqueued[c]
      <3>1. hand' = [hand EXCEPT ![a] = {}] /\ ~Has(hand[a], c)
        BY <2>3 DEF RetryDies, Mishap, ContentsOf, Has
      <3>2. H' = H
        <4>1. PICK h : h = {}
          OBVIOUS
        <4>2. H' = H - One(Has(hand[a], c)) + One(Has(h, c))
          BY <3>1, <4>1, HandCount DEF H
        <4> QED
          BY <1>n, <3>1, <4>1, <4>2 DEF One, Has
      <3> QED
        BY <1>n, <1>T, <1>u, <1>w, <2>3, <3>2 DEF RetryDies, queueVars
    <2> QED
      BY <1>5, <2>1, <2>2, <2>3 DEF Crash
  <1>6. CASE UNCHANGED <<queue, retry, dlq, stored, enqueued, taskVars>>
    BY <1>6, <1>n, <1>T, <1>u, <1>w DEF taskVars
  <1> QED
    BY <1>1, <1>2, <1>3, <1>4, <1>5, <1>6 DEF Next, Elapse, vars, queueVars

\* However many flushes, processes and administrators work at once and whatever
\* calls die, no event is stored more often than it was announced, unless a
\* mishap met its content: although a flush has its job in the queue before it
\* removes it from the retry set, and jobs go round through the dead letters.
THEOREM DeliveredOnce ==
    ASSUME IsFiniteSet(Processes), IsFiniteSet(Admins)
    PROVE  Spec => []StoredOnce
  <1>1. Init => OnceInv
    <2> SUFFICES ASSUME Init
                 PROVE  OnceInv
      OBVIOUS
    <2>1. FlushInv
      BY FS_EmptySet DEF Init, FlushInv, NoFlush
    <2>2. ASSUME NEW c \in Contents
          PROVE  Total(c) = 0 /\ enqueued[c] = 0
      <3>1. /\ With(queue, c) = {} /\ With(dlq, c) = {} /\ WaitingFor(c) = {}
            /\ BatchesWith(c) = {} /\ HandsWith(c) = {}
        BY DEF Init, With, WaitingFor, BatchesWith, InBatch, InJob, NoBatch, HandsWith, Has
      <3>2. Cardinality({}) = 0
        BY FS_EmptySet
      <3>3. stored[c] = 0 /\ enqueued[c] = 0
        BY DEF Init
      <3> QED
        BY <3>1, <3>2, <3>3 DEF Total
    <2> QED
      BY <2>1, <2>2 DEF OnceInv
  <1>2. TypeOK /\ OnceInv /\ [Next]_vars => OnceInv'
    <2> SUFFICES ASSUME TypeOK, OnceInv, [Next]_vars
                 PROVE  OnceInv'
      OBVIOUS
    <2>1. FlushInv /\ FlushInv'
      BY FlushStep DEF OnceInv
    <2>2. TypeOK'
      BY TypeStep
    <2>3. ASSUME NEW c \in Contents \ spoiled'
          PROVE  Total(c)' <= enqueued'[c]
      <3>2. Total(c) <= enqueued[c]
        BY SpoiledStep DEF OnceInv
      <3>3. Total(c)' - enqueued'[c] <= Total(c) - enqueued[c]
        BY <2>1, <2>3, TotalStep
      <3>4. Total(c) \in Int /\ enqueued[c] \in Int
        BY <2>1, CountsAreNat DEF Total
      <3>5. Total(c)' \in Int /\ enqueued'[c] \in Int
        <4>1. /\ queue' \in Seq(Waiting) /\ dlq' \in Seq(Dead) /\ IsFiniteSet(retry')
              /\ stored' \in [Contents -> Nat] /\ enqueued' \in [Contents -> Nat]
          BY <2>1, <2>2 DEF TypeOK, FlushInv, Dead
        <4>2. IsFiniteSet(WaitingFor(c)') /\ IsFiniteSet(BatchesWith(c)') /\ IsFiniteSet(HandsWith(c)')
          BY <4>1, FS_Subset DEF WaitingFor, BatchesWith, HandsWith
        <4>3. /\ Cardinality(With(queue, c)') \in Nat /\ Cardinality(With(dlq, c)') \in Nat
              /\ Cardinality(WaitingFor(c)') \in Nat
              /\ Cardinality(BatchesWith(c)') \in Nat /\ Cardinality(HandsWith(c)') \in Nat
          BY <4>1, <4>2, WithFinite, FS_CardinalityType
        <4> QED
          BY <4>1, <4>3 DEF Total
      <3> QED
        BY <3>2, <3>3, <3>4, <3>5
    <2> QED
      BY <2>1, <2>3 DEF OnceInv
  <1>3. TypeOK /\ OnceInv => StoredOnce
    <2> SUFFICES ASSUME TypeOK, OnceInv, NEW c \in Contents \ spoiled
                 PROVE  stored[c] <= enqueued[c]
      BY DEF StoredOnce
    <2> QED
      BY CountsAreNat DEF OnceInv, Total
  <1> QED
    BY <1>1, <1>2, <1>3, TypeCorrect, PTL DEF Spec

=============================================================================
