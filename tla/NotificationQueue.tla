------------------------- MODULE NotificationQueue -------------------------
(***************************************************************************)
(* NotificationService: events of the shop become jobs of a Redis list;    *)
(* every two seconds a timer starts flushRetryJobs, which moves the jobs   *)
(* that are due from the retry set back to the list, and processQueueBatch,*)
(* which stores a notification per job.  A job that fails too often goes to*)
(* the dead-letter list, from which an administrator can take it back.     *)
(*                                                                         *)
(* A job is the JSON text of what it delivers and of its attempts.  Redis  *)
(* knows the members of the retry set by this text: two equal jobs are one *)
(* member, and ZREM of a job removes whichever copy is there.  Each Redis  *)
(* command and the save of the notification is a step of its own.          *)
(*                                                                         *)
(* A call that dies or gets no answer, and a flush that starts on what     *)
(* another is still moving, is a mishap.  It spoils the contents it meets, *)
(* of which nothing is promised any more; the others must not suffer.      *)
(***************************************************************************)
EXTENDS Integers, Sequences

CONSTANTS
    Contents,     \* what jobs deliver: user, type, title, content, data
    Processes,    \* Node.js processes that run batches
    Flushes,      \* flushRetryJobs calls that may run at the same time
    Admins,       \* administrators' retryDeadLetterJobs calls
    MaxAttempts,  \* maxAttempts (3 in the code)
    BatchSize,    \* jobs per batch (20 in the code)
    MaxEnqueued,  \* bound on the events with the same content
    MaxMishaps    \* bound on mishaps

ASSUME AttemptsAssumption == MaxAttempts \in Nat /\ MaxAttempts >= 2
ASSUME BatchAssumption == BatchSize \in Nat \ {0}
ASSUME BoundAssumption == MaxEnqueued \in Nat /\ MaxMishaps \in Nat

VARIABLES
    queue,     \* notifications:queue
    retry,     \* notifications:retry, without the scores
    due,       \* the members of retry whose score has passed
    dlq,       \* notifications:dlq
    stored,    \* stored[c]: rows of `notifications` with content c
    enqueued,  \* enqueued[c]: events with content c so far
    batch,     \* batch[p]: processQueueBatch of process p
    flush,     \* flush[f]: jobs a flush has read, the one it has pushed
    hand,      \* hand[a]: the jobs an administrator's call has taken
    mishaps,   \* calls that died half-way, lost answers, flushes that overlapped
    spoiled    \* history: contents that one of these mishaps met

queueVars == <<queue, retry, due, dlq>>
taskVars == <<batch, flush, hand>>
vars == <<queueVars, stored, enqueued, taskVars, mishaps, spoiled>>

Job == [content : Contents, attempts : 0 .. MaxAttempts + 1]
Waiting == [content : Contents, attempts : 0 .. MaxAttempts]

NoBatch == [pc |-> "idle", left |-> 0, job |-> <<>>]
NoFlush == [todo |-> {}, pushed |-> {}]

Init ==
    /\ queue = <<>>
    /\ retry = {}
    /\ due = {}
    /\ dlq = <<>>
    /\ stored = [c \in Contents |-> 0]
    /\ enqueued = [c \in Contents |-> 0]
    /\ batch = [p \in Processes |-> NoBatch]
    /\ flush = [f \in Flushes |-> NoFlush]
    /\ hand = [a \in Admins |-> {}]
    /\ mishaps = 0
    /\ spoiled = {}

-----------------------------------------------------------------------------
EnqueueDelivery(c) ==
    /\ enqueued[c] < MaxEnqueued
    /\ enqueued' = [enqueued EXCEPT ![c] = @ + 1]
    /\ queue' = Append(queue, [content |-> c, attempts |-> 0])
    /\ UNCHANGED <<retry, due, dlq, stored, taskVars, mishaps, spoiled>>

\* The delay of a failed job passes.
Elapse(j) ==
    /\ j \in retry \ due
    /\ due' = due \union {j}
    /\ UNCHANGED <<queue, retry, dlq, stored, enqueued, taskVars, mishaps, spoiled>>

-----------------------------------------------------------------------------
Mishap(contents) ==
    /\ mishaps < MaxMishaps
    /\ mishaps' = mishaps + 1
    /\ spoiled' = spoiled \union contents

(***************************************************************************)
(* processQueueBatch and processJob.                                       *)
(***************************************************************************)
BatchAt(p, pc) == batch[p].pc = pc

\* processJob has a job in hand.
InJob(p) == batch[p].pc \in {"save", "retry", "dead"}

BatchGoto(p, pc) == batch' = [batch EXCEPT ![p].pc = pc]

\* isProcessing keeps a second tick of the timer out.
StartBatch(p) ==
    /\ BatchAt(p, "idle")
    /\ queue # <<>>
    /\ batch' = [batch EXCEPT ![p] = [NoBatch EXCEPT !.pc = "pop", !.left = BatchSize]]
    /\ UNCHANGED <<queueVars, stored, enqueued, flush, hand, mishaps, spoiled>>

EndBatch(p) ==
    /\ BatchAt(p, "pop")
    /\ queue = <<>> \/ batch[p].left = 0
    /\ batch' = [batch EXCEPT ![p] = NoBatch]
    /\ UNCHANGED <<queueVars, stored, enqueued, flush, hand, mishaps, spoiled>>

PopJob(p) ==
    /\ BatchAt(p, "pop")
    /\ queue # <<>>
    /\ batch[p].left > 0
    /\ batch' = [batch EXCEPT ![p] = [pc |-> "save", left |-> @.left - 1, job |-> Head(queue)]]
    /\ queue' = Tail(queue)
    /\ UNCHANGED <<retry, due, dlq, stored, enqueued, flush, hand, mishaps, spoiled>>

SaveNotification(p) ==
    /\ BatchAt(p, "save")
    /\ stored' = [stored EXCEPT ![batch[p].job.content] = @ + 1]
    /\ BatchGoto(p, "pop")
    /\ UNCHANGED <<queueVars, enqueued, flush, hand, mishaps, spoiled>>

\* Mutant of AfterFailure: the last attempt is dropped.
AfterFailureDrops(attempts) == IF attempts <= MaxAttempts THEN "retry" ELSE "pop"

AfterFailure(attempts) == IF attempts <= MaxAttempts THEN "retry" ELSE "dead"

SaveFails(p) ==
    LET attempts == batch[p].job.attempts + 1 IN
    /\ BatchAt(p, "save")
    /\ batch' = [batch EXCEPT ![p].pc = AfterFailure(attempts),
                              ![p].job.attempts = attempts]
    /\ UNCHANGED <<queueVars, stored, enqueued, flush, hand, mishaps, spoiled>>

\* The row is stored but the answer is lost: the save throws all the same.
SaveUnanswered(p) ==
    LET attempts == batch[p].job.attempts + 1 IN
    /\ BatchAt(p, "save")
    /\ Mishap({batch[p].job.content})
    /\ stored' = [stored EXCEPT ![batch[p].job.content] = @ + 1]
    /\ batch' = [batch EXCEPT ![p].pc = AfterFailure(attempts),
                              ![p].job.attempts = attempts]
    /\ UNCHANGED <<queueVars, enqueued, flush, hand>>

\* Mutant of AddRetry: the job is added as it was taken from the queue.
AddRetrySameAttempts(p) ==
    LET j == [batch[p].job EXCEPT !.attempts = @ - 1] IN
    /\ BatchAt(p, "retry")
    /\ retry' = retry \union {j}
    /\ due' = due \ {j}
    /\ BatchGoto(p, "pop")
    /\ UNCHANGED <<queue, dlq, stored, enqueued, flush, hand, mishaps, spoiled>>

\* ZADD: adds the member or postpones the one that is there.
AddRetry(p) ==
    /\ BatchAt(p, "retry")
    /\ retry' = retry \union {batch[p].job}
    /\ due' = due \ {batch[p].job}
    /\ BatchGoto(p, "pop")
    /\ UNCHANGED <<queue, dlq, stored, enqueued, flush, hand, mishaps, spoiled>>

AddDeadLetter(p) ==
    /\ BatchAt(p, "dead")
    /\ dlq' = Append(dlq, batch[p].job)
    /\ BatchGoto(p, "pop")
    /\ UNCHANGED <<queue, retry, due, stored, enqueued, flush, hand, mishaps, spoiled>>

-----------------------------------------------------------------------------
(***************************************************************************)
(* flushRetryJobs: RPUSH first, then ZREM.                                 *)
(***************************************************************************)
ContentsOf(jobs) == {j.content : j \in jobs}

\* What is due and what a flush has still to move.
Overlap == ContentsOf(due) \intersect UNION {ContentsOf(flush[g].todo) : g \in Flushes}

\* Nothing keeps a tick of the timer out while a flush is under way.
StartFlush(f) ==
    /\ flush[f] = NoFlush
    /\ due # {}
    /\ IF Overlap = {} THEN UNCHANGED <<mishaps, spoiled>> ELSE Mishap(Overlap)
    /\ flush' = [flush EXCEPT ![f].todo = due]
    /\ UNCHANGED <<queueVars, stored, enqueued, batch, hand>>

PushDue(f, j) ==
    /\ j \in flush[f].todo
    /\ flush[f].pushed = {}
    /\ queue' = Append(queue, j)
    /\ flush' = [flush EXCEPT ![f].pushed = {j}]
    /\ UNCHANGED <<retry, due, dlq, stored, enqueued, batch, hand, mishaps, spoiled>>

\* Mutant of RemoveDue: without the ZREM.
RemoveDueForgotten(f, j) ==
    /\ flush[f].pushed = {j}
    /\ flush' = [flush EXCEPT ![f] = [todo |-> @.todo \ {j}, pushed |-> {}]]
    /\ UNCHANGED <<queueVars, stored, enqueued, batch, hand, mishaps, spoiled>>

RemoveDue(f, j) ==
    /\ flush[f].pushed = {j}
    /\ retry' = retry \ {j}
    /\ due' = due \ {j}
    /\ flush' = [flush EXCEPT ![f] = [todo |-> @.todo \ {j}, pushed |-> {}]]
    /\ UNCHANGED <<queue, dlq, stored, enqueued, batch, hand, mishaps, spoiled>>

-----------------------------------------------------------------------------
(***************************************************************************)
(* retryDeadLetterJobs: LPOP, then RPUSH with the attempts reset.          *)
(***************************************************************************)
PopDeadLetter(a) ==
    /\ hand[a] = {}
    /\ dlq # <<>>
    /\ hand' = [hand EXCEPT ![a] = {Head(dlq)}]
    /\ dlq' = Tail(dlq)
    /\ UNCHANGED <<queue, retry, due, stored, enqueued, batch, flush, mishaps, spoiled>>

\* Mutant of ResetJobAttempts: the attempts are kept.
ResetNothing(j) == j

ResetJobAttempts(j) == [j EXCEPT !.attempts = 0]

PushDeadLetter(a, j) ==
    /\ j \in hand[a]
    /\ queue' = Append(queue, ResetJobAttempts(j))
    /\ hand' = [hand EXCEPT ![a] = {}]
    /\ UNCHANGED <<retry, due, dlq, stored, enqueued, batch, flush, mishaps, spoiled>>

-----------------------------------------------------------------------------
\* The process dies, or Redis refuses a command: what a call holds is gone.
BatchDies(p) ==
    /\ ~BatchAt(p, "idle")
    /\ Mishap(IF InJob(p) THEN {batch[p].job.content} ELSE {})
    /\ batch' = [batch EXCEPT ![p] = NoBatch]
    /\ UNCHANGED <<queueVars, stored, enqueued, flush, hand>>

FlushDies(f) ==
    /\ flush[f] # NoFlush
    /\ Mishap(ContentsOf(flush[f].todo))
    /\ flush' = [flush EXCEPT ![f] = NoFlush]
    /\ UNCHANGED <<queueVars, stored, enqueued, batch, hand>>

RetryDies(a) ==
    /\ hand[a] # {}
    /\ Mishap(ContentsOf(hand[a]))
    /\ hand' = [hand EXCEPT ![a] = {}]
    /\ UNCHANGED <<queueVars, stored, enqueued, batch, flush>>

Crash ==
    \/ \E p \in Processes : BatchDies(p)
    \/ \E f \in Flushes : FlushDies(f)
    \/ \E a \in Admins : RetryDies(a)

ProcessBatch(p) ==
    \/ StartBatch(p) \/ EndBatch(p) \/ PopJob(p)
    \/ SaveNotification(p) \/ SaveFails(p) \/ SaveUnanswered(p) \/ AddRetry(p) \/ AddDeadLetter(p)

FlushRetryJobs(f) == StartFlush(f) \/ \E j \in Job : PushDue(f, j) \/ RemoveDue(f, j)

RetryDeadLetterJobs(a) == PopDeadLetter(a) \/ \E j \in Job : PushDeadLetter(a, j)

Next ==
    \/ \E c \in Contents : EnqueueDelivery(c)
    \/ \E j \in Job : Elapse(j)
    \/ \E p \in Processes : ProcessBatch(p)
    \/ \E f \in Flushes : FlushRetryJobs(f)
    \/ \E a \in Admins : RetryDeadLetterJobs(a)
    \/ Crash

Spec == Init /\ [][Next]_vars

\* The timer ticks, commands are answered, delays pass; nobody owes an event
\* or a retry of dead letters, but a retry that has begun goes on.
FairSpec ==
    /\ Spec
    /\ \A p \in Processes : WF_vars(ProcessBatch(p))
    /\ \A f \in Flushes : WF_vars(FlushRetryJobs(f))
    /\ \A j \in Waiting : WF_vars(Elapse(j))
    /\ \A a \in Admins : WF_vars(\E j \in Job : PushDeadLetter(a, j))

-----------------------------------------------------------------------------
(***************************************************************************)
(* Properties.                                                             *)
(***************************************************************************)


\* Every variable has its type; what waits in the queue or in the retry set
\* has attempts left, what is dead has used them up.
TypeOK ==
    /\ queue \in Seq(Waiting)
    /\ retry \in SUBSET {j \in Waiting : j.attempts > 0}
    /\ due \in SUBSET retry
    /\ dlq \in Seq({j \in Job : j.attempts > MaxAttempts})
    /\ stored \in [Contents -> Nat]
    /\ enqueued \in [Contents -> Nat]
    /\ DOMAIN batch = Processes
    /\ \A p \in Processes :
        \/ batch[p] = NoBatch
        \/ /\ DOMAIN batch[p] = {"pc", "left", "job"}
           /\ batch[p].left \in 0 .. BatchSize
           /\ \/ batch[p].pc = "pop"
              \/ batch[p].pc = "save" /\ batch[p].job \in Waiting
              \/ batch[p].pc = "retry" /\ batch[p].job \in Waiting /\ batch[p].job.attempts > 0
              \/ batch[p].pc = "dead" /\ batch[p].job \in Job
                                      /\ batch[p].job.attempts > MaxAttempts
    /\ flush \in [Flushes -> [todo : SUBSET {j \in Waiting : j.attempts > 0},
                              pushed : SUBSET {j \in Waiting : j.attempts > 0}]]
    /\ hand \in [Admins -> SUBSET {j \in Job : j.attempts > MaxAttempts}]
    /\ mishaps \in Nat
    /\ spoiled \in SUBSET Contents

Holds(s, c) == \E i \in 1 .. Len(s) : s[i].content = c

InBatch(p, c) == InJob(p) /\ batch[p].job.content = c

\* A notification that is still to come, or that was delivered.
Accounted(c) ==
    \/ stored[c] > 0
    \/ Holds(queue, c) \/ Holds(dlq, c)
    \/ \E j \in retry : j.content = c
    \/ \E p \in Processes : InBatch(p, c)
    \/ \E a \in Admins : \E j \in hand[a] : j.content = c

\* Nothing that was announced disappears between the queue, the retry set and
\* the dead letters, whatever dies and however many flushes run, but what the
\* dying call held or what two flushes were moving at once: of the latter, the
\* flush that falls behind removes from the retry set, with its late ZREM, a
\* job that has gone the whole way round.
NothingLost == \A c \in Contents \ spoiled : enqueued[c] > 0 => Accounted(c)

\* Nobody is notified twice of one event, although a flush has a job in both
\* the queue and the retry set between its RPUSH and its ZREM, other flushes
\* move other jobs and calls with other jobs die meanwhile.
StoredOnce == \A c \in Contents \ spoiled : stored[c] <= enqueued[c]

\* Every job comes to an end, delivered or among the dead letters, unless a
\* mishap meets it.
JobsSettle ==
    \A c \in Contents :
        enqueued[c] > 0 ~> (stored[c] > 0 \/ Holds(dlq, c) \/ c \in spoiled)

=============================================================================
