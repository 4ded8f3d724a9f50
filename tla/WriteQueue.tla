------------------------------ MODULE WriteQueue ------------------------------
(***************************************************************************)
(* The write queue: requests wait in order, one at a time is executed in a *)
(* transaction, a busy database is tried again after a pause, and every    *)
(* request is answered with what became of it.                             *)
(***************************************************************************)
EXTENDS Naturals, Sequences

CONSTANTS
    MaxRequests,    \* bound: requests submitted
    MaxRetries      \* MAX_RETRIES

ASSUME QueueAssumption == MaxRequests \in Nat /\ MaxRetries \in Nat

VARIABLES
    waiting,    \* the requests in the queue
    processing, \* the flag of drain
    executing,  \* the request being executed, 0 for none
    attempt,    \* the number of the attempt, counted from 0
    inside,     \* TRUE between an attempt's writes and its commit or rollback
    committed,  \* the requests whose transaction committed, in order
    answers,    \* the answers, in order
    submitted   \* how many requests have been submitted

queueVars == <<waiting, processing, executing, attempt, inside, committed, answers, submitted>>

QueueInit ==
    /\ waiting = <<>> /\ processing = FALSE /\ executing = 0 /\ attempt = 0 /\ inside = FALSE
    /\ committed = <<>> /\ answers = <<>> /\ submitted = 0

\* enqueue: the request joins the queue, and drain starts unless it runs.
Enqueue ==
    /\ submitted < MaxRequests /\ submitted' = submitted + 1
    /\ waiting' = Append(waiting, submitted + 1) /\ processing' = TRUE
    /\ UNCHANGED <<executing, attempt, inside, committed, answers>>

\* drain takes the first request, or stops when there is none.
MutTaken(queue) == queue[Len(queue)]
Taken(queue) == queue[1]
Take ==
    /\ processing /\ executing = 0 /\ waiting # <<>>
    /\ executing' = Taken(waiting) /\ waiting' = Tail(waiting) /\ attempt' = 0
    /\ UNCHANGED <<processing, inside, committed, answers, submitted>>
Stop ==
    /\ processing /\ executing = 0 /\ waiting = <<>> /\ processing' = FALSE
    /\ UNCHANGED <<waiting, executing, attempt, inside, committed, answers, submitted>>

\* executeWithRetry: BEGIN EXCLUSIVE and the request's own writes succeed, ...
ExecuteRequest ==
    /\ executing # 0 /\ ~inside /\ inside' = TRUE
    /\ UNCHANGED <<waiting, processing, executing, attempt, committed, answers, submitted>>
\* ... and COMMIT does too.
CommitRequest ==
    /\ inside /\ inside' = FALSE /\ committed' = Append(committed, executing)
    /\ answers' = Append(answers, [request |-> executing, ok |-> TRUE]) /\ executing' = 0
    /\ UNCHANGED <<waiting, processing, attempt, submitted>>

\* Any of them throws: what was written is rolled back.  A busy database is
\* tried again after a pause, up to MAX_RETRIES times.
Again == attempt' = attempt + 1 /\ UNCHANGED <<answers, executing>>
MutGiveUp ==
    /\ answers' = Append(answers, [request |-> executing, ok |-> inside]) /\ executing' = 0
    /\ UNCHANGED attempt
GiveUp ==
    /\ answers' = Append(answers, [request |-> executing, ok |-> FALSE]) /\ executing' = 0
    /\ UNCHANGED attempt
MutMayRetry == attempt <= MaxRetries
MayRetry == attempt < MaxRetries
Throw ==
    /\ executing # 0 /\ inside' = FALSE
    /\ (MayRetry /\ Again) \/ GiveUp
    /\ UNCHANGED <<waiting, processing, committed, submitted>>

QueueNext == Enqueue \/ Take \/ Stop \/ ExecuteRequest \/ CommitRequest \/ Throw
QueueSpec == QueueInit /\ [][QueueNext]_queueVars
-----------------------------------------------------------------------------

\* The types of the variables; a request is tried at most 1 + MAX_RETRIES times.
QueueTypeOK ==
    /\ submitted \in 0..MaxRequests /\ executing \in 0..submitted /\ attempt \in 0..MaxRetries
    /\ processing \in BOOLEAN /\ inside \in BOOLEAN /\ committed \in Seq(1..MaxRequests)

\* Requests are answered in the order they came, each once, and none is
\* forgotten: the answered, the executed and the waiting ones are all there
\* are (enqueue, drain).
AnsweredInOrder ==
    /\ \A i \in DOMAIN answers : answers[i].request = i
    /\ Len(answers) + (IF executing = 0 THEN 0 ELSE 1) + Len(waiting) = submitted

\* A request is answered "ok" exactly when it was committed, once
\* (executeWithRetry).
OkMeansCommitted ==
    /\ \A i \in DOMAIN answers :
           answers[i].ok <=> \E k \in DOMAIN committed : committed[k] = answers[i].request
    /\ \A k, l \in DOMAIN committed : k < l => committed[k] < committed[l]
    /\ \A k \in DOMAIN committed : committed[k] \in DOMAIN answers
\* The queue answers every request, in order, and "ok" exactly for a commit.
QueueAnswers == AnsweredInOrder /\ OkMeansCommitted
=============================================================================
