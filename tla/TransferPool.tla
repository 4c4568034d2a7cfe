----------------------------- MODULE TransferPool -----------------------------
(***************************************************************************)
(* The worker pool that moves the objects of one backup version over HTTP  *)
(* (putParallel for a push, getParallelChunks for a pull).                 *)
(*                                                                         *)
(* A producer goroutine hands the items out over an unbuffered channel; a  *)
(* worker that gives up on an item sends its error to a buffered channel,  *)
(* cancels the shared context and returns; the caller waits for the        *)
(* workers and reports the first error sent.  The calls pass               *)
(* context.Background(), so nothing else cancels the context.              *)
(*                                                                         *)
(* Items are the positions of the work list.  What a transfer does to the  *)
(* service or to the caller's buffers is left to the modules that extend   *)
(* this one: here a transfer ends well or with an error.                   *)
(***************************************************************************)
EXTENDS Naturals, Sequences, FiniteSets

CONSTANTS
  Workers,          \* the goroutines started, after concurrency is clipped
  N,                \* the length of the work list
  Retries           \* how often one transfer is tried again

ASSUME WorkersAssumption ==
  IsFiniteSet(Workers) /\ Workers # {} /\ Cardinality(Workers) <= N
ASSUME SizesAssumption == N \in Nat \ {0} /\ Retries \in Nat

\* "server": a 5xx status of a PUT, the only error tried again.  "fatal": any
\* other status, a transport error, a bad digest or a chunk that does not
\* decrypt.  "canceled": the context's error.
Errors == {"server", "fatal", "canceled"}
Items == 1..N
Holding == {"transfer", "backoff", "failing"}

VARIABLES
  running,          \* the caller is between the call and wg.Wait
  sent,             \* items handed out so far, in list order
  workClosed,       \* the work channel is closed
  cancelled,        \* the context is cancelled
  st,               \* where each worker is
  item, attempt, err,
  errCh,            \* the errors sent so far
  done,             \* items whose transfer ended well
  success, failed,  \* the two counters
  outcome           \* what the last call returned

worker == <<st, item, attempt, err>>
poolVars == <<running, sent, workClosed, cancelled, worker, errCh, done, success,
              failed, outcome>>

PoolTypeOK ==
  /\ running \in BOOLEAN /\ workClosed \in BOOLEAN /\ cancelled \in BOOLEAN
  /\ sent \in 0..N
  /\ st \in [Workers -> Holding \cup {"range", "reported", "exited"}]
  /\ item \in [Workers -> 0..N] /\ attempt \in [Workers -> 0..Retries]
  /\ err \in [Workers -> Errors \cup {"none"}]
  /\ errCh \in Seq(Errors) /\ done \subseteq Items
  /\ success \in Nat /\ failed \in Nat
  /\ outcome \in Errors \cup {"none", "ok"}
  /\ \A w \in Workers : st[w] \in Holding => item[w] # 0
  /\ \A w \in Workers : st[w] = "failing" => err[w] # "none"

PoolInit ==
  /\ running = FALSE /\ sent = 0 /\ workClosed = TRUE /\ cancelled = FALSE
  /\ st = [w \in Workers |-> "exited"]
  /\ item = [w \in Workers |-> 0] /\ attempt = [w \in Workers |-> 0]
  /\ err = [w \in Workers |-> "none"]
  /\ errCh = <<>> /\ done = {} /\ success = 0 /\ failed = 0 /\ outcome = "none"

-----------------------------------------------------------------------------
\* The call: fresh channels, counters and context, the workers and the
\* producer started.
PoolStart ==
  /\ ~running /\ running' = TRUE
  /\ sent' = 0 /\ workClosed' = FALSE /\ cancelled' = FALSE
  /\ st' = [w \in Workers |-> "range"]
  /\ item' = [w \in Workers |-> 0] /\ attempt' = [w \in Workers |-> 0]
  /\ err' = [w \in Workers |-> "none"]
  /\ errCh' = <<>> /\ done' = {} /\ success' = 0 /\ failed' = 0 /\ outcome' = "none"

\* The producer's select offers the next item even when the context is already
\* cancelled (a select with two ready cases takes either).  The request of an
\* item received then fails at once.
Take(w) ==
  /\ running /\ st[w] = "range" /\ ~workClosed /\ sent < N
  /\ sent' = sent + 1
  /\ item' = [item EXCEPT ![w] = sent + 1]
  /\ attempt' = [attempt EXCEPT ![w] = 0]
  /\ st' = [st EXCEPT ![w] = IF cancelled THEN "failing" ELSE "transfer"]
  /\ err' = [err EXCEPT ![w] = IF cancelled THEN "canceled" ELSE "none"]
  /\ UNCHANGED <<running, workClosed, cancelled, errCh, done, success, failed, outcome>>

\* The producer runs out of items or sees the cancellation: defer close(work).
ProducerStop ==
  /\ ~workClosed /\ (sent = N \/ cancelled) /\ workClosed' = TRUE
  /\ UNCHANGED <<running, sent, cancelled, worker, errCh, done, success, failed, outcome>>

\* The worker's range loop ends.
RangeEnds(w) ==
  /\ running /\ st[w] = "range" /\ workClosed
  /\ st' = [st EXCEPT ![w] = "exited"]
  /\ UNCHANGED <<running, sent, workClosed, cancelled, item, attempt, err, errCh,
                 done, success, failed, outcome>>

\* A transfer under way when the context is cancelled may still end well.
Succeed(w) ==
  /\ running /\ st[w] = "transfer"
  /\ st' = [st EXCEPT ![w] = "range"]
  /\ done' = done \cup {item[w]} /\ success' = success + 1
  /\ UNCHANGED <<running, sent, workClosed, cancelled, item, attempt, err, errCh,
                 failed, outcome>>

\* isRetryable, and the retry budget.
TriesAgain(w, e) == e = "server" /\ attempt[w] < Retries

RequestFails(w, e) ==
  /\ running /\ st[w] = "transfer"
  /\ e = "canceled" => cancelled
  /\ IF TriesAgain(w, e)
     THEN /\ st' = [st EXCEPT ![w] = "backoff"] /\ UNCHANGED err
          /\ attempt' = [attempt EXCEPT ![w] = attempt[w] + 1]
     ELSE /\ st' = [st EXCEPT ![w] = "failing"] /\ UNCHANGED attempt
          /\ err' = [err EXCEPT ![w] = e]
  /\ UNCHANGED <<running, sent, workClosed, cancelled, item, errCh, done, success,
                 failed, outcome>>

\* The pause before the next try: it ends early, and the try would fail, once
\* the context is cancelled.
BackoffEnds(w) ==
  /\ running /\ st[w] = "backoff"
  /\ st' = [st EXCEPT ![w] = IF cancelled THEN "failing" ELSE "transfer"]
  /\ err' = [err EXCEPT ![w] = IF cancelled THEN "canceled" ELSE "none"]
  /\ UNCHANGED <<running, sent, workClosed, cancelled, item, attempt, errCh, done,
                 success, failed, outcome>>

\* Mutant: the error channel holds one error.
RoomForOne == Len(errCh) < 1

\* The error channel holds one error per item.
ErrChHasRoom == Len(errCh) < N

\* Mutant: cancel() before errCh <- err.
CancelFirst(w) ==
  /\ running /\ st[w] = "failing" /\ ErrChHasRoom
  /\ \/ ~cancelled /\ cancelled' = TRUE /\ UNCHANGED <<st, errCh, failed>>
     \/ /\ cancelled /\ UNCHANGED cancelled
        /\ failed' = failed + 1 /\ errCh' = Append(errCh, err[w])
        /\ st' = [st EXCEPT ![w] = "reported"]
  /\ UNCHANGED <<running, sent, workClosed, item, attempt, err, done, success, outcome>>

\* failed++ and errCh <- err.
ReportError(w) ==
  /\ running /\ st[w] = "failing" /\ ErrChHasRoom
  /\ failed' = failed + 1 /\ errCh' = Append(errCh, err[w])
  /\ st' = [st EXCEPT ![w] = "reported"]
  /\ UNCHANGED <<running, sent, workClosed, cancelled, item, attempt, err, done,
                 success, outcome>>

\* cancel() and return.
CancelAndExit(w) ==
  /\ running /\ st[w] = "reported"
  /\ cancelled' = TRUE /\ st' = [st EXCEPT ![w] = "exited"]
  /\ UNCHANGED <<running, sent, workClosed, item, attempt, err, errCh, done,
                 success, failed, outcome>>

\* wg.Wait returns: the first error sent, or nil; the deferred cancel runs.
PoolReturn ==
  /\ running /\ \A w \in Workers : st[w] = "exited"
  /\ running' = FALSE /\ cancelled' = TRUE
  /\ outcome' = IF errCh = <<>> THEN "ok" ELSE Head(errCh)
  /\ UNCHANGED <<sent, workClosed, worker, errCh, done, success, failed>>

\* The process dies while the pool runs.
PoolKilled ==
  /\ running /\ running' = FALSE
  /\ UNCHANGED <<sent, workClosed, cancelled, worker, errCh, done, success, failed, outcome>>

PoolNext ==
  \/ PoolStart \/ ProducerStop \/ PoolReturn \/ PoolKilled
  \/ \E w \in Workers :
       \/ Take(w) \/ RangeEnds(w) \/ Succeed(w) \/ BackoffEnds(w)
       \/ ReportError(w) \/ CancelAndExit(w)
       \/ \E e \in Errors : RequestFails(w, e)

\* What the pool may do, whoever uses it: a push and a pull implement it, so the
\* caller never returns before the workers have ended and never starts a second
\* transfer over a running one (upload.go:182, download.go:159).
PoolSpec == PoolInit /\ [][PoolNext]_poolVars

\* A request ends, with an answer or an error.
RequestEnds(w) == Succeed(w) \/ \E e \in Errors : RequestFails(w, e)

\* The Go scheduler runs every goroutine that can run.  RequestEnds is fair
\* because the service answers or the connection breaks; the code sets no
\* timeout of its own on these requests (http.DefaultClient).
PoolFairness ==
  /\ WF_poolVars(ProducerStop) /\ WF_poolVars(PoolReturn)
  /\ \A w \in Workers :
       /\ WF_poolVars(Take(w)) /\ WF_poolVars(RangeEnds(w))
       /\ WF_poolVars(RequestEnds(w)) /\ WF_poolVars(BackoffEnds(w))
       /\ WF_poolVars(ReportError(w)) /\ WF_poolVars(CancelAndExit(w))

-----------------------------------------------------------------------------
(* Properties *)

\* The error the caller reports is the failure that stopped the pool, never
\* the cancellation that failure caused in another worker: an error is sent
\* before the context is cancelled (upload.go:514-520, :540-549).
FirstErrorIsTheCause == errCh # <<>> => Head(errCh) # "canceled"

\* A nil error means that every item was transferred, although the workers,
\* the producer and the cancellation stop independently of each other and
\* nothing counts the items (upload.go:529-549, download.go:356-375).
OkMeansAll == outcome = "ok" => done = Items

\* Every call returns: a worker never blocks on the error channel, the producer
\* never keeps the workers waiting, and no worker is left ranging over a channel
\* nobody closes (upload.go:500-541).
CallReturns == running ~> ~running

=============================================================================
