----------------------------- MODULE SsmCrypto -----------------------------
(***************************************************************************)
(* The request path of the al_ssm crypto driver (al_ssm_main.c): callers   *)
(* of the skcipher API, the poll worker, the channel lock, the pending     *)
(* list, the software backlog, and the crypto engine behind them.          *)
(*                                                                         *)
(* Each caller and the worker run al_ssm_submit_and_poll, which holds the  *)
(* channel lock while it spins and drops it to finish the requests of      *)
(* others.  A request has one al_ssm_reqctx, so rctx pointers are request  *)
(* names here.                                                             *)
(***************************************************************************)
EXTENDS Integers, Sequences, FiniteSets

CONSTANTS
    Callers,      \* CPUs that call al_ssm_enqueue
    Worker,       \* the poll_work item, which never runs twice at a time
    Reqs,         \* skcipher requests
    None,         \* no thread, no request
    MaxInFlight,  \* AL_SSM_MAX_IN_FLIGHT
    MaxBacklog,   \* AL_SSM_MAX_BACKLOG
    RingOps,      \* operations the TX ring holds
    Status,       \* results the engine reports: "ok", "eio"
    EarlyReuse    \* a request may be submitted again as soon as it has been
                  \* completed, even when the call that submitted it is
                  \* still on its way back

ASSUME ThreadAssumption ==
    Worker \notin Callers /\ None \notin Callers \cup {Worker} /\ None \notin Reqs
ASSUME BoundAssumption ==
    MaxInFlight \in Nat \ {0} /\ MaxBacklog \in Nat /\ RingOps \in Nat \ {0}
ASSUME StatusAssumption == Status \subseteq {"ok", "eio"}
ASSUME ReuseAssumption == EarlyReuse \in BOOLEAN

Threads == Callers \cup {Worker}

VARIABLES
    pc, rctx, rc,      \* where a thread is, its request, its return code
    got,               \* the completion a thread took off the ring
    lock,              \* holder of chan->lock
    pending, pending_count, total_pending,
    backlog, backlog_count,
    queued,            \* poll_work is queued
    completed, pending_seen,    \* locals of al_ssm_poll_completions
    ring,              \* operations in the engine, oldest first
    tx_used, tx_comp,  \* TX ring: operations not reclaimed, and of these
                       \* the ones the engine has completed
    app,               \* what a request's owner knows: "idle" or "busy"
    res                \* the request's DMA buffers are allocated

lists == <<pending, pending_count, total_pending>>
waiting == <<backlog, backlog_count>>
work == <<queued, completed, pending_seen>>
device == <<ring, tx_used, tx_comp>>
owner == <<app, res>>
vars == <<pc, rctx, rc, got, lock, lists, waiting, work, device, owner>>

Op == [req : Reqs, by : Threads, st : Status \cup {"busy"}]

Goto(t, label) == pc' = [pc EXCEPT ![t] = label]
Return(t, code) == Goto(t, "ret") /\ rc' = [rc EXCEPT ![t] = code]

(* The call is over and its locals are gone. *)
Leave(t, label) ==
    /\ Goto(t, label)
    /\ rctx' = [rctx EXCEPT ![t] = None]
    /\ rc' = [rc EXCEPT ![t] = "none"]
    /\ got' = [got EXCEPT ![t] = None]
-----------------------------------------------------------------------------
Init ==
    /\ pc = [t \in Threads |-> IF t = Worker THEN "idle" ELSE "out"]
    /\ rctx = [t \in Threads |-> None]
    /\ rc = [t \in Threads |-> "none"]
    /\ got = [t \in Threads |-> None]
    /\ lock = None
    /\ pending = <<>> /\ pending_count = 0 /\ total_pending = 0
    /\ backlog = <<>> /\ backlog_count = 0
    /\ queued = FALSE /\ completed = FALSE /\ pending_seen = FALSE
    /\ ring = <<>> /\ tx_used = 0 /\ tx_comp = 0
    /\ app = [r \in Reqs |-> "idle"]
    /\ res = [r \in Reqs |-> FALSE]

(* al_ssm_free_resources, and the owner learns the result: by the return   *)
(* value or by skcipher_request_complete.                                  *)
Answer(r) ==
    /\ res' = [res EXCEPT ![r] = FALSE]
    /\ app' = [app EXCEPT ![r] = "idle"]

(* mod_delayed_work: queues the work also while it is running *)
al_ssm_schedule_poll == queued' = TRUE
-----------------------------------------------------------------------------
(* al_ssm_enqueue up to the submission.  When al_ssm_alloc_resources fails *)
(* it has released what it took, and the error is the return value:        *)
(* nothing changes.                                                        *)
al_ssm_enqueue(c, r) ==
    /\ pc[c] = "out"
    /\ app[r] = "idle"
    /\ EarlyReuse \/ \A t \in Threads : rctx[t] # r
    /\ Goto(c, "submit")
    /\ rctx' = [rctx EXCEPT ![c] = r]
    /\ app' = [app EXCEPT ![r] = "busy"]
    /\ res' = [res EXCEPT ![r] = TRUE]
    /\ UNCHANGED <<rc, got, lock, lists, waiting, work, device>>

(* al_crypto_dma_prepare reclaims completed TX descriptors only when it    *)
(* runs short of them.                                                     *)
TxShort == tx_used + 1 > RingOps
TxAfterCleanup == IF TxShort THEN tx_used - tx_comp ELSE tx_used

(* al_ssm_submit_and_poll under the lock: refuse, or hand the operation to *)
(* the engine and put the request on the pending list.                     *)
SubmitFull(t) ==
    /\ pc[t] = "submit" /\ lock = None
    /\ pending_count >= MaxInFlight
    /\ Return(t, "enospc")
    /\ UNCHANGED <<rctx, got, lock, lists, waiting, work, device, owner>>

PrepareFails(t) ==
    /\ pc[t] = "submit" /\ lock = None
    /\ pending_count < MaxInFlight
    /\ TxAfterCleanup + 1 > RingOps
    /\ tx_used' = TxAfterCleanup /\ tx_comp' = 0
    /\ Return(t, "enospc")
    /\ UNCHANGED <<rctx, got, lock, lists, waiting, work, ring, owner>>

(* Mutant: list_add in place of list_add_tail. *)
Submit_at_head(t) ==
    /\ pc[t] = "submit" /\ lock = None
    /\ pending_count < MaxInFlight
    /\ TxAfterCleanup + 1 <= RingOps
    /\ tx_used' = TxAfterCleanup + 1
    /\ tx_comp' = IF TxShort THEN 0 ELSE tx_comp
    /\ ring' = Append(ring, [req |-> rctx[t], by |-> t, st |-> "busy"])
    /\ pending' = <<rctx[t]>> \o pending
    /\ pending_count' = pending_count + 1
    /\ total_pending' = total_pending + 1
    /\ lock' = t
    /\ Goto(t, "spin")
    /\ UNCHANGED <<rctx, rc, got, waiting, work, owner>>

(* Mutant: reclaimed descriptors stay counted as completed. *)
Submit_cleanup_uncounted(t) ==
    /\ pc[t] = "submit" /\ lock = None
    /\ pending_count < MaxInFlight
    /\ TxAfterCleanup + 1 <= RingOps
    /\ tx_used' = TxAfterCleanup + 1
    /\ tx_comp' = tx_comp
    /\ ring' = Append(ring, [req |-> rctx[t], by |-> t, st |-> "busy"])
    /\ pending' = Append(pending, rctx[t])
    /\ pending_count' = pending_count + 1
    /\ total_pending' = total_pending + 1
    /\ lock' = t
    /\ Goto(t, "spin")
    /\ UNCHANGED <<rctx, rc, got, waiting, work, owner>>

Submit(t) ==
    /\ pc[t] = "submit" /\ lock = None
    /\ pending_count < MaxInFlight
    /\ TxAfterCleanup + 1 <= RingOps
    /\ tx_used' = TxAfterCleanup + 1
    /\ tx_comp' = IF TxShort THEN 0 ELSE tx_comp
    /\ ring' = Append(ring, [req |-> rctx[t], by |-> t, st |-> "busy"])
    /\ pending' = Append(pending, rctx[t])
    /\ pending_count' = pending_count + 1
    /\ total_pending' = total_pending + 1
    /\ lock' = t
    /\ Goto(t, "spin")
    /\ UNCHANGED <<rctx, rc, got, waiting, work, owner>>

(* al_crypto_dma_completion found a completion: the first pending entry is *)
(* taken to be the one that completed.                                     *)
CompletionReady == ring # <<>> /\ ring[1].st # "busy"

TakeCompletion(t) ==
    /\ CompletionReady
    /\ got' = [got EXCEPT ![t] = [req |-> Head(pending), op |-> Head(ring)]]
    /\ ring' = Tail(ring)
    /\ pending' = Tail(pending)
    /\ pending_count' = pending_count - 1
    /\ total_pending' = total_pending - 1

SpinOwn(t) ==
    /\ pc[t] = "spin"
    /\ TakeCompletion(t)
    /\ Head(pending) = rctx[t]
    /\ lock' = None
    /\ Return(t, ring[1].st)
    /\ UNCHANGED <<rctx, waiting, work, tx_used, tx_comp, owner>>

(* Mutant: a completion ends the call, whosever it is. *)
SpinOther_taken_as_own(t) ==
    /\ pc[t] = "spin"
    /\ TakeCompletion(t)
    /\ Head(pending) # rctx[t]
    /\ lock' = None
    /\ Return(t, ring[1].st)
    /\ UNCHANGED <<rctx, waiting, work, tx_used, tx_comp, owner>>

SpinOther(t) ==
    /\ pc[t] = "spin"
    /\ TakeCompletion(t)
    /\ Head(pending) # rctx[t]
    /\ lock' = None
    /\ Goto(t, "finish")
    /\ UNCHANGED <<rctx, rc, waiting, work, tx_used, tx_comp, owner>>

(* al_ssm_complete_one on the request of somebody else *)
FinishOther(t) ==
    /\ pc[t] = "finish"
    /\ Answer(got[t].req)
    /\ got' = [got EXCEPT ![t] = None]
    /\ Goto(t, "relock")
    /\ UNCHANGED <<rctx, rc, lock, lists, waiting, work, device>>

Relock(t) ==
    /\ pc[t] = "relock" /\ lock = None
    /\ lock' = t
    /\ Goto(t, "spin")
    /\ UNCHANGED <<rctx, rc, got, lists, waiting, work, device, owner>>

(* Mutant: the deadline is computed anew in every turn of the loop. *)
SpinTimeout_renewed(t) == pc[t] = "spin" /\ UNCHANGED vars

(* AL_SSM_INLINE_POLL_US are over *)
SpinTimeout(t) ==
    /\ pc[t] = "spin"
    /\ lock' = None
    /\ Return(t, "einprogress")
    /\ UNCHANGED <<rctx, got, lists, waiting, work, device, owner>>
-----------------------------------------------------------------------------
(* The rest of al_ssm_enqueue *)
ReturnSync(c) ==
    /\ pc[c] = "ret" /\ rc[c] \in Status
    /\ Answer(rctx[c])
    /\ Leave(c, "out")
    /\ UNCHANGED <<lock, lists, waiting, work, device>>

(* Mutant: relies on a poll that is already under way. *)
ReturnInProgress_no_poll(c) ==
    /\ pc[c] = "ret" /\ rc[c] = "einprogress"
    /\ Leave(c, "out")
    /\ UNCHANGED <<lock, lists, waiting, work, device, owner>>

ReturnInProgress(c) ==
    /\ pc[c] = "ret" /\ rc[c] = "einprogress"
    /\ al_ssm_schedule_poll
    /\ Leave(c, "out")
    /\ UNCHANGED <<lock, lists, waiting, completed, pending_seen,
                   device, owner>>

BacklogFull(c) ==
    /\ pc[c] = "ret" /\ rc[c] = "enospc"
    /\ backlog_count >= MaxBacklog
    /\ Answer(rctx[c])
    /\ Leave(c, "out")
    /\ UNCHANGED <<lock, lists, waiting, work, device>>

BacklogAdd(c) ==
    /\ pc[c] = "ret" /\ rc[c] = "enospc"
    /\ backlog_count < MaxBacklog
    /\ backlog' = Append(backlog, rctx[c])
    /\ backlog_count' = backlog_count + 1
    /\ Goto(c, "kick")
    /\ UNCHANGED <<rctx, rc, got, lock, lists, work, device, owner>>

BacklogKick(c) ==
    /\ pc[c] = "kick"
    /\ al_ssm_schedule_poll
    /\ Leave(c, "out")
    /\ UNCHANGED <<lock, lists, waiting, completed, pending_seen,
                   device, owner>>
-----------------------------------------------------------------------------
(* al_ssm_poll_completions *)
WorkStart ==
    /\ pc[Worker] = "idle" /\ queued
    /\ queued' = FALSE
    /\ Goto(Worker, "poll")
    /\ UNCHANGED <<rctx, rc, got, lock, lists, waiting, completed, pending_seen,
                   device, owner>>

(* al_ssm_poll_channel: one turn of its loop, which ends when nothing is   *)
(* pending or the engine has no completion.                                *)
PollTake ==
    /\ pc[Worker] = "poll" /\ lock = None
    /\ pending # <<>>
    /\ TakeCompletion(Worker)
    /\ Goto(Worker, "pfinish")
    /\ UNCHANGED <<rctx, rc, lock, waiting, work, tx_used, tx_comp, owner>>

PollFinish ==
    /\ pc[Worker] = "pfinish"
    /\ Answer(got[Worker].req)
    /\ completed' = TRUE
    /\ got' = [got EXCEPT ![Worker] = None]
    /\ Goto(Worker, "poll")
    /\ UNCHANGED <<rctx, rc, lock, lists, waiting, queued, pending_seen, device>>

PollEnds ==
    /\ pc[Worker] = "poll" /\ lock = None
    /\ pending = <<>> \/ ~CompletionReady
    /\ Goto(Worker, IF completed THEN "drain" ELSE "read")
    /\ UNCHANGED <<rctx, rc, got, lock, lists, waiting, work, device, owner>>

(* al_ssm_drain_backlog *)
DrainTake ==
    /\ pc[Worker] = "drain" /\ backlog # <<>>
    /\ rctx' = [rctx EXCEPT ![Worker] = Head(backlog)]
    /\ backlog' = Tail(backlog)
    /\ backlog_count' = backlog_count - 1
    /\ Goto(Worker, "submit")
    /\ UNCHANGED <<rc, got, lock, lists, work, device, owner>>

(* Mutant: the counter is not restored. *)
DrainPutBack_uncounted ==
    /\ pc[Worker] = "ret" /\ rc[Worker] = "enospc"
    /\ backlog' = <<rctx[Worker]>> \o backlog
    /\ Leave(Worker, "read")
    /\ UNCHANGED <<lock, lists, backlog_count, work, device, owner>>

DrainPutBack ==
    /\ pc[Worker] = "ret" /\ rc[Worker] = "enospc"
    /\ backlog' = <<rctx[Worker]>> \o backlog
    /\ backlog_count' = backlog_count + 1
    /\ Leave(Worker, "read")
    /\ UNCHANGED <<lock, lists, work, device, owner>>

DrainDone ==
    /\ pc[Worker] = "ret" /\ rc[Worker] \in Status
    /\ Answer(rctx[Worker])
    /\ Leave(Worker, "drain")
    /\ UNCHANGED <<lock, lists, waiting, work, device>>

(* Mutant: a request in progress is taken for a failed one. *)
DrainInProgress_as_error ==
    /\ pc[Worker] = "ret" /\ rc[Worker] = "einprogress"
    /\ Answer(rctx[Worker])
    /\ Leave(Worker, "drain")
    /\ UNCHANGED <<lock, lists, waiting, work, device>>

DrainInProgress ==
    /\ pc[Worker] = "ret" /\ rc[Worker] = "einprogress"
    /\ Leave(Worker, "drain")
    /\ UNCHANGED <<lock, lists, waiting, work, device, owner>>

DrainEmpty ==
    /\ pc[Worker] = "drain" /\ backlog = <<>>
    /\ Goto(Worker, "read")
    /\ UNCHANGED <<rctx, rc, got, lock, lists, waiting, work, device, owner>>

(* The two counters are read one after the other. *)
ReadPending ==
    /\ pc[Worker] = "read"
    /\ pending_seen' = (total_pending > 0)
    /\ Goto(Worker, "resched")
    /\ UNCHANGED <<rctx, rc, got, lock, lists, waiting, queued, completed, device, owner>>

(* Mutant: rescheduled only after an unproductive poll. *)
Resched_if_idle ==
    /\ pc[Worker] = "resched"
    /\ queued' = (queued \/ (~completed /\ (pending_seen \/ backlog_count > 0)))
    /\ completed' = FALSE /\ pending_seen' = FALSE
    /\ Goto(Worker, "idle")
    /\ UNCHANGED <<rctx, rc, got, lock, lists, waiting, device, owner>>

Resched ==
    /\ pc[Worker] = "resched"
    /\ queued' = (queued \/ pending_seen \/ backlog_count > 0)
    /\ completed' = FALSE /\ pending_seen' = FALSE
    /\ Goto(Worker, "idle")
    /\ UNCHANGED <<rctx, rc, got, lock, lists, waiting, device, owner>>
-----------------------------------------------------------------------------
(* The engine works in order; the TX side is reported on its own. *)
HwDone(st) ==
    \E i \in 1 .. Len(ring) :
        /\ ring[i].st = "busy"
        /\ \A j \in 1 .. i - 1 : ring[j].st # "busy"
        /\ ring' = [ring EXCEPT ![i].st = st]
        /\ UNCHANGED <<pc, rctx, rc, got, lock, lists, waiting, work, tx_used,
                       tx_comp, owner>>

HwTxDone ==
    /\ tx_comp < tx_used
    /\ tx_comp' = tx_comp + 1
    /\ UNCHANGED <<pc, rctx, rc, got, lock, lists, waiting, work, ring, tx_used, owner>>

SubmitAndPoll(t) ==
    \/ SubmitFull(t) \/ PrepareFails(t) \/ Submit(t)
    \/ SpinOwn(t) \/ SpinOther(t) \/ FinishOther(t) \/ Relock(t) \/ SpinTimeout(t)

EnqueueReturns(c) ==
    \/ ReturnSync(c) \/ ReturnInProgress(c)
    \/ BacklogFull(c) \/ BacklogAdd(c) \/ BacklogKick(c)

WorkerStep ==
    \/ WorkStart \/ PollTake \/ PollFinish \/ PollEnds
    \/ DrainTake \/ DrainPutBack \/ DrainDone \/ DrainInProgress \/ DrainEmpty
    \/ ReadPending \/ Resched

Next ==
    \/ \E c \in Callers, r \in Reqs : al_ssm_enqueue(c, r)
    \/ \E t \in Threads : SubmitAndPoll(t)
    \/ \E c \in Callers : EnqueueReturns(c)
    \/ WorkerStep
    \/ \E st \in Status : HwDone(st)
    \/ HwTxDone

Spec == Init /\ [][Next]_vars

(* Fairness.  Code that runs goes on running; qspinlock is FIFO, so who    *)
(* waits for chan->lock gets it although others take it in between; the    *)
(* deadline of the inline poll passes however often the loop turns; the    *)
(* engine finishes its operations; a queued work item runs.  Nothing makes *)
(* a caller submit another request.                                        *)
Acquire(t) == SubmitFull(t) \/ PrepareFails(t) \/ Submit(t) \/ Relock(t)

Fairness ==
    /\ \A t \in Threads :
        /\ SF_vars(Acquire(t))
        /\ SF_vars(SpinTimeout(t))
        /\ WF_vars(FinishOther(t))
    /\ \A c \in Callers : WF_vars(EnqueueReturns(c))
    /\ SF_vars(PollTake \/ PollEnds)
    /\ WF_vars(WorkerStep)
    /\ WF_vars(\E st \in Status : HwDone(st))
    /\ WF_vars(HwTxDone)

FairSpec == Spec /\ Fairness
-----------------------------------------------------------------------------
Labels == {"out", "submit", "spin", "finish", "relock", "ret", "kick",
           "idle", "poll", "pfinish", "drain", "read", "resched"}

(* The type invariant of the driver's state. *)
TypeOK ==
    /\ pc \in [Threads -> Labels]
    /\ rctx \in [Threads -> Reqs \cup {None}]
    /\ rc \in [Threads -> Status \cup {"none", "enospc", "einprogress"}]
    /\ got \in [Threads -> [req : Reqs, op : Op] \cup {None}]
    /\ lock \in Threads \cup {None}
    /\ pending \in Seq(Reqs) /\ pending_count \in Nat /\ total_pending \in Nat
    /\ backlog \in Seq(Reqs) /\ backlog_count \in Nat
    /\ queued \in BOOLEAN /\ completed \in BOOLEAN /\ pending_seen \in BOOLEAN
    /\ ring \in Seq(Op)
    /\ tx_used \in 0 .. RingOps /\ tx_comp \in 0 .. tx_used
    /\ app \in [Reqs -> {"idle", "busy"}]
    /\ res \in [Reqs -> BOOLEAN]

(* The engine reports completions without saying whose they are; the       *)
(* driver gives each to the first pending entry (list_first_entry).  That  *)
(* is right however callers and worker interleave: the pending list names  *)
(* the operations in the engine in their order, and a request is finished  *)
(* with the result of its own operation.                                   *)
ResultIsOwn ==
    /\ Len(pending) = Len(ring)
    /\ \A i \in 1 .. Len(ring) : pending[i] = ring[i].req
    /\ \A t \in Threads : got[t] # None => got[t].req = got[t].op.req

(* pending_count, total_pending and backlog_count, which three different   *)
(* functions update under two different locks, are the lengths of the      *)
(* lists, and neither list exceeds its limit; a request that drain_backlog *)
(* has taken off and puts back may find its place taken.                   *)
CountsAgree ==
    /\ pending_count = Len(pending) /\ total_pending = Len(pending)
    /\ pending_count <= MaxInFlight
    /\ backlog_count = Len(backlog)
    /\ backlog_count <= MaxBacklog + 1

(* Where the obligation to answer request r lies *)
Places(r) ==
    { <<"pending", i>> : i \in {j \in DOMAIN pending : pending[j] = r} }
    \cup { <<"backlog", i>> : i \in {j \in DOMAIN backlog : backlog[j] = r} }
    \cup { <<"call", t>> : t \in {u \in Threads :
                /\ rctx[u] = r
                /\ \/ pc[u] = "submit"
                   \/ pc[u] = "ret" /\ rc[u] # "einprogress"} }
    \cup { <<"finish", t>> : t \in {u \in Threads :
                pc[u] \in {"finish", "pfinish"} /\ got[u].req = r} }

(* Every accepted request is answered by exactly one party: it is on one   *)
(* list once, or in the hands of one thread, and its DMA buffers stay      *)
(* allocated as long; a request that was answered is nowhere, so nothing   *)
(* is freed or completed twice and nothing is forgotten.                   *)
AnsweredOnce ==
    \A r \in Reqs :
        /\ Cardinality(Places(r)) = IF app[r] = "busy" THEN 1 ELSE 0
        /\ res[r] = (app[r] = "busy")

(* The worker will look at the pending list again. *)
PollComes ==
    \/ queued
    \/ pc[Worker] \notin {"idle", "resched"}
    \/ pc[Worker] = "resched" /\ pending_seen

(* A request on the pending list is never left without a poller, although  *)
(* the worker stops when it sees no pending request and mod_delayed_work   *)
(* is called after the lock is dropped: either the call that submitted it  *)
(* has not returned, or the worker will poll.                              *)
NoLostPoll ==
    \A i \in DOMAIN ring :
        \/ PollComes
        \/ LET c == ring[i].by IN
              /\ rctx[c] = ring[i].req
              /\ \/ pc[c] \in {"spin", "finish", "relock"}
                 \/ pc[c] = "ret" /\ rc[c] = "einprogress"

(* What al_ssm_submit_and_poll says of its fast path: "If OUR request      *)
(* completes, return 0": the result a call returns synchronously is that   *)
(* of the operation this call handed to the engine.                        *)
SyncIsOwn ==
    \A t \in Threads :
        pc[t] = "ret" /\ rc[t] \in Status => got[t].op.by = t

InPending(r) == \E i \in DOMAIN pending : pending[i] = r
InBacklog(r) == \E i \in DOMAIN backlog : backlog[i] = r

(* Every request handed to the engine is eventually taken off the pending  *)
(* list, whoever polls, and every call of al_ssm_enqueue returns.          *)
PendingServed == \A r \in Reqs : InPending(r) ~> ~InPending(r)
CallReturns == \A c \in Callers : pc[c] # "out" ~> pc[c] = "out"

(* What the comment above the submission says: "The poll workqueue drains  *)
(* completions and re-submits backlogged requests."                        *)
BacklogServed == \A r \in Reqs : InBacklog(r) ~> ~InBacklog(r)
=============================================================================
