-------------------------- MODULE SsmCryptoProofs --------------------------
(***************************************************************************)
(* Proofs about SsmCrypto for any number of callers and requests and any   *)
(* limits of the lists and of the ring.                                    *)
(***************************************************************************)
EXTENDS SsmCrypto, ListFacts, FiniteSetTheorems, TLAPS

USE ThreadAssumption, BoundAssumption, StatusAssumption, ReuseAssumption

(* The labels of al_ssm_enqueue and al_ssm_submit_and_poll: there a thread *)
(* works on a request.                                                     *)
InCall == {"submit", "spin", "finish", "relock", "ret", "kick"}

(* Which labels a thread can be at, and which locals are set there. *)
ThreadShape ==
    \A t \in Threads :
        /\ pc[t] \in InCall <=> rctx[t] # None
        /\ pc[t] \in {"finish", "pfinish"} => got[t] \in [req : Reqs, op : Op]
        /\ pc[t] = "ret" => rc[t] # "none"
        /\ IF t = Worker THEN pc[t] \notin {"out", "kick"}
                         ELSE pc[t] \in InCall \cup {"out"}

(* A request the worker holds has left room in the backlog. *)
BacklogRoom == rctx[Worker] # None => backlog_count <= MaxBacklog

(* Thread t owes request Owed(t) an answer or a place on a list. *)
Holds(t) ==
    \/ pc[t] \in {"submit", "finish", "pfinish"}
    \/ pc[t] = "ret" /\ rc[t] # "einprogress"
Owed(t) == IF pc[t] \in {"finish", "pfinish"} THEN got[t].req ELSE rctx[t]

(* AnsweredOnce without cardinalities: no request is in two places, and    *)
(* the busy ones are those that are in some place.                         *)
OnePlace ==
    /\ Distinct(pending) /\ Distinct(backlog)
    /\ \A r \in Reqs : ~(Within(r, pending) /\ Within(r, backlog))
    /\ \A t, u \in Threads : Holds(t) /\ Holds(u) /\ Owed(t) = Owed(u) => t = u
    /\ \A t \in Threads : Holds(t) => /\ ~Within(Owed(t), pending)
                                      /\ ~Within(Owed(t), backlog)

Tracked ==
    \A r \in Reqs :
        app[r] = "busy" <=> \/ Within(r, pending)
                            \/ Within(r, backlog)
                            \/ \E t \in Threads : Holds(t) /\ Owed(t) = r

(* A request has its DMA buffers as long as it is busy. *)
Buffers == \A r \in Reqs : res[r] <=> app[r] = "busy"

IInv ==
    /\ TypeOK
    /\ ThreadShape
    /\ ResultIsOwn
    /\ CountsAgree
    /\ BacklogRoom
    /\ OnePlace
    /\ Tracked
    /\ Buffers
    /\ NoLostPoll

(* Without early reuse: two threads work on the same request only while    *)
(* one of them is about to leave al_ssm_enqueue after it put the request   *)
(* on the backlog.                                                         *)
OneCall ==
    \A t, u \in Threads :
        t # u /\ rctx[t] # None /\ rctx[t] = rctx[u] => "kick" \in {pc[t], pc[u]}

BacklogLeft ==
    \A t \in Threads :
        rctx[t] # None /\ Within(rctx[t], backlog) => pc[t] = "kick"

(* An operation of the request a thread polls for is the thread's own. *)
PollsOwn ==
    \A t \in Threads, i \in 1 .. Len(ring) :
        pc[t] \in {"spin", "finish", "relock"} /\ ring[i].req = rctx[t]
            => ring[i].by = t

SyncPart == OneCall /\ BacklogLeft /\ PollsOwn /\ SyncIsOwn
SInv == IInv /\ SyncPart
-----------------------------------------------------------------------------
(* No call, no request, no operation *)
LEMMA InitIInv == Init => IInv
  <1> SUFFICES ASSUME Init PROVE IInv
    OBVIOUS
  <1>1. Worker \in Threads /\ Len(pending) = 0 /\ Len(backlog) = 0 /\ Len(ring) = 0
    BY DEF Init, Threads
  <1>2. TypeOK
    <2>1. pc \in [Threads -> Labels] /\ rctx \in [Threads -> Reqs \cup {None}]
      BY DEF Init, Labels
    <2>2. /\ rc \in [Threads -> Status \cup {"none", "enospc", "einprogress"}]
          /\ got \in [Threads -> [req : Reqs, op : Op] \cup {None}]
      BY DEF Init
    <2>3. app \in [Reqs -> {"idle", "busy"}] /\ res \in [Reqs -> BOOLEAN]
      BY DEF Init
    <2>4. pending \in Seq(Reqs) /\ backlog \in Seq(Reqs) /\ ring \in Seq(Op)
      BY DEF Init
    <2>5. lock \in Threads \cup {None} /\ queued \in BOOLEAN /\ completed \in BOOLEAN
          /\ pending_seen \in BOOLEAN
      BY Zenon DEF Init
    <2>6. /\ pending_count \in Nat /\ total_pending \in Nat /\ backlog_count \in Nat
          /\ tx_used \in 0 .. RingOps /\ tx_comp \in 0 .. tx_used
      BY DEF Init
    <2> QED BY <2>1, <2>2, <2>3, <2>4, <2>5, <2>6 DEF TypeOK
  <1>3. ThreadShape
    BY DEF Init, ThreadShape, InCall
  <1>4. ResultIsOwn /\ CountsAgree /\ BacklogRoom
    BY <1>1 DEF Init, ResultIsOwn, CountsAgree, BacklogRoom
  <1>5. /\ \A r : ~Within(r, pending) /\ ~Within(r, backlog)
        /\ Distinct(pending) /\ Distinct(backlog)
    BY <1>1 DEF Within, Distinct
  <1>6. \A t \in Threads : ~Holds(t)
    BY DEF Init, Holds
  <1>7. OnePlace /\ Tracked /\ Buffers
    BY <1>5, <1>6 DEF Init, OnePlace, Tracked, Buffers
  <1>8. NoLostPoll
    BY DEF Init, NoLostPoll
  <1> QED BY <1>2, <1>3, <1>4, <1>7, <1>8 DEF IInv

(* al_ssm_enqueue begins: the caller waits for the lock. *)
LEMMA EnqueueKeeps ==
    ASSUME IInv, NEW c \in Callers, NEW r \in Reqs, al_ssm_enqueue(c, r)
    PROVE  IInv'
  <1> c \in Threads /\ c # Worker /\ Worker \in Threads
    BY DEF Threads
  <1> USE DEF al_ssm_enqueue, Goto, lists, waiting, work, device
  <1>1. TypeOK /\ ThreadShape
    BY DEF IInv
  <1>2. TypeOK'
    BY <1>1 DEF TypeOK, Labels
  <1>3. ThreadShape'
    BY <1>1 DEF TypeOK, ThreadShape, InCall
  <1>4. ResultIsOwn' /\ CountsAgree' /\ BacklogRoom'
    BY <1>1 DEF IInv, TypeOK, ResultIsOwn, CountsAgree, BacklogRoom
  <1>5. /\ \A u \in Threads \ {c} : (Holds(u)' <=> Holds(u)) /\ Owed(u)' = Owed(u)
        /\ Holds(c)' /\ Owed(c)' = r /\ ~Holds(c)
    BY <1>1 DEF TypeOK, Holds, Owed
  <1>6. pending' = pending /\ backlog' = backlog
    OBVIOUS
  <1>7. OnePlace'
    BY <1>1, <1>5, <1>6 DEF IInv, OnePlace, Tracked
  <1>8. Tracked' /\ Buffers'
    <2>1. app[r]' = "busy" /\ \A q \in Reqs \ {r} : app[q]' = app[q]
      BY <1>1 DEF TypeOK
    <2>2. res[r]' /\ \A q \in Reqs \ {r} : res[q]' = res[q]
      BY <1>1 DEF TypeOK
    <2> QED BY <1>5, <1>6, <2>1, <2>2 DEF IInv, Tracked, Buffers
  <1>9. NoLostPoll'
    BY <1>1 DEF IInv, TypeOK, ThreadShape, InCall, NoLostPoll, PollComes
  <1> QED BY <1>2, <1>3, <1>4, <1>7, <1>8, <1>9 DEF IInv

(* The operation is prepared and given to the engine under the lock. *)
LEMMA SubmitKeeps ==
    ASSUME IInv, NEW t \in Threads, Submit(t)
    PROVE  IInv'
  <1> Worker \in Threads
    BY DEF Threads
  <1> USE DEF Submit, Goto, waiting, work, owner
  <1>1. TypeOK /\ ThreadShape
    BY DEF IInv
  <1> DEFINE r == rctx[t]
             op == [req |-> rctx[t], by |-> t, st |-> "busy"]
  <1>2. r \in Reqs /\ op \in Op /\ pending \in Seq(Reqs) /\ ring \in Seq(Op)
    BY <1>1 DEF TypeOK, ThreadShape, InCall, Op
  <1>3. /\ pending' \in Seq(Reqs)
        /\ Len(pending) \in Nat /\ Len(pending') = Len(pending) + 1
        /\ \A i \in 1 .. Len(pending) : pending'[i] = pending[i]
        /\ pending'[Len(pending) + 1] = r
        /\ \A q : Within(q, pending') <=> Within(q, pending) \/ q = r
        /\ Distinct(pending) /\ ~Within(r, pending) => Distinct(pending')
    BY <1>2, AddTail, LenProperties
  <1>4. /\ ring' \in Seq(Op)
        /\ Len(ring) \in Nat /\ Len(ring') = Len(ring) + 1
        /\ \A i \in 1 .. Len(ring) : ring'[i] = ring[i]
        /\ ring'[Len(ring) + 1] = op
    BY <1>2, AddTail, LenProperties
  <1>5. TypeOK'
    BY <1>1, <1>3, <1>4 DEF TypeOK, Labels, TxAfterCleanup, TxShort
  <1>6. ThreadShape'
    BY <1>1 DEF TypeOK, ThreadShape, InCall
  <1>7. ResultIsOwn'
    BY <1>3, <1>4 DEF IInv, ResultIsOwn
  <1>8. CountsAgree' /\ BacklogRoom'
    BY <1>3 DEF IInv, CountsAgree, BacklogRoom
  <1>9. /\ \A u \in Threads \ {t} : (Holds(u)' <=> Holds(u)) /\ Owed(u)' = Owed(u)
        /\ ~Holds(t)' /\ Holds(t) /\ Owed(t) = r
    BY <1>1 DEF TypeOK, Holds, Owed
  <1>10. OnePlace' /\ Tracked' /\ Buffers'
    <2>1. backlog' = backlog /\ app' = app /\ res' = res
      OBVIOUS
    <2> HIDE DEF Submit, r
    <2>2. OnePlace'
      BY <1>2, <1>3, <1>9, <2>1 DEF IInv, OnePlace
    <2>3. Tracked' /\ Buffers'
      BY <1>2, <1>3, <1>9, <2>1 DEF IInv, Tracked, Buffers
    <2> QED BY <2>2, <2>3
  <1>11. NoLostPoll'
    <2>1. DOMAIN ring = 1 .. Len(ring) /\ DOMAIN ring' = 1 .. Len(ring')
      BY <1>2, <1>4, LenProperties
    <2> QED BY <1>1, <1>4, <2>1 DEF IInv, TypeOK, NoLostPoll, PollComes
  <1> QED BY <1>5, <1>6, <1>7, <1>8, <1>10, <1>11 DEF IInv

(* A step that moves no request keeps the account of places. *)
LEMMA PlacesKept ==
    ASSUME OnePlace, Tracked, Buffers,
           pending' = pending, backlog' = backlog, app' = app, res' = res,
           \A u \in Threads : /\ Holds(u)' <=> Holds(u)
                              /\ Holds(u) => Owed(u)' = Owed(u)
    PROVE  OnePlace' /\ Tracked' /\ Buffers'
  <1>1. OnePlace'
    BY DEF OnePlace
  <1>2. Tracked'
    BY DEF Tracked
  <1>3. Buffers'
    BY DEF Buffers
  <1> QED BY <1>1, <1>2, <1>3

(* So does the answer to a request, when it is the thread that owes it     *)
(* that gives it.                                                          *)
LEMMA AnswerKeepsPlaces ==
    ASSUME TypeOK, OnePlace, Tracked, Buffers,
           NEW t \in Threads, Holds(t), Owed(t) \in Reqs, Answer(Owed(t)), ~Holds(t)',
           pending' = pending, backlog' = backlog,
           \A u \in Threads \ {t} : (Holds(u)' <=> Holds(u)) /\ Owed(u)' = Owed(u)
    PROVE  OnePlace' /\ Tracked' /\ Buffers'
  <1> DEFINE r == Owed(t)
  <1>1. /\ app'[r] = "idle" /\ \A q \in Reqs \ {r} : app'[q] = app[q]
        /\ ~res'[r] /\ \A q \in Reqs \ {r} : res'[q] = res[q]
    BY DEF Answer, TypeOK
  <1>2. OnePlace'
    BY DEF OnePlace
  <1>3. Tracked'
    BY <1>1 DEF Tracked, OnePlace
  <1>4. Buffers'
    BY <1>1 DEF Buffers
  <1> QED BY <1>2, <1>3, <1>4

(* al_crypto_dma_completion and the removal of the first pending entry:    *)
(* the thread that polls takes over the request.                           *)
LEMMA TakeFacts ==
    ASSUME IInv, NEW t \in Threads, TakeCompletion(t)
    PROVE  /\ pending # <<>> /\ ring # <<>>
           /\ pending' \in Seq(Reqs) /\ ring' \in Seq(Op)
           /\ Len(ring) \in Nat \ {0} /\ Len(ring') = Len(ring) - 1
           /\ DOMAIN ring = 1 .. Len(ring) /\ DOMAIN ring' = 1 .. Len(ring')
           /\ \A i \in 1 .. Len(ring') : ring'[i] = ring[i + 1]
           /\ ring[1] = Head(ring) /\ Head(ring) \in Op /\ Head(ring).st \in Status
           /\ Head(pending) = Head(ring).req /\ Head(pending) \in Reqs
           /\ got' \in [Threads -> [req : Reqs, op : Op] \cup {None}]
           /\ got'[t] = [req |-> Head(pending), op |-> Head(ring)]
           /\ got'[t] \in [req : Reqs, op : Op]
           /\ \A u \in Threads \ {t} : got'[u] = got[u]
           /\ \A i \in 1 .. Len(ring') : ring'[i].req # Head(pending)
           /\ pending_count' \in Nat /\ total_pending' \in Nat
           /\ ResultIsOwn'
           /\ \A q : Within(q, pending) <=> Within(q, pending') \/ q = Head(pending)
           /\ Distinct(pending') /\ ~Within(Head(pending), pending')
           /\ pending_count' = Len(pending') /\ total_pending' = Len(pending')
           /\ pending_count' <= MaxInFlight
  <1>1. /\ ring # <<>> /\ pending \in Seq(Reqs) /\ ring \in Seq(Op)
        /\ Len(pending) = Len(ring) /\ \A i \in 1 .. Len(ring) : pending[i] = ring[i].req
    BY DEF IInv, TypeOK, ResultIsOwn, TakeCompletion, CompletionReady
  <1>2. /\ ring' \in Seq(Op)
        /\ Len(ring) \in Nat \ {0} /\ Len(ring') = Len(ring) - 1
        /\ ring[1] = Head(ring) /\ Head(ring) \in Op
        /\ \A i \in 1 .. Len(ring') : ring'[i] = ring[i + 1]
    BY <1>1, DelHead DEF TakeCompletion
  <1>3. pending # <<>>
    BY <1>1, <1>2
  <1>4. /\ pending' \in Seq(Reqs)
        /\ Len(pending') = Len(pending) - 1
        /\ Head(pending) = pending[1] /\ Head(pending) \in Reqs
        /\ \A i \in 1 .. Len(pending') : pending'[i] = pending[i + 1]
        /\ \A q : Within(q, pending) <=> Within(q, pending') \/ q = Head(pending)
        /\ Distinct(pending) => Distinct(pending') /\ ~Within(Head(pending), pending')
    BY <1>1, <1>3, DelHead DEF TakeCompletion
  <1>5. Distinct(pending') /\ ~Within(Head(pending), pending')
    BY <1>4 DEF IInv, OnePlace
  <1>6. DOMAIN ring = 1 .. Len(ring) /\ DOMAIN ring' = 1 .. Len(ring')
    BY <1>1, <1>2, LenProperties
  <1>7. Head(pending) = Head(ring).req
    BY <1>1, <1>2, <1>4
  <1>8. Head(ring).st \in Status
    BY <1>2 DEF TakeCompletion, CompletionReady, Op
  <1>9. /\ got' \in [Threads -> [req : Reqs, op : Op] \cup {None}]
        /\ got'[t] = [req |-> Head(pending), op |-> Head(ring)]
        /\ \A u \in Threads \ {t} : got'[u] = got[u]
    BY <1>2, <1>4 DEF IInv, TypeOK, TakeCompletion
  <1>10. \A i \in 1 .. Len(ring') : pending'[i] = ring'[i].req
    BY <1>1, <1>2, <1>4, SMTT(40)
  <1>11. \A i \in 1 .. Len(ring') : ring'[i].req # Head(pending)
    BY <1>1, <1>2, <1>4, <1>5, <1>10 DEF Within
  <1>12. ResultIsOwn'
    <2>1. Len(pending') = Len(ring')
      BY <1>1, <1>2, <1>4
    <2>2. \A u \in Threads : got'[u] # None => got'[u].req = got'[u].op.req
      BY <1>7, <1>9 DEF IInv, ResultIsOwn
    <2> QED BY <1>10, <2>1, <2>2 DEF ResultIsOwn
  <1>13. /\ pending_count' = Len(pending') /\ total_pending' = Len(pending')
         /\ pending_count' <= MaxInFlight
         /\ pending_count' \in Nat /\ total_pending' \in Nat
    BY <1>1, <1>2, <1>4 DEF IInv, CountsAgree, TakeCompletion
  <1>14. got'[t] \in [req : Reqs, op : Op]
    BY <1>2, <1>4, <1>9
  <1> QED BY <1>1, <1>2, <1>3, <1>4, <1>5, <1>6, <1>7, <1>8, <1>9, <1>11, <1>12, <1>13, <1>14

(* The limit of operations in flight is met. *)
LEMMA SubmitFullKeeps ==
    ASSUME IInv, NEW t \in Threads, SubmitFull(t)
    PROVE  IInv'
  <1> Worker \in Threads
    BY DEF Threads
  <1> USE DEF SubmitFull, Return, Goto, lists, waiting, work, device, owner
  <1>1. TypeOK /\ ThreadShape
    BY DEF IInv
  <1>2. TypeOK'
    BY <1>1 DEF TypeOK, Labels
  <1>3. ThreadShape'
    BY <1>1 DEF TypeOK, ThreadShape, InCall
  <1>4. ResultIsOwn' /\ CountsAgree' /\ BacklogRoom'
    BY <1>1 DEF IInv, TypeOK, ResultIsOwn, CountsAgree, BacklogRoom
  <1>5. \A u \in Threads : /\ Holds(u)' <=> Holds(u)
                           /\ Holds(u) => Owed(u)' = Owed(u)
    BY <1>1 DEF TypeOK, Holds, Owed
  <1>6. pending' = pending /\ backlog' = backlog /\ app' = app /\ res' = res
    OBVIOUS
  <1>7. OnePlace' /\ Tracked' /\ Buffers'
    BY <1>5, <1>6, PlacesKept DEF IInv
  <1>8. NoLostPoll'
    BY <1>1 DEF IInv, TypeOK, ThreadShape, InCall, NoLostPoll, PollComes
  <1> QED BY <1>2, <1>3, <1>4, <1>7, <1>8 DEF IInv

(* al_crypto_dma_prepare finds no room in the TX ring. *)
LEMMA PrepareFailsKeeps ==
    ASSUME IInv, NEW t \in Threads, PrepareFails(t)
    PROVE  IInv'
  <1> Worker \in Threads
    BY DEF Threads
  <1> USE DEF PrepareFails, Return, Goto, lists, waiting, work, owner
  <1>1. TypeOK /\ ThreadShape
    BY DEF IInv
  <1>2. TypeOK'
    BY <1>1 DEF TypeOK, Labels, TxAfterCleanup, TxShort
  <1>3. ThreadShape'
    BY <1>1 DEF TypeOK, ThreadShape, InCall
  <1>4. ResultIsOwn' /\ CountsAgree' /\ BacklogRoom'
    BY <1>1 DEF IInv, TypeOK, ResultIsOwn, CountsAgree, BacklogRoom
  <1>5. \A u \in Threads : /\ Holds(u)' <=> Holds(u)
                           /\ Holds(u) => Owed(u)' = Owed(u)
    BY <1>1 DEF TypeOK, Holds, Owed
  <1>6. pending' = pending /\ backlog' = backlog /\ app' = app /\ res' = res
    OBVIOUS
  <1>7. OnePlace' /\ Tracked' /\ Buffers'
    BY <1>5, <1>6, PlacesKept DEF IInv
  <1>8. NoLostPoll'
    BY <1>1 DEF IInv, TypeOK, ThreadShape, InCall, NoLostPoll, PollComes
  <1> QED BY <1>2, <1>3, <1>4, <1>7, <1>8 DEF IInv

(* The lock is taken again after a callback. *)
LEMMA RelockKeeps ==
    ASSUME IInv, NEW t \in Threads, Relock(t)
    PROVE  IInv'
  <1> Worker \in Threads
    BY DEF Threads
  <1> USE DEF Relock, Goto, lists, waiting, work, device, owner
  <1>1. TypeOK /\ ThreadShape
    BY DEF IInv
  <1>2. TypeOK'
    BY <1>1 DEF TypeOK, Labels
  <1>3. ThreadShape'
    BY <1>1 DEF TypeOK, ThreadShape, InCall
  <1>4. ResultIsOwn' /\ CountsAgree' /\ BacklogRoom'
    BY <1>1 DEF IInv, TypeOK, ResultIsOwn, CountsAgree, BacklogRoom
  <1>5. \A u \in Threads : /\ Holds(u)' <=> Holds(u)
                           /\ Holds(u) => Owed(u)' = Owed(u)
    BY <1>1 DEF TypeOK, Holds, Owed
  <1>6. pending' = pending /\ backlog' = backlog /\ app' = app /\ res' = res
    OBVIOUS
  <1>7. OnePlace' /\ Tracked' /\ Buffers'
    BY <1>5, <1>6, PlacesKept DEF IInv
  <1>8. NoLostPoll'
    BY <1>1 DEF IInv, TypeOK, ThreadShape, InCall, NoLostPoll, PollComes
  <1> QED BY <1>2, <1>3, <1>4, <1>7, <1>8 DEF IInv

(* The inline poll gives up. *)
LEMMA SpinTimeoutKeeps ==
    ASSUME IInv, NEW t \in Threads, SpinTimeout(t)
    PROVE  IInv'
  <1> Worker \in Threads
    BY DEF Threads
  <1> USE DEF SpinTimeout, Return, Goto, lists, waiting, work, device, owner
  <1>1. TypeOK /\ ThreadShape
    BY DEF IInv
  <1>2. TypeOK'
    BY <1>1 DEF TypeOK, Labels
  <1>3. ThreadShape'
    BY <1>1 DEF TypeOK, ThreadShape, InCall
  <1>4. ResultIsOwn' /\ CountsAgree' /\ BacklogRoom'
    BY <1>1 DEF IInv, TypeOK, ResultIsOwn, CountsAgree, BacklogRoom
  <1>5. \A u \in Threads : /\ Holds(u)' <=> Holds(u)
                           /\ Holds(u) => Owed(u)' = Owed(u)
    BY <1>1 DEF TypeOK, Holds, Owed
  <1>6. pending' = pending /\ backlog' = backlog /\ app' = app /\ res' = res
    OBVIOUS
  <1>7. OnePlace' /\ Tracked' /\ Buffers'
    BY <1>5, <1>6, PlacesKept DEF IInv
  <1>8. NoLostPoll'
    BY <1>1 DEF IInv, TypeOK, ThreadShape, InCall, NoLostPoll, PollComes
  <1> QED BY <1>2, <1>3, <1>4, <1>7, <1>8 DEF IInv

(* The caller returns with its operation in flight. *)
LEMMA ReturnInProgressKeeps ==
    ASSUME IInv, NEW c \in Callers, ReturnInProgress(c)
    PROVE  IInv'
  <1> c \in Threads /\ c # Worker /\ Worker \in Threads
    BY DEF Threads
  <1> USE DEF ReturnInProgress, Leave, Goto, al_ssm_schedule_poll, lists, waiting, device, owner
  <1>1. TypeOK /\ ThreadShape
    BY DEF IInv
  <1>2. TypeOK'
    BY <1>1 DEF TypeOK, Labels
  <1>3. ThreadShape'
    BY <1>1 DEF TypeOK, ThreadShape, InCall
  <1>4. ResultIsOwn' /\ CountsAgree' /\ BacklogRoom'
    BY <1>1 DEF IInv, TypeOK, ResultIsOwn, CountsAgree, BacklogRoom
  <1>5. \A u \in Threads : /\ Holds(u)' <=> Holds(u)
                           /\ Holds(u) => Owed(u)' = Owed(u)
    BY <1>1 DEF TypeOK, Holds, Owed
  <1>6. pending' = pending /\ backlog' = backlog /\ app' = app /\ res' = res
    OBVIOUS
  <1>7. OnePlace' /\ Tracked' /\ Buffers'
    BY <1>5, <1>6, PlacesKept DEF IInv
  <1>8. NoLostPoll'
    BY <1>1 DEF IInv, TypeOK, ThreadShape, InCall, NoLostPoll, PollComes
  <1> QED BY <1>2, <1>3, <1>4, <1>7, <1>8 DEF IInv

(* The request is in the backlog and the worker is queued. *)
LEMMA BacklogKickKeeps ==
    ASSUME IInv, NEW c \in Callers, BacklogKick(c)
    PROVE  IInv'
  <1> c \in Threads /\ c # Worker /\ Worker \in Threads
    BY DEF Threads
  <1> USE DEF BacklogKick, Leave, Goto, al_ssm_schedule_poll, lists, waiting, device, owner
  <1>1. TypeOK /\ ThreadShape
    BY DEF IInv
  <1>2. TypeOK'
    BY <1>1 DEF TypeOK, Labels
  <1>3. ThreadShape'
    BY <1>1 DEF TypeOK, ThreadShape, InCall
  <1>4. ResultIsOwn' /\ CountsAgree' /\ BacklogRoom'
    BY <1>1 DEF IInv, TypeOK, ResultIsOwn, CountsAgree, BacklogRoom
  <1>5. \A u \in Threads : /\ Holds(u)' <=> Holds(u)
                           /\ Holds(u) => Owed(u)' = Owed(u)
    BY <1>1 DEF TypeOK, Holds, Owed
  <1>6. pending' = pending /\ backlog' = backlog /\ app' = app /\ res' = res
    OBVIOUS
  <1>7. OnePlace' /\ Tracked' /\ Buffers'
    BY <1>5, <1>6, PlacesKept DEF IInv
  <1>8. NoLostPoll'
    BY <1>1 DEF IInv, TypeOK, ThreadShape, InCall, NoLostPoll, PollComes
  <1> QED BY <1>2, <1>3, <1>4, <1>7, <1>8 DEF IInv

(* The worker begins. *)
LEMMA WorkStartKeeps ==
    ASSUME IInv, WorkStart
    PROVE  IInv'
  <1> Worker \in Threads
    BY DEF Threads
  <1> USE DEF WorkStart, Goto, lists, waiting, device, owner
  <1>1. TypeOK /\ ThreadShape
    BY DEF IInv
  <1>2. TypeOK'
    BY <1>1 DEF TypeOK, Labels
  <1>3. ThreadShape'
    BY <1>1 DEF TypeOK, ThreadShape, InCall
  <1>4. ResultIsOwn' /\ CountsAgree' /\ BacklogRoom'
    BY <1>1 DEF IInv, TypeOK, ResultIsOwn, CountsAgree, BacklogRoom
  <1>5. \A u \in Threads : /\ Holds(u)' <=> Holds(u)
                           /\ Holds(u) => Owed(u)' = Owed(u)
    BY <1>1 DEF TypeOK, Holds, Owed
  <1>6. pending' = pending /\ backlog' = backlog /\ app' = app /\ res' = res
    OBVIOUS
  <1>7. OnePlace' /\ Tracked' /\ Buffers'
    BY <1>5, <1>6, PlacesKept DEF IInv
  <1>8. NoLostPoll'
    BY <1>1 DEF IInv, TypeOK, ThreadShape, InCall, NoLostPoll, PollComes
  <1> QED BY <1>2, <1>3, <1>4, <1>7, <1>8 DEF IInv

(* The worker finds no completion. *)
LEMMA PollEndsKeeps ==
    ASSUME IInv, PollEnds
    PROVE  IInv'
  <1> Worker \in Threads
    BY DEF Threads
  <1> USE DEF PollEnds, Goto, lists, waiting, work, device, owner
  <1>1. TypeOK /\ ThreadShape
    BY DEF IInv
  <1>2. TypeOK'
    BY <1>1 DEF TypeOK, Labels
  <1>3. ThreadShape'
    BY <1>1 DEF TypeOK, ThreadShape, InCall
  <1>4. ResultIsOwn' /\ CountsAgree' /\ BacklogRoom'
    BY <1>1 DEF IInv, TypeOK, ResultIsOwn, CountsAgree, BacklogRoom
  <1>5. \A u \in Threads : /\ Holds(u)' <=> Holds(u)
                           /\ Holds(u) => Owed(u)' = Owed(u)
    BY <1>1 DEF TypeOK, Holds, Owed
  <1>6. pending' = pending /\ backlog' = backlog /\ app' = app /\ res' = res
    OBVIOUS
  <1>7. OnePlace' /\ Tracked' /\ Buffers'
    BY <1>5, <1>6, PlacesKept DEF IInv
  <1>8. NoLostPoll'
    BY <1>1 DEF IInv, TypeOK, ThreadShape, InCall, NoLostPoll, PollComes
  <1> QED BY <1>2, <1>3, <1>4, <1>7, <1>8 DEF IInv

(* A request of the backlog is in flight. *)
LEMMA DrainInProgressKeeps ==
    ASSUME IInv, DrainInProgress
    PROVE  IInv'
  <1> Worker \in Threads
    BY DEF Threads
  <1> USE DEF DrainInProgress, Leave, Goto, lists, waiting, work, device, owner
  <1>1. TypeOK /\ ThreadShape
    BY DEF IInv
  <1>2. TypeOK'
    BY <1>1 DEF TypeOK, Labels
  <1>3. ThreadShape'
    BY <1>1 DEF TypeOK, ThreadShape, InCall
  <1>4. ResultIsOwn' /\ CountsAgree' /\ BacklogRoom'
    BY <1>1 DEF IInv, TypeOK, ResultIsOwn, CountsAgree, BacklogRoom
  <1>5. \A u \in Threads : /\ Holds(u)' <=> Holds(u)
                           /\ Holds(u) => Owed(u)' = Owed(u)
    BY <1>1 DEF TypeOK, Holds, Owed
  <1>6. pending' = pending /\ backlog' = backlog /\ app' = app /\ res' = res
    OBVIOUS
  <1>7. OnePlace' /\ Tracked' /\ Buffers'
    BY <1>5, <1>6, PlacesKept DEF IInv
  <1>8. NoLostPoll'
    BY <1>1 DEF IInv, TypeOK, ThreadShape, InCall, NoLostPoll, PollComes
  <1> QED BY <1>2, <1>3, <1>4, <1>7, <1>8 DEF IInv

(* The backlog is empty. *)
LEMMA DrainEmptyKeeps ==
    ASSUME IInv, DrainEmpty
    PROVE  IInv'
  <1> Worker \in Threads
    BY DEF Threads
  <1> USE DEF DrainEmpty, Goto, lists, waiting, work, device, owner
  <1>1. TypeOK /\ ThreadShape
    BY DEF IInv
  <1>2. TypeOK'
    BY <1>1 DEF TypeOK, Labels
  <1>3. ThreadShape'
    BY <1>1 DEF TypeOK, ThreadShape, InCall
  <1>4. ResultIsOwn' /\ CountsAgree' /\ BacklogRoom'
    BY <1>1 DEF IInv, TypeOK, ResultIsOwn, CountsAgree, BacklogRoom
  <1>5. \A u \in Threads : /\ Holds(u)' <=> Holds(u)
                           /\ Holds(u) => Owed(u)' = Owed(u)
    BY <1>1 DEF TypeOK, Holds, Owed
  <1>6. pending' = pending /\ backlog' = backlog /\ app' = app /\ res' = res
    OBVIOUS
  <1>7. OnePlace' /\ Tracked' /\ Buffers'
    BY <1>5, <1>6, PlacesKept DEF IInv
  <1>8. NoLostPoll'
    BY <1>1 DEF IInv, TypeOK, ThreadShape, InCall, NoLostPoll, PollComes
  <1> QED BY <1>2, <1>3, <1>4, <1>7, <1>8 DEF IInv

(* The worker reads total_pending, ... *)
LEMMA ReadPendingKeeps ==
    ASSUME IInv, ReadPending
    PROVE  IInv'
  <1> Worker \in Threads
    BY DEF Threads
  <1> USE DEF ReadPending, Goto, lists, waiting, device, owner
  <1>1. TypeOK /\ ThreadShape
    BY DEF IInv
  <1>2. TypeOK'
    BY <1>1 DEF TypeOK, Labels
  <1>3. ThreadShape'
    BY <1>1 DEF TypeOK, ThreadShape, InCall
  <1>4. ResultIsOwn' /\ CountsAgree' /\ BacklogRoom'
    BY <1>1 DEF IInv, TypeOK, ResultIsOwn, CountsAgree, BacklogRoom
  <1>5. \A u \in Threads : /\ Holds(u)' <=> Holds(u)
                           /\ Holds(u) => Owed(u)' = Owed(u)
    BY <1>1 DEF TypeOK, Holds, Owed
  <1>6. pending' = pending /\ backlog' = backlog /\ app' = app /\ res' = res
    OBVIOUS
  <1>7. OnePlace' /\ Tracked' /\ Buffers'
    BY <1>5, <1>6, PlacesKept DEF IInv
  <1>8. NoLostPoll'
    <2>1. ring \in Seq(Op) /\ total_pending = Len(ring)
      BY <1>1 DEF IInv, TypeOK, CountsAgree, ResultIsOwn
    <2>2. Len(ring) \in Nat /\ DOMAIN ring = 1 .. Len(ring)
      BY <2>1, LenProperties
    <2>3. CASE Len(ring) = 0
      BY <2>2, <2>3 DEF NoLostPoll
    <2>4. CASE Len(ring) > 0
      <3>1. pending_seen' /\ pc'[Worker] = "resched"
        BY <1>1, <2>1, <2>4 DEF TypeOK
      <3> QED BY <3>1 DEF NoLostPoll, PollComes
    <2> QED BY <2>2, <2>3, <2>4
  <1> QED BY <1>2, <1>3, <1>4, <1>7, <1>8 DEF IInv

(* ... then backlog_count, and queues itself again or ends. *)
LEMMA ReschedKeeps ==
    ASSUME IInv, Resched
    PROVE  IInv'
  <1> Worker \in Threads
    BY DEF Threads
  <1> USE DEF Resched, Goto, lists, waiting, device, owner
  <1>1. TypeOK /\ ThreadShape
    BY DEF IInv
  <1>2. TypeOK'
    BY <1>1 DEF TypeOK, Labels
  <1>3. ThreadShape'
    BY <1>1 DEF TypeOK, ThreadShape, InCall
  <1>4. ResultIsOwn' /\ CountsAgree' /\ BacklogRoom'
    BY <1>1 DEF IInv, TypeOK, ResultIsOwn, CountsAgree, BacklogRoom
  <1>5. \A u \in Threads : /\ Holds(u)' <=> Holds(u)
                           /\ Holds(u) => Owed(u)' = Owed(u)
    BY <1>1 DEF TypeOK, Holds, Owed
  <1>6. pending' = pending /\ backlog' = backlog /\ app' = app /\ res' = res
    OBVIOUS
  <1>7. OnePlace' /\ Tracked' /\ Buffers'
    BY <1>5, <1>6, PlacesKept DEF IInv
  <1>8. NoLostPoll'
    BY <1>1 DEF IInv, TypeOK, ThreadShape, InCall, NoLostPoll, PollComes
  <1> QED BY <1>2, <1>3, <1>4, <1>7, <1>8 DEF IInv

(* The completion of the own request ends the call with its result. *)
LEMMA SpinOwnKeeps ==
    ASSUME IInv, NEW t \in Threads, SpinOwn(t)
    PROVE  IInv'
  <1> Worker \in Threads
    BY DEF Threads
  <1>1. TypeOK /\ ThreadShape /\ TakeCompletion(t)
    BY DEF IInv, SpinOwn
  <1>2. /\ pending' \in Seq(Reqs) /\ ring' \in Seq(Op)
        /\ Len(ring) \in Nat \ {0} /\ Len(ring') = Len(ring) - 1
        /\ DOMAIN ring = 1 .. Len(ring) /\ DOMAIN ring' = 1 .. Len(ring')
        /\ \A i \in 1 .. Len(ring') : ring'[i] = ring[i + 1]
        /\ ring[1] = Head(ring) /\ Head(ring).st \in Status
        /\ Head(pending) \in Reqs
        /\ \A i \in 1 .. Len(ring') : ring'[i].req # Head(pending)
    BY <1>1, TakeFacts
  <1>3. /\ got' \in [Threads -> [req : Reqs, op : Op] \cup {None}]
        /\ got'[t] = [req |-> Head(pending), op |-> Head(ring)]
        /\ got'[t] \in [req : Reqs, op : Op]
        /\ \A u \in Threads \ {t} : got'[u] = got[u]
    BY <1>1, TakeFacts
  <1>4. /\ \A q : Within(q, pending) <=> Within(q, pending') \/ q = Head(pending)
        /\ Distinct(pending') /\ ~Within(Head(pending), pending')
    BY <1>1, TakeFacts
  <1>5. /\ ResultIsOwn'
        /\ pending_count' \in Nat /\ total_pending' \in Nat
        /\ pending_count' = Len(pending') /\ total_pending' = Len(pending')
        /\ pending_count' <= MaxInFlight
    BY <1>1, TakeFacts
  <1> USE DEF SpinOwn, Return, Goto, waiting, work, owner
  <1>6. TypeOK'
    BY <1>1, <1>2, <1>3, <1>5 DEF TypeOK, Labels
  <1>7. ThreadShape'
    BY <1>1, <1>2, <1>3 DEF TypeOK, ThreadShape, InCall
  <1>8. CountsAgree' /\ BacklogRoom'
    BY <1>1, <1>5 DEF IInv, TypeOK, CountsAgree, BacklogRoom
  <1>9. /\ \A u \in Threads \ {t} : (Holds(u)' <=> Holds(u)) /\ Owed(u)' = Owed(u)
        /\ ~Holds(t) /\ Holds(t)' /\ Owed(t)' = Head(pending)
    BY <1>1, <1>2, <1>3 DEF TypeOK, Holds, Owed
  <1>10. OnePlace' /\ Tracked' /\ Buffers'
    <2>1. backlog' = backlog /\ app' = app /\ res' = res
      OBVIOUS
    <2> DEFINE r == Head(pending)
    <2> HIDE DEF SpinOwn, r
    <2>2. OnePlace'
      BY <1>2, <1>4, <1>9, <2>1 DEF IInv, OnePlace, r
    <2>3. Tracked' /\ Buffers'
      BY <1>2, <1>4, <1>9, <2>1 DEF IInv, Tracked, Buffers, r
    <2> QED BY <2>2, <2>3
  <1>11. NoLostPoll'
    <2>1. CASE PollComes
      BY <1>1, <2>1 DEF TypeOK, NoLostPoll, PollComes
    <2>2. ASSUME ~PollComes, NEW i \in 1 .. Len(ring')
          PROVE  LET d == ring'[i].by IN
                    /\ rctx'[d] = ring'[i].req
                    /\ \/ pc'[d] \in {"spin", "finish", "relock"}
                       \/ pc'[d] = "ret" /\ rc'[d] = "einprogress"
      <3> DEFINE d == ring[i + 1].by
      <3>1. i + 1 \in DOMAIN ring /\ ring'[i] = ring[i + 1]
        BY <1>2, SMTT(40)
      <3>2. d \in Threads
        <4>1. ring \in Seq(Op) /\ i + 1 \in 1 .. Len(ring)
          BY <1>1, <1>2, <3>1 DEF TypeOK
        <4>2. ring[i + 1] \in Op
          BY <4>1, ElementOfSeq
        <4> QED BY <4>2 DEF Op
      <3>3. /\ rctx[d] = ring[i + 1].req
            /\ \/ pc[d] \in {"spin", "finish", "relock"}
               \/ pc[d] = "ret" /\ rc[d] = "einprogress"
        BY <2>2, <3>1 DEF IInv, NoLostPoll
      <3>4. ring[i + 1].req # Head(pending)
        BY <1>2, <3>1
      <3> HIDE DEF d
      <3>5. /\ rctx'[d] = ring[i + 1].req
            /\ \/ pc'[d] \in {"spin", "finish", "relock"}
               \/ pc'[d] = "ret" /\ rc'[d] = "einprogress"
        BY <1>1, <3>2, <3>3, <3>4 DEF TypeOK
      <3> QED BY <3>1, <3>5 DEF d
    <2> QED BY <1>2, <2>1, <2>2 DEF NoLostPoll
  <1> QED BY <1>5, <1>6, <1>7, <1>8, <1>10, <1>11 DEF IInv

(* The completion of another request: the call now owes its answer. *)
LEMMA SpinOtherKeeps ==
    ASSUME IInv, NEW t \in Threads, SpinOther(t)
    PROVE  IInv'
  <1> Worker \in Threads
    BY DEF Threads
  <1>1. TypeOK /\ ThreadShape /\ TakeCompletion(t)
    BY DEF IInv, SpinOther
  <1>2. /\ pending' \in Seq(Reqs) /\ ring' \in Seq(Op)
        /\ Len(ring) \in Nat \ {0} /\ Len(ring') = Len(ring) - 1
        /\ DOMAIN ring = 1 .. Len(ring) /\ DOMAIN ring' = 1 .. Len(ring')
        /\ \A i \in 1 .. Len(ring') : ring'[i] = ring[i + 1]
        /\ ring[1] = Head(ring) /\ Head(ring).st \in Status
        /\ Head(pending) \in Reqs
        /\ \A i \in 1 .. Len(ring') : ring'[i].req # Head(pending)
    BY <1>1, TakeFacts
  <1>3. /\ got' \in [Threads -> [req : Reqs, op : Op] \cup {None}]
        /\ got'[t] = [req |-> Head(pending), op |-> Head(ring)]
        /\ got'[t] \in [req : Reqs, op : Op]
        /\ \A u \in Threads \ {t} : got'[u] = got[u]
    BY <1>1, TakeFacts
  <1>4. /\ \A q : Within(q, pending) <=> Within(q, pending') \/ q = Head(pending)
        /\ Distinct(pending') /\ ~Within(Head(pending), pending')
    BY <1>1, TakeFacts
  <1>5. /\ ResultIsOwn'
        /\ pending_count' \in Nat /\ total_pending' \in Nat
        /\ pending_count' = Len(pending') /\ total_pending' = Len(pending')
        /\ pending_count' <= MaxInFlight
    BY <1>1, TakeFacts
  <1> USE DEF SpinOther, Goto, waiting, work, owner
  <1>6. TypeOK'
    BY <1>1, <1>2, <1>3, <1>5 DEF TypeOK, Labels
  <1>7. ThreadShape'
    BY <1>1, <1>2, <1>3 DEF TypeOK, ThreadShape, InCall
  <1>8. CountsAgree' /\ BacklogRoom'
    BY <1>1, <1>5 DEF IInv, TypeOK, CountsAgree, BacklogRoom
  <1>9. /\ \A u \in Threads \ {t} : (Holds(u)' <=> Holds(u)) /\ Owed(u)' = Owed(u)
        /\ ~Holds(t) /\ Holds(t)' /\ Owed(t)' = Head(pending)
    BY <1>1, <1>2, <1>3 DEF TypeOK, Holds, Owed
  <1>10. OnePlace' /\ Tracked' /\ Buffers'
    <2>1. backlog' = backlog /\ app' = app /\ res' = res
      OBVIOUS
    <2> DEFINE r == Head(pending)
    <2> HIDE DEF SpinOther, r
    <2>2. OnePlace'
      BY <1>2, <1>4, <1>9, <2>1 DEF IInv, OnePlace, r
    <2>3. Tracked' /\ Buffers'
      BY <1>2, <1>4, <1>9, <2>1 DEF IInv, Tracked, Buffers, r
    <2> QED BY <2>2, <2>3
  <1>11. NoLostPoll'
    <2>1. CASE PollComes
      BY <1>1, <2>1 DEF TypeOK, NoLostPoll, PollComes
    <2>2. ASSUME ~PollComes, NEW i \in 1 .. Len(ring')
          PROVE  LET d == ring'[i].by IN
                    /\ rctx'[d] = ring'[i].req
                    /\ \/ pc'[d] \in {"spin", "finish", "relock"}
                       \/ pc'[d] = "ret" /\ rc'[d] = "einprogress"
      <3> DEFINE d == ring[i + 1].by
      <3>1. i + 1 \in DOMAIN ring /\ ring'[i] = ring[i + 1]
        BY <1>2
      <3>2. d \in Threads
        <4>1. ring \in Seq(Op) /\ i + 1 \in 1 .. Len(ring)
          BY <1>1, <1>2, <3>1 DEF TypeOK
        <4>2. ring[i + 1] \in Op
          BY <4>1, ElementOfSeq
        <4> QED BY <4>2 DEF Op
      <3>3. /\ rctx[d] = ring[i + 1].req
            /\ \/ pc[d] \in {"spin", "finish", "relock"}
               \/ pc[d] = "ret" /\ rc[d] = "einprogress"
        BY <2>2, <3>1 DEF IInv, NoLostPoll
      <3>4. ring[i + 1].req # Head(pending)
        BY <1>2, <3>1
      <3> HIDE DEF d
      <3>5. /\ rctx'[d] = ring[i + 1].req
            /\ \/ pc'[d] \in {"spin", "finish", "relock"}
               \/ pc'[d] = "ret" /\ rc'[d] = "einprogress"
        BY <1>1, <3>2, <3>3, <3>4 DEF TypeOK
      <3> QED BY <3>1, <3>5 DEF d
    <2> QED BY <1>2, <2>1, <2>2 DEF NoLostPoll
  <1> QED BY <1>5, <1>6, <1>7, <1>8, <1>10, <1>11 DEF IInv

(* A completion the worker takes. *)
LEMMA PollTakeKeeps ==
    ASSUME IInv, PollTake
    PROVE  IInv'
  <1> Worker \in Threads
    BY DEF Threads
  <1>1. TypeOK /\ ThreadShape /\ TakeCompletion(Worker)
    BY DEF IInv, PollTake
  <1>2. /\ pending' \in Seq(Reqs) /\ ring' \in Seq(Op)
        /\ Len(ring) \in Nat \ {0} /\ Len(ring') = Len(ring) - 1
        /\ DOMAIN ring = 1 .. Len(ring) /\ DOMAIN ring' = 1 .. Len(ring')
        /\ \A i \in 1 .. Len(ring') : ring'[i] = ring[i + 1]
        /\ ring[1] = Head(ring) /\ Head(ring).st \in Status
        /\ Head(pending) \in Reqs
        /\ \A i \in 1 .. Len(ring') : ring'[i].req # Head(pending)
    BY <1>1, TakeFacts
  <1>3. /\ got' \in [Threads -> [req : Reqs, op : Op] \cup {None}]
        /\ got'[Worker] = [req |-> Head(pending), op |-> Head(ring)]
        /\ got'[Worker] \in [req : Reqs, op : Op]
        /\ \A u \in Threads \ {Worker} : got'[u] = got[u]
    BY <1>1, TakeFacts
  <1>4. /\ \A q : Within(q, pending) <=> Within(q, pending') \/ q = Head(pending)
        /\ Distinct(pending') /\ ~Within(Head(pending), pending')
    BY <1>1, TakeFacts
  <1>5. /\ ResultIsOwn'
        /\ pending_count' \in Nat /\ total_pending' \in Nat
        /\ pending_count' = Len(pending') /\ total_pending' = Len(pending')
        /\ pending_count' <= MaxInFlight
    BY <1>1, TakeFacts
  <1> USE DEF PollTake, Goto, waiting, work, owner
  <1>6. TypeOK'
    BY <1>1, <1>2, <1>3, <1>5 DEF TypeOK, Labels
  <1>7. ThreadShape'
    BY <1>1, <1>2, <1>3 DEF TypeOK, ThreadShape, InCall
  <1>8. CountsAgree' /\ BacklogRoom'
    BY <1>1, <1>5 DEF IInv, TypeOK, CountsAgree, BacklogRoom
  <1>9. /\ \A u \in Threads \ {Worker} : (Holds(u)' <=> Holds(u)) /\ Owed(u)' = Owed(u)
        /\ ~Holds(Worker) /\ Holds(Worker)' /\ Owed(Worker)' = Head(pending)
    BY <1>1, <1>2, <1>3 DEF TypeOK, Holds, Owed
  <1>10. OnePlace' /\ Tracked' /\ Buffers'
    <2>1. backlog' = backlog /\ app' = app /\ res' = res
      OBVIOUS
    <2> DEFINE r == Head(pending)
    <2> HIDE DEF PollTake, r
    <2>2. OnePlace'
      BY <1>2, <1>4, <1>9, <2>1 DEF IInv, OnePlace, r
    <2>3. Tracked' /\ Buffers'
      BY <1>2, <1>4, <1>9, <2>1 DEF IInv, Tracked, Buffers, r
    <2> QED BY <2>2, <2>3
  <1>11. NoLostPoll'
    BY <1>1, <1>2 DEF IInv, TypeOK, NoLostPoll, PollComes
  <1> QED BY <1>5, <1>6, <1>7, <1>8, <1>10, <1>11 DEF IInv

(* A caller that spins completes the request of somebody else. *)
LEMMA FinishOtherKeeps ==
    ASSUME IInv, NEW t \in Threads, FinishOther(t)
    PROVE  IInv'
  <1> Worker \in Threads
    BY DEF Threads
  <1> USE DEF FinishOther, Goto, lists, waiting, work, device
  <1>1. TypeOK /\ ThreadShape
    BY DEF IInv
  <1>2. got[t].req \in Reqs /\ Answer(got[t].req)
    BY <1>1 DEF TypeOK, ThreadShape, InCall
  <1>3. TypeOK'
    BY <1>1, <1>2 DEF TypeOK, Labels, Answer
  <1>4. ThreadShape'
    BY <1>1 DEF TypeOK, ThreadShape, InCall
  <1>5. ResultIsOwn' /\ CountsAgree' /\ BacklogRoom'
    BY <1>1 DEF IInv, TypeOK, ResultIsOwn, CountsAgree, BacklogRoom
  <1>6. /\ \A u \in Threads \ {t} : (Holds(u)' <=> Holds(u)) /\ Owed(u)' = Owed(u)
        /\ Holds(t) /\ ~Holds(t)' /\ Owed(t) = got[t].req
    BY <1>1 DEF TypeOK, Holds, Owed
  <1>7. pending' = pending /\ backlog' = backlog
    OBVIOUS
  <1>8. OnePlace' /\ Tracked' /\ Buffers'
    BY <1>1, <1>2, <1>6, <1>7, AnswerKeepsPlaces DEF IInv
  <1>9. NoLostPoll'
    BY <1>1 DEF IInv, TypeOK, ThreadShape, InCall, NoLostPoll, PollComes
  <1> QED BY <1>3, <1>4, <1>5, <1>8, <1>9 DEF IInv

(* The worker completes a request. *)
LEMMA PollFinishKeeps ==
    ASSUME IInv, PollFinish
    PROVE  IInv'
  <1> Worker \in Threads
    BY DEF Threads
  <1> USE DEF PollFinish, Goto, lists, waiting, device
  <1>1. TypeOK /\ ThreadShape
    BY DEF IInv
  <1>2. got[Worker].req \in Reqs /\ Answer(got[Worker].req)
    BY <1>1 DEF TypeOK, ThreadShape, InCall
  <1>3. TypeOK'
    BY <1>1, <1>2 DEF TypeOK, Labels, Answer
  <1>4. ThreadShape'
    BY <1>1 DEF TypeOK, ThreadShape, InCall
  <1>5. ResultIsOwn' /\ CountsAgree' /\ BacklogRoom'
    BY <1>1 DEF IInv, TypeOK, ResultIsOwn, CountsAgree, BacklogRoom
  <1>6. /\ \A u \in Threads \ {Worker} : (Holds(u)' <=> Holds(u)) /\ Owed(u)' = Owed(u)
        /\ Holds(Worker) /\ ~Holds(Worker)' /\ Owed(Worker) = got[Worker].req
    BY <1>1 DEF TypeOK, Holds, Owed
  <1>7. pending' = pending /\ backlog' = backlog
    OBVIOUS
  <1>8. OnePlace' /\ Tracked' /\ Buffers'
    BY <1>1, <1>2, <1>6, <1>7, AnswerKeepsPlaces DEF IInv
  <1>9. NoLostPoll'
    BY <1>1 DEF IInv, TypeOK, ThreadShape, InCall, NoLostPoll, PollComes
  <1> QED BY <1>3, <1>4, <1>5, <1>8, <1>9 DEF IInv

(* The caller returns with the result of its own operation. *)
LEMMA ReturnSyncKeeps ==
    ASSUME IInv, NEW c \in Callers, ReturnSync(c)
    PROVE  IInv'
  <1> c \in Threads /\ c # Worker /\ Worker \in Threads
    BY DEF Threads
  <1> USE DEF ReturnSync, Leave, Goto, lists, waiting, work, device
  <1>1. TypeOK /\ ThreadShape
    BY DEF IInv
  <1>2. rctx[c] \in Reqs /\ Answer(rctx[c])
    BY <1>1 DEF TypeOK, ThreadShape, InCall
  <1>3. TypeOK'
    BY <1>1, <1>2 DEF TypeOK, Labels, Answer
  <1>4. ThreadShape'
    BY <1>1 DEF TypeOK, ThreadShape, InCall
  <1>5. ResultIsOwn' /\ CountsAgree' /\ BacklogRoom'
    BY <1>1 DEF IInv, TypeOK, ResultIsOwn, CountsAgree, BacklogRoom
  <1>6. /\ \A u \in Threads \ {c} : (Holds(u)' <=> Holds(u)) /\ Owed(u)' = Owed(u)
        /\ Holds(c) /\ ~Holds(c)' /\ Owed(c) = rctx[c]
    BY <1>1 DEF TypeOK, Holds, Owed
  <1>7. pending' = pending /\ backlog' = backlog
    OBVIOUS
  <1>8. OnePlace' /\ Tracked' /\ Buffers'
    BY <1>1, <1>2, <1>6, <1>7, AnswerKeepsPlaces DEF IInv
  <1>9. NoLostPoll'
    BY <1>1 DEF IInv, TypeOK, ThreadShape, InCall, NoLostPoll, PollComes
  <1> QED BY <1>3, <1>4, <1>5, <1>8, <1>9 DEF IInv

(* The backlog has no room. *)
LEMMA BacklogFullKeeps ==
    ASSUME IInv, NEW c \in Callers, BacklogFull(c)
    PROVE  IInv'
  <1> c \in Threads /\ c # Worker /\ Worker \in Threads
    BY DEF Threads
  <1> USE DEF BacklogFull, Leave, Goto, lists, waiting, work, device
  <1>1. TypeOK /\ ThreadShape
    BY DEF IInv
  <1>2. rctx[c] \in Reqs /\ Answer(rctx[c])
    BY <1>1 DEF TypeOK, ThreadShape, InCall
  <1>3. TypeOK'
    BY <1>1, <1>2 DEF TypeOK, Labels, Answer
  <1>4. ThreadShape'
    BY <1>1 DEF TypeOK, ThreadShape, InCall
  <1>5. ResultIsOwn' /\ CountsAgree' /\ BacklogRoom'
    BY <1>1 DEF IInv, TypeOK, ResultIsOwn, CountsAgree, BacklogRoom
  <1>6. /\ \A u \in Threads \ {c} : (Holds(u)' <=> Holds(u)) /\ Owed(u)' = Owed(u)
        /\ Holds(c) /\ ~Holds(c)' /\ Owed(c) = rctx[c]
    BY <1>1 DEF TypeOK, Holds, Owed
  <1>7. pending' = pending /\ backlog' = backlog
    OBVIOUS
  <1>8. OnePlace' /\ Tracked' /\ Buffers'
    BY <1>1, <1>2, <1>6, <1>7, AnswerKeepsPlaces DEF IInv
  <1>9. NoLostPoll'
    BY <1>1 DEF IInv, TypeOK, ThreadShape, InCall, NoLostPoll, PollComes
  <1> QED BY <1>3, <1>4, <1>5, <1>8, <1>9 DEF IInv

(* A request of the backlog is complete. *)
LEMMA DrainDoneKeeps ==
    ASSUME IInv, DrainDone
    PROVE  IInv'
  <1> Worker \in Threads
    BY DEF Threads
  <1> USE DEF DrainDone, Leave, Goto, lists, waiting, work, device
  <1>1. TypeOK /\ ThreadShape
    BY DEF IInv
  <1>2. rctx[Worker] \in Reqs /\ Answer(rctx[Worker])
    BY <1>1 DEF TypeOK, ThreadShape, InCall
  <1>3. TypeOK'
    BY <1>1, <1>2 DEF TypeOK, Labels, Answer
  <1>4. ThreadShape'
    BY <1>1 DEF TypeOK, ThreadShape, InCall
  <1>5. ResultIsOwn' /\ CountsAgree' /\ BacklogRoom'
    BY <1>1 DEF IInv, TypeOK, ResultIsOwn, CountsAgree, BacklogRoom
  <1>6. /\ \A u \in Threads \ {Worker} : (Holds(u)' <=> Holds(u)) /\ Owed(u)' = Owed(u)
        /\ Holds(Worker) /\ ~Holds(Worker)' /\ Owed(Worker) = rctx[Worker]
    BY <1>1 DEF TypeOK, Holds, Owed
  <1>7. pending' = pending /\ backlog' = backlog
    OBVIOUS
  <1>8. OnePlace' /\ Tracked' /\ Buffers'
    BY <1>1, <1>2, <1>6, <1>7, AnswerKeepsPlaces DEF IInv
  <1>9. NoLostPoll'
    BY <1>1 DEF IInv, TypeOK, ThreadShape, InCall, NoLostPoll, PollComes
  <1> QED BY <1>3, <1>4, <1>5, <1>8, <1>9 DEF IInv

(* The backlog takes the request over from the call that got ENOSPC. *)
LEMMA BacklogAddKeeps ==
    ASSUME IInv, NEW c \in Callers, BacklogAdd(c)
    PROVE  IInv'
  <1> c \in Threads /\ c # Worker /\ Worker \in Threads
    BY DEF Threads
  <1> USE DEF BacklogAdd, Goto, lists, work, device, owner
  <1>1. TypeOK /\ ThreadShape
    BY DEF IInv
  <1> DEFINE r == rctx[c]
  <1>2. r \in Reqs /\ backlog \in Seq(Reqs)
    BY <1>1 DEF TypeOK, ThreadShape, InCall
  <1>3. /\ backlog' \in Seq(Reqs)
        /\ Len(backlog) \in Nat /\ Len(backlog') = Len(backlog) + 1
        /\ \A q : Within(q, backlog') <=> Within(q, backlog) \/ q = r
        /\ Distinct(backlog) /\ ~Within(r, backlog) => Distinct(backlog')
    BY <1>2, AddTail, LenProperties
  <1>4. TypeOK'
    BY <1>1, <1>3 DEF TypeOK, Labels
  <1>5. ThreadShape'
    BY <1>1 DEF TypeOK, ThreadShape, InCall
  <1>6. ResultIsOwn' /\ CountsAgree' /\ BacklogRoom'
    BY <1>1, <1>3 DEF IInv, TypeOK, ResultIsOwn, CountsAgree, BacklogRoom
  <1>7. /\ \A u \in Threads \ {c} : (Holds(u)' <=> Holds(u)) /\ Owed(u)' = Owed(u)
        /\ ~Holds(c)' /\ Holds(c) /\ Owed(c) = r
    BY <1>1 DEF TypeOK, Holds, Owed
  <1>8. OnePlace' /\ Tracked' /\ Buffers'
    <2>1. pending' = pending /\ app' = app /\ res' = res
      OBVIOUS
    <2> HIDE DEF BacklogAdd, r
    <2>2. OnePlace'
      BY <1>2, <1>3, <1>7, <2>1 DEF IInv, OnePlace
    <2>3. Tracked' /\ Buffers'
      BY <1>2, <1>3, <1>7, <2>1 DEF IInv, Tracked, Buffers
    <2> QED BY <2>2, <2>3
  <1>9. NoLostPoll'
    BY <1>1 DEF IInv, TypeOK, ThreadShape, InCall, NoLostPoll, PollComes
  <1> QED BY <1>4, <1>5, <1>6, <1>8, <1>9 DEF IInv

(* al_ssm_drain_backlog takes the oldest request over from the backlog. *)
LEMMA DrainTakeKeeps ==
    ASSUME IInv, DrainTake
    PROVE  IInv'
  <1> Worker \in Threads
    BY DEF Threads
  <1> USE DEF DrainTake, Goto, lists, work, device, owner
  <1>1. TypeOK /\ ThreadShape
    BY DEF IInv
  <1> DEFINE r == Head(backlog)
  <1>2. backlog \in Seq(Reqs) /\ backlog # <<>>
    BY <1>1 DEF TypeOK
  <1>3. /\ backlog' \in Seq(Reqs) /\ r \in Reqs
        /\ Len(backlog) \in Nat \ {0} /\ Len(backlog') = Len(backlog) - 1
        /\ \A q : Within(q, backlog) <=> Within(q, backlog') \/ q = r
        /\ Distinct(backlog) => Distinct(backlog') /\ ~Within(r, backlog')
    BY <1>2, DelHead
  <1>4. CountsAgree' /\ BacklogRoom' /\ backlog_count' \in Nat
    BY <1>1, <1>3 DEF IInv, TypeOK, CountsAgree, BacklogRoom
  <1>5. TypeOK'
    BY <1>1, <1>3, <1>4 DEF TypeOK, Labels
  <1>6. ThreadShape'
    BY <1>1, <1>3 DEF TypeOK, ThreadShape, InCall
  <1>7. ResultIsOwn'
    BY DEF IInv, ResultIsOwn
  <1>8. /\ \A u \in Threads \ {Worker} : (Holds(u)' <=> Holds(u)) /\ Owed(u)' = Owed(u)
        /\ Holds(Worker)' /\ ~Holds(Worker) /\ Owed(Worker)' = r
    BY <1>1 DEF TypeOK, Holds, Owed
  <1>9. OnePlace' /\ Tracked' /\ Buffers'
    <2>1. pending' = pending /\ app' = app /\ res' = res
      OBVIOUS
    <2> HIDE DEF DrainTake, r
    <2>2. OnePlace'
      BY <1>3, <1>8, <2>1 DEF IInv, OnePlace
    <2>3. Tracked' /\ Buffers'
      BY <1>3, <1>8, <2>1 DEF IInv, Tracked, Buffers
    <2> QED BY <2>2, <2>3
  <1>10. NoLostPoll'
    BY <1>1 DEF IInv, TypeOK, NoLostPoll, PollComes
  <1> QED BY <1>4, <1>5, <1>6, <1>7, <1>9, <1>10 DEF IInv

(* A request that still does not fit goes back to the front of the backlog. *)
LEMMA DrainPutBackKeeps ==
    ASSUME IInv, DrainPutBack
    PROVE  IInv'
  <1> Worker \in Threads
    BY DEF Threads
  <1> USE DEF DrainPutBack, Leave, Goto, lists, work, device, owner
  <1>1. TypeOK /\ ThreadShape
    BY DEF IInv
  <1> DEFINE r == rctx[Worker]
  <1>2. r \in Reqs /\ backlog \in Seq(Reqs)
    BY <1>1 DEF TypeOK, ThreadShape, InCall
  <1>3. /\ backlog' \in Seq(Reqs)
        /\ Len(backlog) \in Nat /\ Len(backlog') = Len(backlog) + 1
        /\ \A q : Within(q, backlog') <=> Within(q, backlog) \/ q = r
        /\ Distinct(backlog) /\ ~Within(r, backlog) => Distinct(backlog')
    BY <1>2, AddHead, LenProperties
  <1>4. TypeOK'
    BY <1>1, <1>3 DEF TypeOK, Labels
  <1>5. ThreadShape'
    BY <1>1 DEF TypeOK, ThreadShape, InCall
  <1>6. ResultIsOwn' /\ CountsAgree' /\ BacklogRoom'
    BY <1>1, <1>2, <1>3 DEF IInv, TypeOK, ResultIsOwn, CountsAgree, BacklogRoom
  <1>7. /\ \A u \in Threads \ {Worker} : (Holds(u)' <=> Holds(u)) /\ Owed(u)' = Owed(u)
        /\ ~Holds(Worker)' /\ Holds(Worker) /\ Owed(Worker) = r
    BY <1>1 DEF TypeOK, Holds, Owed
  <1>8. OnePlace' /\ Tracked' /\ Buffers'
    <2>1. pending' = pending /\ app' = app /\ res' = res
      OBVIOUS
    <2> HIDE DEF DrainPutBack, r
    <2>2. OnePlace'
      BY <1>2, <1>3, <1>7, <2>1 DEF IInv, OnePlace
    <2>3. Tracked' /\ Buffers'
      BY <1>2, <1>3, <1>7, <2>1 DEF IInv, Tracked, Buffers
    <2> QED BY <2>2, <2>3
  <1>9. NoLostPoll'
    BY <1>1 DEF IInv, TypeOK, NoLostPoll, PollComes
  <1> QED BY <1>4, <1>5, <1>6, <1>8, <1>9 DEF IInv

(* The engine finishes an operation: only its state changes. *)
LEMMA HwDoneKeeps ==
    ASSUME IInv, NEW st \in Status, HwDone(st)
    PROVE  IInv'
  <1> Worker \in Threads
    BY DEF Threads
  <1> USE DEF lists, waiting, work, owner
  <1>1. TypeOK /\ ThreadShape /\ ring \in Seq(Op)
    BY DEF IInv, TypeOK
  <1>2. PICK i \in 1 .. Len(ring) :
           /\ ring' = [ring EXCEPT ![i].st = st]
           /\ UNCHANGED <<pc, rctx, rc, got, lock, lists, waiting, work, tx_used,
                          tx_comp, owner>>
    BY DEF HwDone
  <1>3. ring[i] \in Op
    BY <1>1, ElementOfSeq
  <1> DEFINE op == [ring[i] EXCEPT !.st = st]
  <1>4. op \in Op /\ op.req = ring[i].req /\ op.by = ring[i].by
    BY <1>3 DEF Op
  <1>5. ring' = [ring EXCEPT ![i] = op]
    BY <1>2
  <1> HIDE DEF op
  <1>6. /\ ring' \in Seq(Op) /\ Len(ring') = Len(ring)
        /\ \A j \in 1 .. Len(ring) : ring'[j] = IF j = i THEN op ELSE ring[j]
    BY <1>1, <1>4, <1>5, ExceptSeq
  <1>7. \A j \in 1 .. Len(ring) : ring'[j].req = ring[j].req /\ ring'[j].by = ring[j].by
    BY <1>4, <1>6
  <1>8. TypeOK' /\ ThreadShape'
    BY <1>1, <1>2, <1>6 DEF TypeOK, ThreadShape
  <1>9. ResultIsOwn' /\ CountsAgree' /\ BacklogRoom'
    BY <1>2, <1>6, <1>7 DEF IInv, ResultIsOwn, CountsAgree, BacklogRoom
  <1>10. OnePlace' /\ Tracked' /\ Buffers'
    <2>1. \A u \in Threads : /\ Holds(u)' <=> Holds(u)
                             /\ Holds(u) => Owed(u)' = Owed(u)
      BY <1>2 DEF Holds, Owed
    <2>2. pending' = pending /\ backlog' = backlog /\ app' = app /\ res' = res
      BY <1>2
    <2> QED BY <2>1, <2>2, PlacesKept DEF IInv
  <1>11. NoLostPoll'
    <2>1. DOMAIN ring = 1 .. Len(ring) /\ DOMAIN ring' = 1 .. Len(ring)
      BY <1>1, <1>6, LenProperties
    <2> QED BY <1>2, <1>7, <2>1 DEF IInv, NoLostPoll, PollComes
  <1> QED BY <1>8, <1>9, <1>10, <1>11 DEF IInv

(* The engine has read the descriptors. *)
LEMMA HwTxDoneKeeps ==
    ASSUME IInv, HwTxDone
    PROVE  IInv'
  <1> USE DEF HwTxDone, lists, waiting, work, owner
  <1>1. TypeOK' /\ ThreadShape'
    BY DEF IInv, TypeOK, ThreadShape
  <1>2. ResultIsOwn' /\ CountsAgree' /\ BacklogRoom' /\ NoLostPoll'
    BY DEF IInv, ResultIsOwn, CountsAgree, BacklogRoom, NoLostPoll, PollComes
  <1>3. OnePlace' /\ Tracked' /\ Buffers'
    <2>1. \A u \in Threads : /\ Holds(u)' <=> Holds(u)
                             /\ Holds(u) => Owed(u)' = Owed(u)
      BY DEF Holds, Owed
    <2> QED BY <2>1, PlacesKept DEF IInv
  <1> QED BY <1>1, <1>2, <1>3 DEF IInv
-----------------------------------------------------------------------------
(* Every step keeps the invariant. *)
LEMMA NextKeepsIInv ==
    ASSUME IInv, [Next]_vars
    PROVE  IInv'
  <1>1. CASE \E c \in Callers, r \in Reqs : al_ssm_enqueue(c, r)
    BY <1>1, EnqueueKeeps
  <1>2. CASE \E t \in Threads : SubmitAndPoll(t)
    BY <1>2, SubmitFullKeeps, PrepareFailsKeeps, SubmitKeeps, SpinOwnKeeps,
       SpinOtherKeeps, FinishOtherKeeps, RelockKeeps, SpinTimeoutKeeps DEF SubmitAndPoll
  <1>3. CASE \E c \in Callers : EnqueueReturns(c)
    BY <1>3, ReturnSyncKeeps, ReturnInProgressKeeps, BacklogFullKeeps, BacklogAddKeeps,
       BacklogKickKeeps DEF EnqueueReturns
  <1>4. CASE WorkerStep
    BY <1>4, WorkStartKeeps, PollTakeKeeps, PollFinishKeeps, PollEndsKeeps, DrainTakeKeeps,
       DrainPutBackKeeps, DrainDoneKeeps, DrainInProgressKeeps, DrainEmptyKeeps,
       ReadPendingKeeps, ReschedKeeps DEF WorkerStep
  <1>5. CASE \E st \in Status : HwDone(st)
    BY <1>5, HwDoneKeeps
  <1>6. CASE HwTxDone
    BY <1>6, HwTxDoneKeeps
  <1>7. CASE UNCHANGED vars
    <2> USE <1>7 DEF vars, lists, waiting, work, device, owner
    <2>1. TypeOK' /\ ThreadShape' /\ BacklogRoom'
      BY DEF IInv, TypeOK, ThreadShape, BacklogRoom
    <2>2. ResultIsOwn' /\ CountsAgree' /\ NoLostPoll'
      BY DEF IInv, ResultIsOwn, CountsAgree, NoLostPoll, PollComes
    <2>3. \A u \in Threads : /\ Holds(u)' <=> Holds(u)
                             /\ Holds(u) => Owed(u)' = Owed(u)
      BY DEF Holds, Owed
    <2>4. OnePlace' /\ Tracked' /\ Buffers'
      BY <2>3, PlacesKept DEF IInv
    <2> QED BY <2>1, <2>2, <2>4 DEF IInv
  <1> QED BY <1>1, <1>2, <1>3, <1>4, <1>5, <1>6, <1>7 DEF Next

(* The places of a request are as AnsweredOnce counts them. *)
LEMMA PlacesCounted ==
    ASSUME IInv
    PROVE  AnsweredOnce
  <1> SUFFICES ASSUME NEW r \in Reqs
               PROVE  /\ Cardinality(Places(r)) = IF app[r] = "busy" THEN 1 ELSE 0
                      /\ res[r] = (app[r] = "busy")
    BY DEF AnsweredOnce
  <1>1. /\ pending \in Seq(Reqs) /\ backlog \in Seq(Reqs)
        /\ DOMAIN pending = 1 .. Len(pending) /\ DOMAIN backlog = 1 .. Len(backlog)
    BY LenProperties DEF IInv, TypeOK
  <1>2. res[r] = (app[r] = "busy")
    BY DEF IInv, Buffers, TypeOK
  <1> DEFINE atP == {j \in DOMAIN pending : pending[j] = r}
             atB == {j \in DOMAIN backlog : backlog[j] = r}
             inC == {u \in Threads :
                       /\ rctx[u] = r
                       /\ \/ pc[u] = "submit"
                          \/ pc[u] = "ret" /\ rc[u] # "einprogress"}
             inF == {u \in Threads : pc[u] \in {"finish", "pfinish"} /\ got[u].req = r}
  <1>3. Places(r) = {<<"pending", i>> : i \in atP} \cup {<<"backlog", i>> : i \in atB}
                    \cup {<<"call", t>> : t \in inC} \cup {<<"finish", t>> : t \in inF}
    BY DEF Places
  <1>4. \A u \in Threads : u \in inC \/ u \in inF <=> Holds(u) /\ Owed(u) = r
    BY DEF Holds, Owed
  <1>5. inC \cap inF = {} /\ inC \subseteq Threads /\ inF \subseteq Threads
    OBVIOUS
  <1>6. Within(r, pending) <=> atP # {}
    BY <1>1 DEF Within
  <1>7. Within(r, backlog) <=> atB # {}
    BY <1>1 DEF Within
  <1>8. /\ \A i, j \in atP : i = j
        /\ \A i, j \in atB : i = j
    BY <1>1 DEF IInv, OnePlace, Distinct
  <1>9. \A t, u \in inC \cup inF : t = u
    <2> HIDE DEF inC, inF
    <2> QED BY <1>4, <1>5 DEF IInv, OnePlace
  <1>10. app[r] = "busy" <=> atP # {} \/ atB # {} \/ inC # {} \/ inF # {}
    <2> HIDE DEF atP, atB, inC, inF
    <2> QED BY <1>4, <1>5, <1>6, <1>7 DEF IInv, Tracked
  <1>11. /\ atP = {} \/ atB = {}
         /\ atP # {} \/ atB # {} => inC = {} /\ inF = {}
    <2> HIDE DEF atP, atB, inC, inF
    <2> QED BY <1>4, <1>5, <1>6, <1>7 DEF IInv, OnePlace
  <1> HIDE DEF atP, atB, inC, inF
  <1>12. CASE app[r] # "busy"
    <2>1. Places(r) = {}
      BY <1>3, <1>10, <1>12
    <2> QED BY <1>2, <1>12, <2>1, FS_EmptySet
  <1>13. CASE app[r] = "busy"
    <2>1. \E x : Places(r) = {x}
      <3>1. CASE atP # {}
        <4> PICK i \in atP : TRUE
          BY <3>1
        <4>1. atP = {i}
          BY <1>8
        <4>2. Places(r) = {<<"pending", i>>}
          BY <1>3, <1>11, <3>1, <4>1
        <4> QED BY <4>2
      <3>2. CASE atB # {}
        <4> PICK i \in atB : TRUE
          BY <3>2
        <4>1. atB = {i}
          BY <1>8
        <4>2. Places(r) = {<<"backlog", i>>}
          BY <1>3, <1>11, <3>2, <4>1
        <4> QED BY <4>2
      <3>3. CASE inC # {}
        <4> PICK t \in inC : TRUE
          BY <3>3
        <4>1. inC = {t}
          BY <1>9
        <4>2. inF = {}
          BY <1>5, <1>9, <4>1
        <4>3. Places(r) = {<<"call", t>>}
          BY <1>3, <1>11, <3>3, <4>1, <4>2
        <4> QED BY <4>3
      <3>4. CASE inF # {}
        <4> PICK t \in inF : TRUE
          BY <3>4
        <4>1. inF = {t}
          BY <1>9
        <4>2. inC = {}
          BY <1>5, <1>9, <4>1
        <4>3. Places(r) = {<<"finish", t>>}
          BY <1>3, <1>11, <3>4, <4>1, <4>2
        <4> QED BY <4>3
      <3> QED BY <1>10, <1>13, <3>1, <3>2, <3>3, <3>4
    <2>2. PICK x : Places(r) = {x}
      BY <2>1
    <2>3. Cardinality({x}) = 1
      BY FS_Singleton
    <2> QED BY <1>2, <1>13, <2>2, <2>3
  <1> QED BY <1>12, <1>13
-----------------------------------------------------------------------------
(* The driver's state keeps its types; the TX ring never holds more        *)
(* operations than it has room for.                                        *)
THEOREM TypeCorrect == Spec => []TypeOK
  <1>1. IInv => TypeOK
    BY DEF IInv
  <1> QED BY InitIInv, NextKeepsIInv, <1>1, PTL DEF Spec

(* list_first_entry is the request that completed, however many callers    *)
(* and the worker take completions in turn.                                *)
THEOREM FirstPendingCompletes == Spec => []ResultIsOwn
  <1>1. IInv => ResultIsOwn
    BY DEF IInv
  <1> QED BY InitIInv, NextKeepsIInv, <1>1, PTL DEF Spec

(* The three counters are the lengths of the lists, and the lists keep     *)
(* their limits.                                                           *)
THEOREM CountersExact == Spec => []CountsAgree
  <1>1. IInv => CountsAgree
    BY DEF IInv
  <1> QED BY InitIInv, NextKeepsIInv, <1>1, PTL DEF Spec

(* Nothing is forgotten, freed twice or completed twice: every accepted    *)
(* request is in exactly one place until it is answered.                   *)
THEOREM EveryRequestAnsweredOnce == Spec => []AnsweredOnce
  <1> QED BY InitIInv, NextKeepsIInv, PlacesCounted, PTL DEF Spec

(* Dropping the lock before mod_delayed_work loses no pending request:     *)
(* each has a call that still polls or a poll of the worker to come.       *)
THEOREM PendingHasPoller == Spec => []NoLostPoll
  <1>1. IInv => NoLostPoll
    BY DEF IInv
  <1> QED BY InitIInv, NextKeepsIInv, <1>1, PTL DEF Spec
-----------------------------------------------------------------------------
(* The part of SInv that IInv does not contain.  First the steps that      *)
(* change no list: thread t goes on with its request, or drops it, and     *)
(* does not take a result.                                                 *)
QuietStep(t) ==
    /\ ring' = ring /\ backlog' = backlog
    /\ \A u \in Threads \ {t} : /\ pc'[u] = pc[u] /\ rctx'[u] = rctx[u]
                                 /\ rc'[u] = rc[u] /\ got'[u] = got[u]
    /\ rctx'[t] = None \/ (rctx'[t] = rctx[t] /\ pc[t] # "kick")
    /\ pc'[t] \in {"spin", "finish", "relock"} =>
            pc[t] \in {"spin", "finish", "relock"} /\ rctx'[t] = rctx[t]
    /\ ~(pc'[t] = "ret" /\ rc'[t] \in Status)

(* A step of a thread that neither takes nor gives a completion *)
LEMMA QuietStepKeepsSync ==
    ASSUME SyncPart, NEW t \in Threads, QuietStep(t)
    PROVE  SyncPart'
  <1>1. OneCall'
    BY DEF QuietStep, SyncPart, OneCall
  <1>2. BacklogLeft'
    BY DEF QuietStep, SyncPart, BacklogLeft
  <1>3. PollsOwn'
    BY DEF QuietStep, SyncPart, PollsOwn
  <1>4. SyncIsOwn'
    BY DEF QuietStep, SyncPart, SyncIsOwn
  <1> QED BY <1>1, <1>2, <1>3, <1>4 DEF SyncPart

(* Such steps of a call, ... *)
LEMMA QuietCallSteps ==
    ASSUME TypeOK, ThreadShape, NEW t \in Threads,
           \/ SubmitFull(t) \/ PrepareFails(t) \/ FinishOther(t) \/ Relock(t)
           \/ SpinTimeout(t)
    PROVE  QuietStep(t)
  <1> USE DEF QuietStep, TypeOK, Goto, Return, waiting, device
  <1>1. CASE SubmitFull(t)
    BY <1>1 DEF SubmitFull
  <1>2. CASE PrepareFails(t)
    BY <1>2 DEF PrepareFails
  <1>3. CASE FinishOther(t)
    BY <1>3 DEF FinishOther
  <1>4. CASE Relock(t)
    BY <1>4 DEF Relock
  <1>5. CASE SpinTimeout(t)
    BY <1>5 DEF SpinTimeout
  <1> QED BY <1>1, <1>2, <1>3, <1>4, <1>5

(* ... of its return ... *)
LEMMA QuietReturns ==
    ASSUME TypeOK, ThreadShape, NEW c \in Callers,
           ReturnSync(c) \/ ReturnInProgress(c) \/ BacklogFull(c) \/ BacklogKick(c)
    PROVE  QuietStep(c)
  <1> c \in Threads
    BY DEF Threads
  <1> USE DEF QuietStep, TypeOK, Goto, Leave, waiting, device
  <1>1. CASE ReturnSync(c)
    BY <1>1 DEF ReturnSync
  <1>2. CASE ReturnInProgress(c)
    BY <1>2 DEF ReturnInProgress
  <1>3. CASE BacklogFull(c)
    BY <1>3 DEF BacklogFull
  <1>4. CASE BacklogKick(c)
    BY <1>4 DEF BacklogKick
  <1> QED BY <1>1, <1>2, <1>3, <1>4

(* ... and of the worker *)
LEMMA QuietWorkerSteps ==
    ASSUME TypeOK, ThreadShape,
           \/ WorkStart \/ PollFinish \/ PollEnds \/ DrainDone \/ DrainInProgress
           \/ DrainEmpty \/ ReadPending \/ Resched
    PROVE  QuietStep(Worker)
  <1> Worker \in Threads
    BY DEF Threads
  <1> USE DEF QuietStep, TypeOK, Goto, Leave, waiting, device
  <1>1. CASE WorkStart
    BY <1>1 DEF WorkStart
  <1>2. CASE PollFinish
    BY <1>2 DEF PollFinish
  <1>3. CASE PollEnds
    BY <1>3 DEF PollEnds
  <1>4. CASE DrainDone
    BY <1>4 DEF DrainDone
  <1>5. CASE DrainInProgress
    BY <1>5 DEF DrainInProgress
  <1>6. CASE DrainEmpty
    BY <1>6 DEF DrainEmpty
  <1>7. CASE ReadPending
    BY <1>7 DEF ReadPending
  <1>8. CASE Resched
    BY <1>8 DEF Resched
  <1> QED BY <1>1, <1>2, <1>3, <1>4, <1>5, <1>6, <1>7, <1>8

(* A call begins with a request that no thread is busy with. *)
LEMMA EnqueueKeepsSync ==
    ASSUME EarlyReuse = FALSE, SInv, NEW c \in Callers, NEW r \in Reqs, al_ssm_enqueue(c, r)
    PROVE  SyncPart'
  <1> c \in Threads
    BY DEF Threads
  <1> USE DEF al_ssm_enqueue, Goto, waiting, device
  <1>1. TypeOK /\ ThreadShape /\ OneCall /\ BacklogLeft /\ PollsOwn /\ SyncIsOwn
    BY DEF SInv, IInv, SyncPart
  <1>2. OneCall'
    BY <1>1 DEF TypeOK, OneCall
  <1>3. ~Within(r, backlog)
    BY DEF SInv, IInv, Tracked
  <1>4. BacklogLeft'
    BY <1>1, <1>3 DEF TypeOK, BacklogLeft
  <1>5. PollsOwn'
    BY <1>1 DEF TypeOK, PollsOwn
  <1>6. SyncIsOwn'
    BY <1>1 DEF TypeOK, SyncIsOwn
  <1> QED BY <1>2, <1>4, <1>5, <1>6 DEF SyncPart

(* The operation a call hands to the engine is the only one of its request *)
(* there, because the request was in no other place.                       *)
LEMMA SubmitKeepsSync ==
    ASSUME SInv, NEW t \in Threads, Submit(t)
    PROVE  SyncPart'
  <1> USE DEF Submit, Goto, waiting, work, owner
  <1>1. TypeOK /\ ThreadShape /\ OneCall /\ BacklogLeft /\ PollsOwn /\ SyncIsOwn
    BY DEF SInv, IInv, SyncPart
  <1> DEFINE op == [req |-> rctx[t], by |-> t, st |-> "busy"]
  <1>2. rctx[t] # None /\ op \in Op /\ ring \in Seq(Op)
    BY <1>1 DEF TypeOK, ThreadShape, InCall, Op
  <1>3. /\ Len(ring) \in Nat /\ Len(ring') = Len(ring) + 1
        /\ \A i \in 1 .. Len(ring) : ring'[i] = ring[i]
        /\ ring'[Len(ring) + 1] = op
    BY <1>2, AddTail, LenProperties
  <1>4. \A i \in 1 .. Len(ring) : ring[i].req # rctx[t]
    <2>1. Holds(t) /\ Owed(t) = rctx[t]
      BY DEF Holds, Owed
    <2>2. ~Within(rctx[t], pending)
      BY <2>1 DEF SInv, IInv, OnePlace
    <2> QED BY <2>2 DEF SInv, IInv, ResultIsOwn, Within
  <1>5. OneCall'
    BY <1>1 DEF TypeOK, OneCall
  <1>6. BacklogLeft'
    BY <1>1 DEF TypeOK, BacklogLeft
  <1>7. PollsOwn'
    <2> SUFFICES ASSUME NEW u \in Threads, NEW i \in 1 .. Len(ring'),
                        pc'[u] \in {"spin", "finish", "relock"}, ring'[i].req = rctx'[u]
                 PROVE  ring'[i].by = u
      BY DEF PollsOwn
    <2>1. CASE u = t
      BY <1>3, <1>4, <2>1
    <2>2. CASE u # t /\ i \in 1 .. Len(ring)
      BY <1>1, <1>3, <2>2 DEF TypeOK, PollsOwn
    <2>3. CASE u # t /\ i = Len(ring) + 1
      <3>1. pc[u] \in {"spin", "finish", "relock"} /\ rctx[u] = rctx[t]
        BY <1>1, <1>3, <2>3 DEF TypeOK
      <3> QED BY <1>1, <1>2, <2>3, <3>1 DEF OneCall
    <2> QED BY <1>3, <2>1, <2>2, <2>3
  <1>8. SyncIsOwn'
    BY <1>1 DEF TypeOK, SyncIsOwn
  <1> QED BY <1>5, <1>6, <1>7, <1>8 DEF SyncPart

(* The call that finds its request completed finds its own operation. *)
LEMMA TakeKeepsSync ==
    ASSUME SInv, NEW t \in Threads, SpinOwn(t) \/ SpinOther(t) \/ (PollTake /\ t = Worker)
    PROVE  SyncPart'
  <1>1. TypeOK /\ ThreadShape /\ OneCall /\ BacklogLeft /\ PollsOwn /\ SyncIsOwn
    BY DEF SInv, IInv, SyncPart
  <1>2. TakeCompletion(t) /\ UNCHANGED <<rctx, backlog>>
    BY DEF SpinOwn, SpinOther, PollTake, waiting
  <1>3. /\ Len(ring) \in Nat \ {0} /\ Len(ring') = Len(ring) - 1
        /\ \A i \in 1 .. Len(ring') : ring'[i] = ring[i + 1]
        /\ ring[1] = Head(ring) /\ Head(pending) = Head(ring).req
        /\ got'[t] = [req |-> Head(pending), op |-> Head(ring)]
        /\ \A u \in Threads \ {t} : got'[u] = got[u]
    BY <1>2, TakeFacts DEF SInv
  <1>4. /\ \A u \in Threads \ {t} : pc'[u] = pc[u] /\ rc'[u] = rc[u]
        /\ pc[t] \in {"spin", "poll"}
        /\ pc'[t] \in {"ret", "finish", "pfinish"}
        /\ pc'[t] # "pfinish" => pc[t] = "spin"
        /\ pc'[t] = "ret" => Head(pending) = rctx[t]
    BY <1>1 DEF SpinOwn, SpinOther, PollTake, Return, Goto, TypeOK
  <1>5. OneCall'
    BY <1>1, <1>2, <1>4 DEF OneCall, ThreadShape, InCall
  <1>6. BacklogLeft'
    BY <1>1, <1>2, <1>4 DEF BacklogLeft
  <1>7. PollsOwn'
    <2> SUFFICES ASSUME NEW u \in Threads, NEW i \in 1 .. Len(ring'),
                        pc'[u] \in {"spin", "finish", "relock"}, ring'[i].req = rctx'[u]
                 PROVE  ring'[i].by = u
      BY DEF PollsOwn
    <2>1. i + 1 \in 1 .. Len(ring) /\ ring'[i] = ring[i + 1]
      BY <1>3
    <2>2. pc[u] \in {"spin", "finish", "relock"} /\ rctx'[u] = rctx[u]
      BY <1>2, <1>4
    <2> QED BY <1>1, <2>1, <2>2 DEF PollsOwn
  <1>8. SyncIsOwn'
    <2> SUFFICES ASSUME NEW u \in Threads, pc'[u] = "ret", rc'[u] \in Status
                 PROVE  got'[u].op.by = u
      BY DEF SyncIsOwn
    <2>1. CASE u = t
      <3>1. 1 \in 1 .. Len(ring) /\ ring[1].req = rctx[t] /\ pc[t] = "spin"
        BY <1>3, <1>4, <2>1
      <3>2. ring[1].by = t
        BY <1>1, <3>1 DEF PollsOwn
      <3> QED BY <1>3, <2>1, <3>2
    <2>2. CASE u # t
      BY <1>1, <1>3, <1>4, <2>2 DEF SyncIsOwn
    <2> QED BY <2>1, <2>2
  <1> QED BY <1>5, <1>6, <1>7, <1>8 DEF SyncPart

(* Whoever else works on a request that moves between the worker or a call *)
(* and the backlog is at the end of al_ssm_enqueue.                        *)
LEMMA BacklogKeepsSync ==
    ASSUME SInv, \/ DrainTake \/ DrainPutBack
                 \/ \E c \in Callers : BacklogAdd(c)
    PROVE  SyncPart'
  <1> Worker \in Threads
    BY DEF Threads
  <1>1. TypeOK /\ ThreadShape /\ OneCall /\ BacklogLeft /\ PollsOwn /\ SyncIsOwn
    BY DEF SInv, IInv, SyncPart
  <1>2. backlog \in Seq(Reqs)
    BY <1>1 DEF TypeOK
  <1>3. CASE DrainTake
    <2> USE <1>3 DEF DrainTake, Goto, device
    <2> DEFINE r == Head(backlog)
    <2>1. /\ \A q : Within(q, backlog) <=> Within(q, backlog') \/ q = r
          /\ Distinct(backlog) => ~Within(r, backlog')
          /\ r \in Reqs
      BY <1>2, DelHead
    <2>2. ~Within(r, backlog')
      BY <2>1 DEF SInv, IInv, OnePlace
    <2>3. /\ rctx'[Worker] = r /\ pc'[Worker] = "submit"
          /\ \A u \in Threads \ {Worker} : rctx'[u] = rctx[u] /\ pc'[u] = pc[u]
          /\ rc' = rc /\ got' = got /\ ring' = ring
      BY <1>1 DEF TypeOK
    <2> HIDE DEF r, DrainTake
    <2>4. \A u \in Threads \ {Worker} : rctx[u] = r => pc[u] = "kick"
      BY <1>1, <2>1 DEF BacklogLeft
    <2>5. OneCall'
      BY <1>1, <2>3, <2>4 DEF OneCall
    <2>6. BacklogLeft'
      BY <1>1, <2>1, <2>2, <2>3 DEF BacklogLeft
    <2>7. PollsOwn' /\ SyncIsOwn'
      BY <1>1, <2>3 DEF PollsOwn, SyncIsOwn
    <2> QED BY <2>5, <2>6, <2>7 DEF SyncPart
  <1>4. CASE DrainPutBack
    <2> USE <1>4 DEF DrainPutBack, Leave, Goto, device
    <2> DEFINE r == rctx[Worker]
    <2>1. r \in Reqs /\ r # None
      BY <1>1 DEF TypeOK, ThreadShape, InCall
    <2>2. \A q : Within(q, backlog') <=> Within(q, backlog) \/ q = r
      BY <1>2, <2>1, AddHead
    <2>3. /\ rctx'[Worker] = None /\ pc[Worker] = "ret" /\ pc'[Worker] = "read"
          /\ \A u \in Threads \ {Worker} : /\ rctx'[u] = rctx[u] /\ pc'[u] = pc[u]
                                            /\ rc'[u] = rc[u] /\ got'[u] = got[u]
          /\ ring' = ring
      BY <1>1 DEF TypeOK
    <2>4. \A u \in Threads \ {Worker} : rctx[u] = r => pc[u] = "kick"
      BY <1>1, <2>1, <2>3 DEF OneCall
    <2> HIDE DEF r, DrainPutBack
    <2>5. OneCall'
      BY <1>1, <2>3 DEF OneCall
    <2>6. BacklogLeft'
      BY <1>1, <2>2, <2>3, <2>4 DEF BacklogLeft
    <2>7. PollsOwn' /\ SyncIsOwn'
      BY <1>1, <2>3 DEF PollsOwn, SyncIsOwn
    <2> QED BY <2>5, <2>6, <2>7 DEF SyncPart
  <1>5. ASSUME NEW c \in Callers, BacklogAdd(c)
        PROVE  SyncPart'
    <2> USE <1>5 DEF BacklogAdd, Goto, device
    <2> DEFINE r == rctx[c]
    <2>1. c \in Threads /\ r \in Reqs /\ r # None
      BY <1>1 DEF TypeOK, ThreadShape, InCall, Threads
    <2>2. \A q : Within(q, backlog') <=> Within(q, backlog) \/ q = r
      BY <1>2, <2>1, AddTail
    <2>3. /\ rctx' = rctx /\ pc[c] = "ret" /\ pc'[c] = "kick"
          /\ \A u \in Threads \ {c} : pc'[u] = pc[u]
          /\ rc' = rc /\ got' = got /\ ring' = ring
      BY <1>1, <2>1 DEF TypeOK
    <2>4. \A u \in Threads \ {c} : rctx[u] = r => pc[u] = "kick"
      BY <1>1, <2>1, <2>3 DEF OneCall
    <2> HIDE DEF r, BacklogAdd
    <2>5. OneCall'
      BY <1>1, <2>1, <2>3 DEF OneCall
    <2>6. BacklogLeft'
      BY <1>1, <2>1, <2>2, <2>3, <2>4 DEF BacklogLeft, r
    <2>7. PollsOwn' /\ SyncIsOwn'
      BY <1>1, <2>1, <2>3 DEF PollsOwn, SyncIsOwn
    <2> QED BY <2>5, <2>6, <2>7 DEF SyncPart
  <1> QED BY <1>3, <1>4, <1>5

(* The engine *)
LEMMA EngineKeepsSync ==
    ASSUME SInv, HwTxDone \/ UNCHANGED vars \/ \E st \in Status : HwDone(st)
    PROVE  SyncPart'
  <1>1. OneCall /\ BacklogLeft /\ PollsOwn /\ SyncIsOwn /\ ring \in Seq(Op)
    BY DEF SInv, IInv, TypeOK, SyncPart
  <1>2. UNCHANGED <<pc, rctx, rc, got, backlog>>
    BY DEF HwTxDone, HwDone, vars, waiting
  <1>3. /\ Len(ring') = Len(ring)
        /\ \A i \in 1 .. Len(ring) : ring'[i].req = ring[i].req /\ ring'[i].by = ring[i].by
    <2>1. CASE ring' = ring
      BY <2>1
    <2>2. ASSUME NEW st \in Status, HwDone(st)
          PROVE  <1>3!2 /\ Len(ring') = Len(ring)
      <3>1. PICK i \in 1 .. Len(ring) : ring' = [ring EXCEPT ![i].st = st]
        BY <2>2 DEF HwDone
      <3>2. ring[i] \in Op
        BY <1>1, ElementOfSeq
      <3> DEFINE op == [ring[i] EXCEPT !.st = st]
      <3>3. op \in Op /\ op.req = ring[i].req /\ op.by = ring[i].by
        BY <3>2 DEF Op
      <3>4. ring' = [ring EXCEPT ![i] = op]
        BY <3>1
      <3> HIDE DEF op
      <3>5. /\ Len(ring') = Len(ring)
            /\ \A j \in 1 .. Len(ring) : ring'[j] = IF j = i THEN op ELSE ring[j]
        BY <1>1, <3>3, <3>4, ExceptSeq
      <3> QED BY <3>3, <3>5
    <2> QED BY <2>1, <2>2 DEF HwTxDone, vars, device
  <1>4. OneCall' /\ BacklogLeft' /\ SyncIsOwn'
    BY <1>1, <1>2 DEF OneCall, BacklogLeft, SyncIsOwn
  <1>5. PollsOwn'
    BY <1>1, <1>2, <1>3 DEF PollsOwn
  <1> QED BY <1>4, <1>5 DEF SyncPart

(* No call is under way. *)
LEMMA InitSInv == Init => SInv
  <1> SUFFICES ASSUME Init PROVE SInv
    OBVIOUS
  <1>1. OneCall /\ BacklogLeft /\ PollsOwn /\ SyncIsOwn
    BY DEF Init, OneCall, BacklogLeft, PollsOwn, SyncIsOwn
  <1> QED BY <1>1, InitIInv DEF SInv, SyncPart

(* Every step keeps it, as long as requests are not reused early. *)
LEMMA NextKeepsSInv ==
    ASSUME EarlyReuse = FALSE, SInv, [Next]_vars
    PROVE  SInv'
  <1> Worker \in Threads
    BY DEF Threads
  <1>1. TypeOK /\ ThreadShape /\ SyncPart /\ IInv
    BY DEF SInv, IInv
  <1> SUFFICES SyncPart'
    BY <1>1, NextKeepsIInv DEF SInv
  <1>2. CASE \E c \in Callers, r \in Reqs : al_ssm_enqueue(c, r)
    BY <1>2, EnqueueKeepsSync
  <1>3. CASE \E t \in Threads : SubmitAndPoll(t)
    BY <1>1, <1>3, SubmitKeepsSync, TakeKeepsSync, QuietCallSteps, QuietStepKeepsSync
       DEF SubmitAndPoll
  <1>4. CASE \E c \in Callers : EnqueueReturns(c)
    BY <1>1, <1>4, BacklogKeepsSync, QuietReturns, QuietStepKeepsSync
       DEF EnqueueReturns, Threads
  <1>5. CASE WorkerStep
    BY <1>1, <1>5, TakeKeepsSync, BacklogKeepsSync, QuietWorkerSteps, QuietStepKeepsSync
       DEF WorkerStep
  <1>6. CASE HwTxDone \/ UNCHANGED vars \/ \E st \in Status : HwDone(st)
    BY <1>6, EngineKeepsSync
  <1> QED BY <1>2, <1>3, <1>4, <1>5, <1>6 DEF Next

(* As long as a request is not submitted again before the call that        *)
(* submitted it has returned, a result returned synchronously is that of   *)
(* the operation this call handed to the engine.                           *)
THEOREM SyncResultIsOwn ==
    ASSUME EarlyReuse = FALSE PROVE Spec => []SyncIsOwn
  <1>1. SInv => SyncIsOwn
    BY DEF SInv, SyncPart
  <1> QED BY InitSInv, NextKeepsSInv, <1>1, PTL DEF Spec
=============================================================================
