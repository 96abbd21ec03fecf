----------------------------- MODULE AlDmaProofs -----------------------------
(***************************************************************************)
(* Proofs about AlDma for every ring size, every number of HAL descriptors *)
(* and every number of operations.                                         *)
(***************************************************************************)
EXTENDS AlDma, ListFacts, FiniteSetTheorems

USE SizeAssumption

OpRec == [slot : 0 .. Slots - 1, tx : Srcs, rx : Dsts, cookie : 0 .. MaxOps]
RxF == [o \in Ops |-> op[o].rx]
TxF == [o \in Ops |-> op[o].tx]

(* A list of the HAL holds operations that were prepared. *)
ListsKnown ==
    /\ Len(op) <= MaxOps
    /\ posted \in Seq(1 .. Len(op))
    /\ engine \in Seq(1 .. Len(op))
    /\ unread \in Seq(1 .. Len(op))

(* A prepare that is half way *)
HalfWay == ~Unlocked => /\ allocated /\ Len(op) < MaxOps
                        /\ prep.rx \in Dsts /\ prep.tx \in Srcs

(* alloc_chan_resources, which empties the ring, runs once: the HAL queue  *)
(* stays enabled.  Before it nothing has happened.                         *)
OnlyOnce ==
    ~enabled => /\ ~allocated /\ Unlocked /\ rx_used = 0
                /\ posted = <<>> /\ engine = <<>> /\ unread = <<>>
                /\ issuers = 0 /\ ~scheduled /\ ~running

(* The ring in terms of the HAL's list: its slots from tail on, and one    *)
(* more that a prepare has taken.                                          *)
Taken == IF Unlocked THEN Len(posted) ELSE Len(posted) + 1
InStep ==
    /\ Taken < Slots
    /\ head = (tail + Taken) % Slots
    /\ \A i \in 1 .. Len(posted) : posted[i] = sw_ring[(tail + i - 1) % Slots]

(* Every cookie was given to one operation. *)
Submitted == {o \in 1 .. Len(op) : op[o].cookie # 0}
CookiesCount == chan_cookie = Cardinality(Submitted)

IInv == /\ TypeOK /\ ListsKnown /\ HalfWay /\ OnlyOnce /\ InStep /\ CookiesCount
        /\ DescsAccounted
-----------------------------------------------------------------------------
(* Descriptor counts are naturals, also of an operation. *)
LEMMA CountsAreNat ==
    ASSUME TypeOK
    PROVE  /\ DOMAIN op = 1 .. Len(op) /\ Len(op) \in Nat
           /\ \A o \in 1 .. Len(op) : op[o] \in OpRec
           /\ RxF \in [1 .. Len(op) -> Nat] /\ TxF \in [1 .. Len(op) -> Nat]
           /\ \A o \in 1 .. Len(op) : RxF[o] = op[o].rx /\ TxF[o] = op[o].tx
  <1>1. op \in Seq(OpRec)
    BY DEF TypeOK, OpRec
  <1>2. DOMAIN op = 1 .. Len(op) /\ Len(op) \in Nat /\ \A o \in 1 .. Len(op) : op[o] \in OpRec
    BY <1>1, LenProperties
  <1> QED BY <1>2 DEF RxF, TxF, Ops, OpRec

(* What the three lists weigh is natural, and nothing when empty. *)
LEMMA ListsWeigh ==
    ASSUME TypeOK, ListsKnown
    PROVE  /\ RxOf(posted) \in Nat /\ RxOf(engine) \in Nat /\ RxOf(unread) \in Nat
           /\ TxOf(posted) \in Nat /\ TxOf(engine) \in Nat
  <1>1. Weighs(RxF, 1 .. Len(op)) /\ Weighs(TxF, 1 .. Len(op))
    BY CountsAreNat DEF Weighs
  <1> QED BY <1>1, WeightType DEF ListsKnown, RxOf, TxOf, RxF, TxF

(* A channel starts with nothing prepared, issued or held. *)
LEMMA InitIInv == Init => IInv
  <1> SUFFICES ASSUME Init PROVE IInv
    OBVIOUS
  <1> USE DEF Init
  <1>1. op \in Seq(OpRec) /\ Len(op) = 0
    BY EmptySeq
  <1>2. TypeOK
    <2>1. posted \in Seq(1 .. MaxOps) /\ engine \in Seq(1 .. MaxOps) /\ unread \in Seq(1 .. MaxOps)
      BY EmptySeq
    <2> QED BY <1>1, <2>1, SMTT(40) DEF TypeOK, OpRec, Nothing
  <1>3. ListsKnown /\ HalfWay /\ OnlyOnce
    BY EmptySeq, <1>1 DEF ListsKnown, HalfWay, OnlyOnce, Unlocked
  <1>4. InStep
    <2>1. Len(posted) = 0 /\ Unlocked /\ 1 .. 0 = {}
      BY EmptySeq DEF Unlocked
    <2>2. (0 + 0) % Slots = 0
      OBVIOUS
    <2> QED BY <2>1, <2>2 DEF InStep, Taken
  <1>5. CookiesCount
    <2>1. Submitted = {}
      BY <1>1 DEF Submitted
    <2> QED BY <2>1, FS_EmptySet DEF CookiesCount
  <1>6. DescsAccounted
    <2>1. /\ RxOf(posted) = 0 /\ RxOf(engine) = 0 /\ RxOf(unread) = 0
          /\ TxOf(posted) = 0 /\ TxOf(engine) = 0
      <3>1. RxF \in [1 .. Len(op) -> Nat] /\ TxF \in [1 .. Len(op) -> Nat]
        BY <1>2, CountsAreNat
      <3>2. Weighs(RxF, 1 .. Len(op)) /\ Weighs(TxF, 1 .. Len(op))
        BY <3>1 DEF Weighs
      <3> QED BY <3>2, WeightEmpty DEF RxOf, TxOf, RxF, TxF
    <2> QED BY <2>1 DEF DescsAccounted, Unlocked
  <1> QED BY <1>2, <1>3, <1>4, <1>5, <1>6 DEF IInv

(* The ring read slot by slot is what issue_pending hands over. *)
LEMMA IssuedIsPosted ==
    ASSUME TypeOK, ListsKnown, InStep
    PROVE  SlotsMatchHal
  <1> DEFINE n == (head - tail + Slots) % Slots
  <1>0. Len(posted) \in Nat /\ posted \in Seq(1 .. MaxOps)
    BY LenProperties DEF TypeOK
  <1>1. PICK m \in 0 .. Slots - 1 : m = Taken
    BY <1>0 DEF InStep, Taken
  <1>2. n = m
    <2>1. tail \in 0 .. Slots - 1 /\ head = (tail + m) % Slots /\ Slots \in Nat \ {0}
      BY <1>1 DEF InStep, TypeOK
    <2>2. (((tail + m) % Slots) - tail + Slots) % Slots = m
      BY <2>1, RingLength, Zenon
    <2> QED BY <2>1, <2>2, Zenon
  <1>3. Issued = [i \in 1 .. m |-> sw_ring[(tail + i - 1) % Slots]]
    BY <1>2 DEF Issued
  <1> HIDE DEF n
  <1> DEFINE s == [i \in 1 .. m |-> sw_ring[(tail + i - 1) % Slots]]
  <1>4. s \in Seq(0 .. MaxOps) /\ Len(s) = m
    <2>1. \A i \in 1 .. m : (tail + i - 1) % Slots \in 0 .. Slots - 1
      BY DEF TypeOK
    <2>2. s \in [1 .. m -> 0 .. MaxOps]
      BY <2>1 DEF TypeOK
    <2> HIDE DEF s
    <2>3. s \in Seq(0 .. MaxOps)
      BY <2>2, SeqDef
    <2>4. DOMAIN s = 1 .. m /\ DOMAIN s = 1 .. Len(s) /\ Len(s) \in Nat
      BY <2>2, <2>3, LenProperties
    <2> QED BY <2>3, <2>4
  <1>5. \A i \in 1 .. m : s[i] = sw_ring[(tail + i - 1) % Slots]
    OBVIOUS
  <1>6. posted \in Seq(0 .. MaxOps)
    BY <1>0, SeqMonotonic
  <1> HIDE DEF s
  <1>7. CASE Unlocked
    <2>1. Len(posted) = m /\ \A i \in 1 .. m : posted[i] = s[i]
      BY <1>1, <1>5, <1>7 DEF InStep, Taken
    <2>2. posted = s
      BY <1>4, <1>6, <2>1, SeqEqual
    <2> QED BY <1>3, <1>7, <2>2 DEF SlotsMatchHal, s
  <1>8. CASE ~Unlocked
    <2>1. Len(posted) = m - 1 /\ m - 1 \in Nat /\ \A i \in 1 .. m - 1 : posted[i] = s[i]
      BY <1>0, <1>1, <1>5, <1>8 DEF InStep, Taken
    <2>2. /\ Front(s) \in Seq(0 .. MaxOps) /\ Len(Front(s)) = m - 1
          /\ \A i \in 1 .. m - 1 : Front(s)[i] = s[i]
      BY <1>4, <2>1, SubSeqProperties DEF Front
    <2>3. posted = Front(s)
      BY <1>6, <2>1, <2>2, SeqEqual
    <2> QED BY <1>3, <1>8, <2>3 DEF SlotsMatchHal, s
  <1> QED BY <1>7, <1>8
-----------------------------------------------------------------------------
(* The weights again, in one state and in the next. *)
LEMMA Weights ==
    /\ RxOf(posted) = Weight(RxF, posted) /\ RxOf(engine) = Weight(RxF, engine)
    /\ RxOf(unread) = Weight(RxF, unread)
    /\ TxOf(posted) = Weight(TxF, posted) /\ TxOf(engine) = Weight(TxF, engine)
    /\ RxOf(posted)' = Weight(RxF', posted') /\ RxOf(engine)' = Weight(RxF', engine')
    /\ RxOf(unread)' = Weight(RxF', unread')
    /\ TxOf(posted)' = Weight(TxF', posted') /\ TxOf(engine)' = Weight(TxF', engine')
  BY DEF RxOf, TxOf, RxF, TxF

(* As long as no operation is added or changed, neither do the weights. *)
LEMMA SameOps ==
    ASSUME op' = op
    PROVE  RxF' = RxF /\ TxF' = TxF
  BY DEF RxF, TxF, Ops

(* al_dma_alloc_chan_resources and al_dma_free_chan_resources *)
LEMMA AllocKeeps == IInv /\ al_dma_alloc_chan_resources => IInv'
  <1> SUFFICES ASSUME IInv, al_dma_alloc_chan_resources PROVE IInv'
    OBVIOUS
  <1> USE DEF al_dma_alloc_chan_resources, task, hal
  <1>1. posted = <<>> /\ Len(posted) = 0 /\ Unlocked /\ Unlocked'
    BY EmptySeq DEF IInv, OnlyOnce, Unlocked
  <1>2. TypeOK'
    BY DEF IInv, TypeOK
  <1>3. ListsKnown' /\ HalfWay' /\ OnlyOnce'
    BY <1>1 DEF IInv, ListsKnown, HalfWay, OnlyOnce, Unlocked
  <1>4. InStep'
    <2>1. (0 + 0) % Slots = 0 /\ 1 .. 0 = {}
      OBVIOUS
    <2> QED BY <1>1, <2>1 DEF InStep, Taken
  <1>5. CookiesCount'
    BY DEF IInv, CookiesCount, Submitted
  <1>6. DescsAccounted'
    <2>1. engine = <<>> /\ unread = <<>> /\ rx_used = 0
      BY DEF IInv, OnlyOnce
    <2>2. Weighs(RxF, 1 .. Len(op))
      BY CountsAreNat DEF IInv, Weighs
    <2>3. Weight(RxF, <<>>) = 0
      BY <2>2, WeightEmpty
    <2>4. RxOf(posted)' = 0 /\ RxOf(engine)' = 0 /\ RxOf(unread)' = 0 /\ rx_used' = 0
      BY <1>1, <2>1, <2>3, Weights, SameOps
    <2>5. TxOf(posted)' = TxOf(posted) /\ TxOf(engine)' = TxOf(engine)
      BY Weights, SameOps
    <2> QED BY <1>1, <2>4, <2>5 DEF IInv, DescsAccounted
  <1> QED BY <1>2, <1>3, <1>4, <1>5, <1>6 DEF IInv

(* al_dma_free_chan_resources *)
LEMMA FreeKeeps == IInv /\ al_dma_free_chan_resources => IInv'
  <1> SUFFICES ASSUME IInv, al_dma_free_chan_resources PROVE IInv'
    OBVIOUS
  <1> USE DEF al_dma_free_chan_resources, task, hal, chan
  <1>1. Unlocked' <=> Unlocked
    BY DEF Unlocked
  <1>2. TypeOK' /\ ListsKnown' /\ HalfWay' /\ OnlyOnce'
    BY <1>1 DEF IInv, TypeOK, ListsKnown, HalfWay, OnlyOnce
  <1>3. InStep' /\ CookiesCount'
    BY <1>1 DEF IInv, InStep, Taken, CookiesCount, Submitted
  <1>4. DescsAccounted'
    BY <1>1, Weights, SameOps DEF IInv, DescsAccounted
  <1> QED BY <1>2, <1>3, <1>4 DEF IInv

(* A prepare takes a slot: there is one, as the ring has not come round to *)
(* tail.                                                                   *)
LEMMA PrepStartKeeps ==
    ASSUME IInv, NEW tx \in Srcs, NEW rx \in Dsts, PrepStart(tx, rx)
    PROVE  IInv'
  <1> USE DEF PrepStart, life, task, hal
  <1>0. /\ Unlocked /\ allocated /\ Len(op) < MaxOps /\ rx \in Nat \ {0} /\ tx \in Nat \ {0}
        /\ rx_used \in 0 .. RxDescs
    BY DEF IInv, TypeOK
  <1>1. ~Unlocked'
    <2>1. prep'.rx = rx /\ Nothing.rx = 0
      BY DEF Nothing
    <2> QED BY <1>0, <2>1 DEF Unlocked, Nothing
  <1>2. TypeOK'
    <2>1. head' \in 0 .. Slots - 1
      BY SMTT(40) DEF IInv, TypeOK, Succ
    <2>2. prep' \in [rx : Nat, tx : Nat, avail : 0 .. RxDescs]
      BY <1>0
    <2> QED BY <2>1, <2>2 DEF IInv, TypeOK
  <1>3. ListsKnown' /\ HalfWay' /\ OnlyOnce'
    BY <1>0 DEF IInv, ListsKnown, HalfWay, OnlyOnce
  <1>4. InStep'
    <2>1. PICK n \in Nat : n = Len(posted)
      BY LenProperties DEF IInv, TypeOK
    <2>2. /\ n < Slots /\ head = (tail + n) % Slots /\ tail \in 0 .. Slots - 1
          /\ n \in 0 .. Slots - 1 /\ n \in 0 .. Slots /\ 1 \in 0 .. Slots
      <3>1. head = (tail + n) % Slots /\ tail \in 0 .. Slots - 1
        BY <1>0, <2>1 DEF IInv, InStep, Taken, TypeOK
      <3>2. n < Slots
        BY <1>0, <2>1 DEF IInv, InStep, Taken, TypeOK
      <3> QED BY <3>1, <3>2
    <2>3. Slots \in Nat \ {0}
      OBVIOUS
    <2>4. (((tail + n) % Slots) + 1) % Slots = (tail + n + 1) % Slots
      BY <2>2, <2>3, RingOn, Zenon
    <2>5. head' = (tail + n + 1) % Slots
      BY <2>2, <2>4 DEF Succ
    <2>6. n + 1 # Slots
      <3> SUFFICES ASSUME n + 1 = Slots PROVE FALSE
        OBVIOUS
      <3>1. tail + n + 1 \in Int /\ Slots <= tail + n + 1 /\ tail + n + 1 < 2 * Slots
            /\ (tail + n + 1) - Slots = tail
        BY <2>2
      <3>2. (tail + n + 1) % Slots = tail
        BY <2>3, <3>1, RingLaps, Zenon
      <3> QED BY <2>5, <3>2 DEF al_dma_get_sw_desc
    <2>7. Taken' = n + 1 /\ tail + n + 1 = tail + (n + 1)
      BY <1>1, <2>1, <2>2 DEF Taken
    <2>8. \A i \in 1 .. Len(posted') : posted'[i] = sw_ring'[(tail' + i - 1) % Slots]
      BY DEF IInv, InStep
    <2> QED BY <2>2, <2>5, <2>6, <2>7, <2>8, SMTT(40) DEF InStep
  <1>5. CookiesCount'
    BY DEF IInv, CookiesCount, Submitted
  <1>6. DescsAccounted'
    BY <1>0, Weights, SameOps DEF IInv, DescsAccounted
  <1> QED BY <1>2, <1>3, <1>4, <1>5, <1>6 DEF IInv

(* After al_raid_dma_prepare has acknowledged completed TX descriptors *)
LEMMA TxAfter ==
    ASSUME IInv, NEW tx \in Nat
    PROVE  /\ TxAfterCleanup(tx) \in 0 .. TxDescs
           /\ tx_comp <= tx_used
           /\ IF TxShort(tx) THEN TxAfterCleanup(tx) = tx_used - tx_comp
                             ELSE TxAfterCleanup(tx) = tx_used
  <1>1. TypeOK /\ ListsKnown /\ TxOf(posted) + TxOf(engine) = tx_used - tx_comp
    BY DEF IInv, DescsAccounted
  <1>2. TxOf(posted) \in Nat /\ TxOf(engine) \in Nat
    BY <1>1, ListsWeigh
  <1>3. tx_used \in 0 .. TxDescs /\ tx_comp \in 0 .. TxDescs
    BY <1>1 DEF TypeOK
  <1>4. tx_comp <= tx_used
    BY <1>1, <1>2, <1>3
  <1> QED BY <1>3, <1>4 DEF TxAfterCleanup

(* The HAL has no room: the slot is given back. *)
LEMMA PrepFailsKeeps == IInv /\ PrepFails => IInv'
  <1> SUFFICES ASSUME IInv, PrepFails PROVE IInv'
    OBVIOUS
  <1> USE DEF PrepFails, life, task
  <1>0. /\ ~Unlocked /\ Unlocked' /\ prep.rx \in Nat /\ prep.tx \in Nat /\ prep.avail \in Nat
        /\ op' = op
    BY DEF IInv, TypeOK, Unlocked
  <1>1. /\ tx_used' \in 0 .. TxDescs /\ tx_comp' \in 0 .. TxDescs
        /\ tx_used' - tx_comp' = tx_used - tx_comp
    <2>1. CASE prep.avail < prep.rx
      BY <2>1 DEF IInv, TypeOK
    <2>2. CASE ~(prep.avail < prep.rx)
      <3>1. TxShort(prep.tx)
        BY <1>0, <2>2 DEF NoRoom, TxShort, TxAfterCleanup
      <3> QED BY <1>0, <2>2, <3>1, TxAfter DEF IInv, TypeOK
    <2> QED BY <2>1, <2>2
  <1>2. TypeOK'
    <2>1. head' \in 0 .. Slots - 1
      BY DEF IInv, TypeOK
    <2> QED BY <1>1, <2>1, SMTT(40) DEF IInv, TypeOK, Nothing
  <1>3. ListsKnown' /\ HalfWay' /\ OnlyOnce'
    BY <1>0 DEF IInv, ListsKnown, HalfWay, OnlyOnce
  <1>4. InStep'
    <2>1. PICK n \in Nat : n = Len(posted)
      BY LenProperties DEF IInv, TypeOK
    <2>2. /\ n + 1 < Slots /\ head = (tail + (n + 1)) % Slots /\ tail \in 0 .. Slots - 1
          /\ n \in 0 .. Slots - 1
      BY <1>0, <2>1 DEF IInv, InStep, Taken, TypeOK
    <2>3. (((tail + (n + 1)) % Slots) - 1 + Slots) % Slots = (tail + n) % Slots
      BY <2>2, RingBack, SizeAssumption, Zenon
    <2>4. head' = (tail + n) % Slots
      BY <2>2, <2>3
    <2>5. Taken' = n
      BY <1>0, <2>1 DEF Taken
    <2>6. \A i \in 1 .. Len(posted') : posted'[i] = sw_ring'[(tail' + i - 1) % Slots]
      BY DEF IInv, InStep
    <2> QED BY <2>2, <2>4, <2>5, <2>6 DEF InStep
  <1>5. CookiesCount'
    BY DEF IInv, CookiesCount, Submitted
  <1>6. DescsAccounted'
    BY <1>0, <1>1, Weights, SameOps DEF IInv, DescsAccounted
  <1> QED BY <1>2, <1>3, <1>4, <1>5, <1>6 DEF IInv

(* A new operation weighs what the prepare asked for; the others keep      *)
(* their weight.                                                           *)
LEMMA NewOperation ==
    ASSUME IInv, PrepDone
    PROVE  /\ Len(op') = Len(op) + 1 /\ op' \in Seq(OpRec) /\ Len(op) \in Nat
           /\ \A o \in 1 .. Len(op) : op'[o] = op[o]
           /\ op'[Len(op) + 1] = [slot |-> (head - 1 + Slots) % Slots, tx |-> prep.tx,
                                  rx |-> prep.rx, cookie |-> 0]
           /\ RxF' \in [1 .. Len(op) + 1 -> Nat] /\ TxF' \in [1 .. Len(op) + 1 -> Nat]
           /\ \A o \in 1 .. Len(op) : RxF'[o] = RxF[o] /\ TxF'[o] = TxF[o]
           /\ RxF'[Len(op) + 1] = prep.rx /\ TxF'[Len(op) + 1] = prep.tx
  <1> DEFINE r == [slot |-> (head - 1 + Slots) % Slots, tx |-> prep.tx,
                   rx |-> prep.rx, cookie |-> 0]
  <1>1. op \in Seq(OpRec) /\ op' = Append(op, r)
    BY DEF PrepDone, IInv, TypeOK, OpRec
  <1>2. r \in OpRec
    BY SMTT(40) DEF OpRec, IInv, HalfWay, PrepDone, TypeOK
  <1>3. r.rx = prep.rx /\ r.tx = prep.tx
    OBVIOUS
  <1> HIDE DEF r
  <1>4. /\ Len(op') = Len(op) + 1 /\ op' \in Seq(OpRec) /\ Len(op) \in Nat
        /\ \A o \in 1 .. Len(op) : op'[o] = op[o]
        /\ op'[Len(op) + 1] = r
    BY <1>1, <1>2, AddTail, LenProperties
  <1>5. DOMAIN op' = 1 .. Len(op) + 1 /\ DOMAIN op = 1 .. Len(op)
        /\ \A o \in 1 .. Len(op) + 1 : op'[o] \in OpRec
    BY <1>1, <1>4, LenProperties
  <1>6. /\ RxF' = [o \in 1 .. Len(op) + 1 |-> op'[o].rx]
        /\ TxF' = [o \in 1 .. Len(op) + 1 |-> op'[o].tx]
        /\ RxF = [o \in 1 .. Len(op) |-> op[o].rx]
        /\ TxF = [o \in 1 .. Len(op) |-> op[o].tx]
    BY <1>5 DEF RxF, TxF, Ops
  <1>7. RxF' \in [1 .. Len(op) + 1 -> Nat] /\ TxF' \in [1 .. Len(op) + 1 -> Nat]
    BY <1>5, <1>6 DEF OpRec
  <1>8. \A o \in 1 .. Len(op) : RxF'[o] = RxF[o] /\ TxF'[o] = TxF[o]
    BY <1>4, <1>6
  <1>9. RxF'[Len(op) + 1] = prep.rx /\ TxF'[Len(op) + 1] = prep.tx
    BY <1>3, <1>4, <1>6
  <1> QED BY <1>4, <1>7, <1>8, <1>9 DEF r

(* So do the lists of the HAL: posted gets the new operation. *)
LEMMA NewWeights ==
    ASSUME IInv, PrepDone
    PROVE  /\ ListsKnown'
           /\ posted' = Append(posted, Len(op) + 1)
           /\ RxOf(posted)' = RxOf(posted) + prep.rx
           /\ TxOf(posted)' = TxOf(posted) + prep.tx
           /\ RxOf(engine)' = RxOf(engine) /\ RxOf(unread)' = RxOf(unread)
           /\ TxOf(engine)' = TxOf(engine)
  <1>1. PICK n \in Nat : n = Len(op)
    BY NewOperation
  <1> DEFINE D == 1 .. n
             E == 1 .. n + 1
  <1>2. D \subseteq E /\ n + 1 \in E /\ D = 1 .. Len(op) /\ E = 1 .. Len(op) + 1
    BY <1>1
  <1>3. posted \in Seq(D) /\ engine \in Seq(D) /\ unread \in Seq(D) /\ TypeOK
    BY <1>1 DEF IInv, ListsKnown
  <1> HIDE DEF D, E
  <1>4. posted \in Seq(E) /\ engine \in Seq(E) /\ unread \in Seq(E)
    BY <1>2, <1>3, SeqMonotonic
  <1>5. RxF' \in [E -> Nat] /\ TxF' \in [E -> Nat] /\ RxF \in [D -> Nat] /\ TxF \in [D -> Nat]
    BY <1>2, <1>3, NewOperation, CountsAreNat
  <1>6. /\ \A d \in D : RxF'[d] = RxF[d]
        /\ \A d \in D : TxF'[d] = TxF[d]
        /\ RxF'[n + 1] = prep.rx /\ TxF'[n + 1] = prep.tx
    BY <1>1, <1>2, NewOperation
  <1>7. posted' = Append(posted, n + 1) /\ engine' = engine /\ unread' = unread
    BY <1>1 DEF PrepDone
  <1>8. /\ Weighs(RxF, D) /\ Weighs(RxF', E) /\ Agree(RxF, RxF', D)
        /\ Weighs(TxF, D) /\ Weighs(TxF', E) /\ Agree(TxF, TxF', D)
    BY <1>5, <1>6 DEF Weighs, Agree
  <1>9. /\ Weight(RxF', posted) = Weight(RxF, posted) /\ Weight(RxF', engine) = Weight(RxF, engine)
        /\ Weight(RxF', unread) = Weight(RxF, unread)
        /\ Weight(TxF', posted) = Weight(TxF, posted) /\ Weight(TxF', engine) = Weight(TxF, engine)
    BY <1>3, <1>4, <1>8, WeightSame
  <1>10. /\ Weight(RxF', Append(posted, n + 1)) = Weight(RxF', posted) + RxF'[n + 1]
         /\ Weight(TxF', Append(posted, n + 1)) = Weight(TxF', posted) + TxF'[n + 1]
    BY <1>2, <1>4, <1>8, WeightAppend
  <1>11. ListsKnown'
    <2>1. Append(posted, n + 1) \in Seq(E)
      BY <1>2, <1>4, AddTail
    <2>2. Len(op') = n + 1 /\ Len(op) < MaxOps
      BY <1>1, NewOperation DEF IInv, HalfWay, PrepDone
    <2>3. n + 1 <= MaxOps
      BY <1>1, <2>2
    <2> QED BY <1>4, <1>7, <2>1, <2>2, <2>3 DEF ListsKnown, E
  <1>12. posted' = Append(posted, Len(op) + 1)
    BY <1>1, <1>7
  <1>13. RxOf(posted)' = RxOf(posted) + prep.rx /\ TxOf(posted)' = TxOf(posted) + prep.tx
    <2>1. /\ Weight(RxF', posted') = Weight(RxF, posted) + prep.rx
          /\ Weight(TxF', posted') = Weight(TxF, posted) + prep.tx
      BY <1>6, <1>7, <1>9, <1>10
    <2> QED BY <2>1, Weights
  <1>14. /\ RxOf(engine)' = RxOf(engine) /\ RxOf(unread)' = RxOf(unread)
         /\ TxOf(engine)' = TxOf(engine)
    BY <1>7, <1>9, Weights
  <1> QED BY <1>11, <1>12, <1>13, <1>14

(* The operation is prepared: the room seen in the RX queue is still       *)
(* there, although the tasklet ran, and the slot is beyond the others.     *)
LEMMA PrepDoneKeeps == IInv /\ PrepDone => IInv'
  <1> SUFFICES ASSUME IInv, PrepDone PROVE IInv'
    OBVIOUS
  <1>0. /\ ~Unlocked /\ Unlocked' /\ prep.rx \in Nat /\ prep.tx \in Nat /\ prep.avail \in Nat
        /\ prep.rx <= prep.avail /\ TxDescs - TxAfterCleanup(prep.tx) >= prep.tx
        /\ Len(op) < MaxOps
    <2>1. /\ ~Unlocked /\ Unlocked' /\ ~NoRoom /\ Len(op) < MaxOps
          /\ prep.rx \in Nat /\ prep.tx \in Nat /\ prep.avail \in Nat
      BY DEF IInv, TypeOK, Unlocked, PrepDone, HalfWay
    <2>2. TxAfterCleanup(prep.tx) \in Nat
      <3>1. PICK t \in Nat : t = prep.tx
        BY <2>1
      <3>2. TxAfterCleanup(t) \in 0 .. TxDescs
        BY TxAfter
      <3> QED BY <3>1, <3>2
    <2> QED BY <2>1, <2>2 DEF NoRoom
  <1>1. rx_used' = rx_used + prep.rx /\ rx_used' \in 0 .. RxDescs
    <2>1. rx_used' = rx_used + prep.rx /\ rx_used \in Nat /\ prep.avail <= RxDescs - rx_used
      BY <1>0 DEF IInv, DescsAccounted, TypeOK, PrepDone
    <2> QED BY <1>0, <2>1
  <1>2. /\ tx_used' \in 0 .. TxDescs /\ tx_comp' \in 0 .. TxDescs
        /\ tx_used' - tx_comp' = tx_used - tx_comp + prep.tx
    <2>1. tx_used \in Nat /\ tx_comp \in 0 .. TxDescs
      BY DEF IInv, TypeOK
    <2>4. PICK after \in 0 .. TxDescs : after = TxAfterCleanup(prep.tx)
      BY <1>0, TxAfter
    <2>5. tx_used' = after + prep.tx /\ tx_comp' = IF TxShort(prep.tx) THEN 0 ELSE tx_comp
      BY <2>4 DEF PrepDone
    <2>6. after = IF TxShort(prep.tx) THEN tx_used - tx_comp ELSE tx_used
      BY <1>0, <2>4, TxAfter
    <2>7. TxDescs - after >= prep.tx
      BY <1>0, <2>4
    <2>2. CASE TxShort(prep.tx)
      BY <1>0, <2>1, <2>2, <2>4, <2>5, <2>6, <2>7
    <2>3. CASE ~TxShort(prep.tx)
      BY <1>0, <2>1, <2>3, <2>4, <2>5, <2>6, <2>7, SMTT(40)
    <2> QED BY <2>2, <2>3
  <1>3. PICK n \in Nat : n = Len(posted)
    BY LenProperties DEF IInv, TypeOK
  <1>4. /\ n + 1 < Slots /\ head = (tail + (n + 1)) % Slots /\ tail \in 0 .. Slots - 1
        /\ n \in 0 .. Slots - 1
    BY <1>0, <1>3 DEF IInv, InStep, Taken, TypeOK
  <1>5. (head - 1 + Slots) % Slots = (tail + n) % Slots
    <2>1. (((tail + (n + 1)) % Slots) - 1 + Slots) % Slots = (tail + n) % Slots
      BY <1>4, RingBack, SizeAssumption, Zenon
    <2> QED BY <1>4, <2>1
  <1>6. /\ sw_ring' = [sw_ring EXCEPT ![(tail + n) % Slots] = Len(op) + 1]
        /\ head' = head /\ tail' = tail
    BY <1>5 DEF PrepDone
  <1>7. (tail + n) % Slots \in 0 .. Slots - 1 /\ sw_ring \in [0 .. Slots - 1 -> 0 .. MaxOps]
        /\ Len(op) \in Nat
    <2>1. (tail + n) % Slots \in 0 .. Slots - 1
      BY <1>4
    <2> QED BY <2>1, NewOperation DEF IInv, TypeOK
  <1>8. TypeOK'
    <2>1. sw_ring' \in [0 .. Slots - 1 -> 0 .. MaxOps]
      BY <1>0, <1>6, <1>7
    <2>2. posted' \in Seq(1 .. MaxOps) /\ engine' \in Seq(1 .. MaxOps) /\ unread' \in Seq(1 .. MaxOps)
      <3>1. Len(op') <= MaxOps /\ Len(op') \in Nat
        BY <1>0, NewOperation
      <3>2. 1 .. Len(op') \subseteq 1 .. MaxOps
        BY <3>1
      <3> QED BY <3>2, NewWeights, SeqMonotonic DEF ListsKnown
    <2>3. op' \in Seq(OpRec)
      BY NewOperation
    <2>4. prep' \in [rx : Nat, tx : Nat, avail : 0 .. RxDescs]
      BY DEF PrepDone, Nothing
    <2> QED BY <1>1, <1>2, <2>1, <2>2, <2>3, <2>4
            DEF IInv, TypeOK, OpRec, PrepDone, life, task
  <1>9. ListsKnown' /\ HalfWay' /\ OnlyOnce'
    BY <1>0, NewWeights
       DEF IInv, HalfWay, OnlyOnce, PrepDone, life, task
  <1>10. InStep'
    <2>1. /\ Len(posted') = n + 1 /\ posted'[n + 1] = Len(op) + 1
          /\ \A i \in 1 .. n : posted'[i] = posted[i]
      <3>1. posted \in Seq(Nat) /\ Len(op) + 1 \in Nat
        BY <1>7, SeqMonotonic DEF IInv, TypeOK
      <3> QED BY <1>3, <3>1, AddTail, NewWeights
    <2>2. Taken' = n + 1
      BY <1>0, <2>1 DEF Taken
    <2>3. ASSUME NEW i \in 1 .. n + 1
          PROVE  posted'[i] = sw_ring'[(tail' + i - 1) % Slots]
      <3>0. PICK j \in 0 .. Slots - 1 : j = i - 1
        BY <1>4
      <3>1. tail' + i - 1 = tail + j /\ (tail + j) % Slots \in 0 .. Slots - 1
        BY <1>4, <1>6, <3>0
      <3>2. CASE i = n + 1
        <4>1. j = n
          BY <3>0, <3>2
        <4>2. sw_ring'[(tail + n) % Slots] = Len(op) + 1
          BY <1>6, <1>7
        <4> QED BY <2>1, <3>1, <3>2, <4>1, <4>2
      <3>3. CASE i \in 1 .. n
        <4>1. j # n /\ tail + j = tail + i - 1
          BY <1>4, <3>0, <3>3
        <4>2. (tail + j) % Slots # (tail + n) % Slots
          BY <1>4, <4>1, RingApart, SizeAssumption, Zenon
        <4>3. sw_ring'[(tail + j) % Slots] = sw_ring[(tail + j) % Slots]
          BY <1>6, <1>7, <3>1, <4>2
        <4>4. posted[i] = sw_ring[(tail + i - 1) % Slots]
          BY <1>3, <3>3 DEF IInv, InStep
        <4> QED BY <2>1, <3>1, <3>3, <4>1, <4>3, <4>4
      <3> QED BY <3>2, <3>3
    <2> QED BY <1>4, <1>6, <2>1, <2>2, <2>3 DEF InStep
  <1>11. CookiesCount'
    <2>1. Submitted' = Submitted
      <3>1. Submitted' = {o \in 1 .. Len(op) + 1 : op'[o].cookie # 0}
        BY NewOperation DEF Submitted
      <3>2. op'[Len(op) + 1].cookie = 0
        BY NewOperation
      <3>3. \A o \in 1 .. Len(op) + 1 : o \in 1 .. Len(op) \/ o = Len(op) + 1
        BY <1>7
      <3>4. 1 .. Len(op) \subseteq 1 .. Len(op) + 1
        BY <1>7
      <3> QED BY <3>1, <3>2, <3>3, <3>4, NewOperation DEF Submitted
    <2> QED BY <2>1 DEF IInv, CookiesCount, PrepDone
  <1>12. DescsAccounted'
    <2>1. /\ RxOf(posted) \in Nat /\ RxOf(engine) \in Nat /\ RxOf(unread) \in Nat
          /\ TxOf(posted) \in Nat /\ TxOf(engine) \in Nat /\ tx_used \in Nat /\ tx_comp \in Nat
      BY ListsWeigh DEF IInv, TypeOK
    <2>2. rx_used = RxOf(posted) + RxOf(engine) + RxOf(unread)
          /\ TxOf(posted) + TxOf(engine) = tx_used - tx_comp
      BY <1>0 DEF IInv, DescsAccounted, HalfWay
    <2>5. /\ RxOf(posted)' = RxOf(posted) + prep.rx
          /\ TxOf(posted)' = TxOf(posted) + prep.tx
          /\ RxOf(engine)' = RxOf(engine) /\ RxOf(unread)' = RxOf(unread)
          /\ TxOf(engine)' = TxOf(engine)
      BY NewWeights
    <2>6. PICK a \in Nat, b \in Nat, c \in Nat, d \in Nat, e \in Nat, x \in Nat, y \in Nat :
             /\ a = RxOf(posted) /\ b = RxOf(engine) /\ c = RxOf(unread)
             /\ d = TxOf(posted) /\ e = TxOf(engine) /\ x = prep.rx /\ y = prep.tx
      BY <1>0, <2>1
    <2>3. rx_used' = RxOf(posted)' + RxOf(engine)' + RxOf(unread)'
      <3>1. rx_used' = (a + b + c) + x
        BY <1>1, <2>2, <2>6
      <3>2. (a + b + c) + x = (a + x) + b + c
        OBVIOUS
      <3> QED BY <2>5, <2>6, <3>1, <3>2
    <2>4. TxOf(posted)' + TxOf(engine)' = tx_used' - tx_comp'
      <3>1. tx_used' - tx_comp' = (d + e) + y
        BY <1>2, <2>1, <2>2, <2>6
      <3>2. (d + e) + y = (d + y) + e
        OBVIOUS
      <3> QED BY <2>5, <2>6, <3>1, <3>2
    <2> QED BY <1>0, <1>1, <2>3, <2>4 DEF DescsAccounted
  <1> QED BY <1>8, <1>9, <1>10, <1>11, <1>12 DEF IInv

(* A submit changes one cookie, and no weight. *)
LEMMA SubmitKeeps ==
    ASSUME IInv, NEW o \in Ops, al_dma_tx_submit(o)
    PROVE  IInv'
  <1> USE DEF al_dma_tx_submit, chan, life, task, hal
  <1>1. PICK n \in Nat : n = Len(op) /\ n <= MaxOps /\ o \in 1 .. n /\ Ops = 1 .. n
    BY CountsAreNat DEF IInv, Ops, ListsKnown
  <1>2. /\ op \in Seq(OpRec) /\ op \in [1 .. n -> OpRec] /\ chan_cookie \in Nat
        /\ Unlocked' = Unlocked
    <2>1. op \in Seq(OpRec) /\ chan_cookie \in Nat
      BY DEF IInv, TypeOK, OpRec
    <2>2. op \in [1 .. n -> OpRec]
      BY <1>1, <2>1, LenProperties
    <2> QED BY <2>1, <2>2 DEF Unlocked
  <1>3. /\ DOMAIN op' = 1 .. n /\ \A p \in 1 .. n \ {o} : op'[p] = op[p]
        /\ op'[o] = [op[o] EXCEPT !.cookie = chan_cookie + 1]
    BY <1>1, <1>2
  <1>4. op[o] \in OpRec /\ op[o].cookie = 0
    BY <1>1, <1>2
  <1>5. /\ op'[o].cookie = chan_cookie + 1 /\ op'[o].rx = op[o].rx /\ op'[o].tx = op[o].tx
        /\ op'[o].slot = op[o].slot
    BY <1>3, <1>4 DEF OpRec
  <1>6. /\ CookiesCount' /\ chan_cookie + 1 \in 0 .. MaxOps
    <2>1. IsFiniteSet(1 .. n) /\ Cardinality(1 .. n) = n
      <3>1. 1 \in Int /\ n \in Int /\ (n = 0 \/ 1 <= n)
        OBVIOUS
      <3> HIDE DEF al_dma_tx_submit
      <3>2. IsFiniteSet(1 .. n) /\ Cardinality(1 .. n) = IF 1 > n THEN 0 ELSE n - 1 + 1
        BY <3>1, FS_Interval
      <3> QED BY <3>2
    <2>2. Submitted \subseteq 1 .. n /\ o \notin Submitted
      BY <1>1, <1>4 DEF Submitted
    <2>3. IsFiniteSet(Submitted)
      BY <2>1, <2>2, FS_Subset
    <2>4. Cardinality(Submitted \cup {o}) = Cardinality(Submitted) + 1
      BY <2>2, <2>3, FS_AddElement
    <2>5. Submitted \cup {o} \subseteq 1 .. n
      BY <1>1, <2>2
    <2>6. Cardinality(Submitted \cup {o}) <= n
      BY <2>1, <2>5, FS_Subset
    <2>7. chan_cookie = Cardinality(Submitted)
      BY DEF IInv, CookiesCount
    <2>8. Submitted' = Submitted \cup {o}
      <3>1. Len(op') = n
        <4>1. op' = [op EXCEPT ![o].cookie = chan_cookie + 1]
          OBVIOUS
        <4> QED BY <1>1, <1>2, <1>3, <4>1
      <3>2. Submitted' = {p \in 1 .. n : op'[p].cookie # 0}
        BY <3>1 DEF Submitted
      <3>3. Submitted = {p \in 1 .. n : op[p].cookie # 0}
        BY <1>1 DEF Submitted
      <3>4. op'[o].cookie # 0
        BY <1>2, <1>5
      <3> QED BY <1>1, <1>3, <3>2, <3>3, <3>4
    <2> QED BY <1>1, <1>2, <2>4, <2>6, <2>7, <2>8 DEF CookiesCount
  <1>7. op' \in Seq(OpRec) /\ Len(op') = n
    <2>1. op'[o] \in OpRec
      BY <1>3, <1>4, <1>6 DEF OpRec
    <2>2. op' \in [1 .. n -> OpRec]
      BY <1>1, <1>2, <1>3, <2>1
    <2> HIDE DEF al_dma_tx_submit
    <2>3. op' \in Seq(OpRec)
      <3>1. Seq(OpRec) = UNION {[1 .. k -> OpRec] : k \in Nat}
        BY SeqDef, Zenon
      <3> QED BY <2>2, <3>1
    <2>4. DOMAIN op' = 1 .. Len(op') /\ Len(op') \in Nat
      BY <2>3, LenProperties
    <2> QED BY <1>3, <2>3, <2>4
  <1>8. TypeOK'
    BY <1>6, <1>7 DEF IInv, TypeOK, OpRec
  <1>9. ListsKnown' /\ HalfWay' /\ OnlyOnce' /\ InStep'
    <2>1. Len(op') = Len(op)
      BY <1>1, <1>7
    <2> QED BY <1>2, <2>1 DEF IInv, ListsKnown, HalfWay, OnlyOnce, InStep, Taken
  <1>10. RxF' = RxF /\ TxF' = TxF
    <2>1. /\ RxF' = [p \in 1 .. n |-> op'[p].rx] /\ TxF' = [p \in 1 .. n |-> op'[p].tx]
          /\ RxF = [p \in 1 .. n |-> op[p].rx] /\ TxF = [p \in 1 .. n |-> op[p].tx]
      BY <1>1, <1>3 DEF RxF, TxF, Ops
    <2>2. \A p \in 1 .. n : op'[p].rx = op[p].rx /\ op'[p].tx = op[p].tx
      BY <1>3, <1>5
    <2> QED BY <2>1, <2>2
  <1>11. DescsAccounted'
    BY <1>2, <1>10, Weights DEF IInv, DescsAccounted
  <1> QED BY <1>6, <1>8, <1>9, <1>11 DEF IInv

(* issue_pending hands over everything the HAL has prepared, and the ring  *)
(* is empty.                                                               *)
LEMMA IssueKeeps == IInv /\ al_dma_issue_pending => IInv'
  <1> SUFFICES ASSUME IInv, al_dma_issue_pending PROVE IInv'
    OBVIOUS
  <1> USE DEF al_dma_issue_pending, life
  <1>1. TypeOK /\ ListsKnown /\ InStep /\ Unlocked /\ Unlocked' /\ op' = op /\ allocated
    BY DEF IInv, Unlocked
  <1>2. posted = Issued
    BY <1>1, IssuedIsPosted DEF SlotsMatchHal
  <1>3. PICK n \in Nat : n = Len(op)
    BY <1>1, CountsAreNat
  <1>4. /\ posted \in Seq(1 .. n) /\ engine \in Seq(1 .. n) /\ unread \in Seq(1 .. n)
        /\ 1 .. n \subseteq 1 .. MaxOps
    BY <1>1, <1>3 DEF ListsKnown
  <1>5. engine' = engine \o posted /\ engine' \in Seq(1 .. n)
    BY <1>2, <1>4, ConcatProperties
  <1>6. posted' = <<>> /\ posted' \in Seq(1 .. n) /\ Len(posted') = 0
    <2>1. posted' = SubSeq(posted, Len(posted) + 1, Len(posted))
      BY <1>2
    <2>2. Len(posted) \in Nat
      BY <1>4, LenProperties
    <2>3. SubSeq(posted, Len(posted) + 1, Len(posted)) = <<>>
      BY <2>2, SubSeqEmpty
    <2> QED BY <2>1, <2>3, EmptySeq
  <1>7. TypeOK'
    <2>1. engine' \in Seq(1 .. MaxOps) /\ posted' \in Seq(1 .. MaxOps)
      BY <1>4, <1>5, <1>6, SeqMonotonic
    <2> QED BY <1>1, <2>1, SMTT(40) DEF TypeOK
  <1>8. ListsKnown' /\ HalfWay' /\ OnlyOnce'
    BY <1>1, <1>3, <1>4, <1>5, <1>6
       DEF IInv, ListsKnown, HalfWay, OnlyOnce
  <1>9. InStep'
    <2>1. head \in 0 .. Slots - 1
      BY <1>1 DEF TypeOK
    <2>2. head' = (tail' + 0) % Slots /\ 1 .. 0 = {}
      <3>1. PICK h \in 0 .. Slots - 1 : h = head /\ h = head' /\ h = tail'
        BY <2>1
      <3> HIDE DEF al_dma_issue_pending
      <3>2. h = (h + 0) % Slots /\ 1 .. 0 = {}
        OBVIOUS
      <3> QED BY <3>1, <3>2
    <2>3. Taken' = 0
      BY <1>1, <1>6 DEF Taken
    <2> HIDE DEF al_dma_issue_pending
    <2> QED BY <1>6, <2>2, <2>3 DEF InStep
  <1>10. CookiesCount'
    BY DEF IInv, CookiesCount, Submitted
  <1>11. DescsAccounted'
    <2>1. Weighs(RxF, 1 .. n) /\ Weighs(TxF, 1 .. n)
      BY <1>1, <1>3, CountsAreNat DEF Weighs
    <2>2. /\ Weight(RxF, engine \o posted) = Weight(RxF, engine) + Weight(RxF, posted)
          /\ Weight(TxF, engine \o posted) = Weight(TxF, engine) + Weight(TxF, posted)
          /\ Weight(RxF, <<>>) = 0 /\ Weight(TxF, <<>>) = 0
      BY <1>4, <2>1, WeightConcat, WeightEmpty
    <2>3. PICK a \in Nat, b \in Nat, c \in Nat, d \in Nat, e \in Nat :
             /\ a = RxOf(posted) /\ b = RxOf(engine) /\ c = RxOf(unread)
             /\ d = TxOf(posted) /\ e = TxOf(engine)
      BY <1>1, ListsWeigh
    <2>4. rx_used = a + b + c /\ d + e = tx_used - tx_comp
      BY <2>3 DEF IInv, DescsAccounted
    <2>5. /\ RxOf(posted)' = 0 /\ RxOf(engine)' = b + a /\ RxOf(unread)' = c
          /\ TxOf(posted)' = 0 /\ TxOf(engine)' = e + d
      BY <1>1, <1>5, <1>6, <2>2, <2>3, Weights, SameOps
    <2>6. a + b + c = 0 + (b + a) + c /\ d + e = 0 + (e + d)
      OBVIOUS
    <2> QED BY <1>1, <2>4, <2>5, <2>6 DEF IInv, DescsAccounted
  <1> QED BY <1>7, <1>8, <1>9, <1>10, <1>11 DEF IInv

(* tasklet_schedule, after the unlock *)
LEMMA ScheduleKeeps == IInv /\ tasklet_schedule => IInv'
  <1> SUFFICES ASSUME IInv, tasklet_schedule PROVE IInv'
    OBVIOUS
  <1> USE DEF tasklet_schedule, life, hal, chan
  <1>1. (Unlocked' <=> Unlocked) /\ op' = op
    BY DEF Unlocked
  <1>2. TypeOK'
    <2>1. issuers' \in Nat
      BY DEF IInv, TypeOK
    <2> QED BY <2>1 DEF IInv, TypeOK
  <1>2a. ListsKnown' /\ HalfWay' /\ OnlyOnce'
    <2>1. enabled
      BY DEF IInv, OnlyOnce
    <2> QED BY <1>1, <2>1 DEF IInv, ListsKnown, HalfWay, OnlyOnce
  <1>3. InStep' /\ CookiesCount'
    BY <1>1 DEF IInv, InStep, Taken, CookiesCount, Submitted
  <1>4. DescsAccounted'
    BY <1>1, Weights, SameOps DEF IInv, DescsAccounted
  <1> QED BY <1>2, <1>2a, <1>3, <1>4 DEF IInv

(* The tasklet starts, and ends when there is nothing left to read. *)
LEMMA TaskletKeeps == IInv /\ (TaskletStarts \/ TaskletEnds) => IInv'
  <1> SUFFICES ASSUME IInv, TaskletStarts \/ TaskletEnds PROVE IInv'
    OBVIOUS
  <1> USE DEF TaskletStarts, TaskletEnds, life, hal, chan
  <1>1. (Unlocked' <=> Unlocked) /\ op' = op
    BY DEF Unlocked
  <1>2. TypeOK' /\ ListsKnown' /\ HalfWay' /\ OnlyOnce'
    BY <1>1 DEF IInv, TypeOK, ListsKnown, HalfWay, OnlyOnce
  <1>3. InStep' /\ CookiesCount'
    BY <1>1 DEF IInv, InStep, Taken, CookiesCount, Submitted
  <1>4. DescsAccounted'
    BY <1>1, Weights, SameOps DEF IInv, DescsAccounted
  <1> QED BY <1>2, <1>3, <1>4 DEF IInv

(* Freed rings: the count of RX descriptors is no longer that of the lists. *)
LEMMA ReadsFreedKeeps == IInv /\ TaskletReadsFreed => IInv'
  <1> SUFFICES ASSUME IInv, TaskletReadsFreed PROVE IInv'
    OBVIOUS
  <1> USE DEF TaskletReadsFreed, life, task, chan
  <1>1. (Unlocked' <=> Unlocked) /\ op' = op
    BY DEF Unlocked
  <1>2. TypeOK'
    BY DEF IInv, TypeOK
  <1>2a. ListsKnown' /\ HalfWay' /\ OnlyOnce'
    BY <1>1 DEF IInv, ListsKnown, HalfWay, OnlyOnce
  <1>3. InStep' /\ CookiesCount'
    BY <1>1 DEF IInv, InStep, Taken, CookiesCount, Submitted
  <1>4. DescsAccounted'
    BY <1>1, Weights, SameOps DEF IInv, DescsAccounted, HalfWay
  <1> QED BY <1>2, <1>2a, <1>3, <1>4 DEF IInv

(* The tasklet acknowledges the descriptors of one operation. *)
LEMMA CompletionKeeps == IInv /\ al_raid_dma_completion => IInv'
  <1> SUFFICES ASSUME IInv, al_raid_dma_completion PROVE IInv'
    OBVIOUS
  <1> USE DEF al_raid_dma_completion, life, task, chan
  <1>1. /\ TypeOK /\ ListsKnown /\ (Unlocked' <=> Unlocked) /\ op' = op
        /\ engine' = engine /\ posted' = posted
    BY DEF IInv, Unlocked
  <1>2. PICK n \in Nat : n = Len(op)
    BY <1>1, CountsAreNat
  <1>3. unread \in Seq(1 .. n) /\ 1 .. n \subseteq 1 .. MaxOps
    BY <1>1, <1>2 DEF ListsKnown
  <1>4. Head(unread) \in 1 .. n /\ unread' \in Seq(1 .. n)
    BY <1>3, HeadTailProperties
  <1>5. Weighs(RxF, 1 .. n) /\ RxF[Head(unread)] = op[Head(unread)].rx
    BY <1>1, <1>2, <1>4, CountsAreNat DEF Weighs
  <1>6. Weight(RxF, unread) = RxF[Head(unread)] + Weight(RxF, Tail(unread))
    BY <1>3, <1>5, WeightTail
  <1>7. PICK a \in Nat, b \in Nat, c \in Nat, w \in Nat :
           /\ a = RxOf(posted) /\ b = RxOf(engine) /\ c = Weight(RxF, Tail(unread))
           /\ w = op[Head(unread)].rx
    <2>1. Weight(RxF, Tail(unread)) \in Nat
      BY <1>4, <1>5, WeightType
    <2>2. op[Head(unread)].rx \in Nat
      BY <1>4, <1>5 DEF Weighs
    <2> QED BY <1>1, <2>1, <2>2, ListsWeigh
  <1>8. rx_used = a + b + (w + c) /\ rx_used <= RxDescs
    BY <1>1, <1>5, <1>6, <1>7, Weights DEF IInv, DescsAccounted, TypeOK
  <1>9. rx_used' = a + b + c /\ rx_used' <= rx_used /\ rx_used' \in 0 .. RxDescs
    <2>1. rx_used' = (a + b + (w + c)) - w
      BY <1>7, <1>8
    <2> HIDE DEF al_raid_dma_completion
    <2> QED BY <1>8, <2>1
  <1>10. TypeOK'
    <2>1. unread' \in Seq(1 .. MaxOps)
      BY <1>3, <1>4, SeqMonotonic
    <2> QED BY <1>1, <1>9, <2>1 DEF TypeOK
  <1>11. ListsKnown' /\ HalfWay' /\ OnlyOnce'
    BY <1>1, <1>2, <1>4 DEF IInv, ListsKnown, HalfWay, OnlyOnce
  <1>12. InStep' /\ CookiesCount'
    BY <1>1 DEF IInv, InStep, Taken, CookiesCount, Submitted
  <1>13. DescsAccounted'
    <2>1. RxOf(posted)' = a /\ RxOf(engine)' = b /\ RxOf(unread)' = c
      BY <1>1, <1>7, Weights, SameOps
    <2>2. /\ TxOf(posted)' = TxOf(posted) /\ TxOf(engine)' = TxOf(engine)
      BY <1>1, Weights, SameOps
    <2>3. Unlocked' \/ prep'.avail <= RxDescs - rx_used'
      <3>1. Unlocked \/ (prep.avail <= RxDescs - rx_used /\ prep.avail \in Nat)
        BY <1>1 DEF IInv, DescsAccounted, TypeOK
      <3>2. RxDescs - rx_used <= RxDescs - rx_used' /\ rx_used \in Nat /\ rx_used' \in Nat
        BY <1>8, <1>9
      <3> QED BY <1>1, <3>1, <3>2
    <2> QED BY <1>9, <2>1, <2>2, <2>3 DEF IInv, DescsAccounted
  <1> QED BY <1>10, <1>11, <1>12, <1>13 DEF IInv

(* The engine completes its oldest operation. *)
LEMMA HwDoneKeeps == IInv /\ HwDone => IInv'
  <1> SUFFICES ASSUME IInv, HwDone PROVE IInv'
    OBVIOUS
  <1> USE DEF HwDone, life, task, chan
  <1>1. /\ TypeOK /\ ListsKnown /\ (Unlocked' <=> Unlocked) /\ op' = op /\ posted' = posted
    BY DEF IInv, Unlocked
  <1>2. PICK n \in Nat : n = Len(op)
    BY <1>1, CountsAreNat
  <1>3. engine \in Seq(1 .. n) /\ unread \in Seq(1 .. n) /\ 1 .. n \subseteq 1 .. MaxOps
    BY <1>1, <1>2 DEF ListsKnown
  <1>4. PICK h \in 1 .. n : h = Head(engine)
    BY <1>3, HeadTailProperties
  <1>4a. engine' \in Seq(1 .. n) /\ unread' = Append(unread, h) /\ unread' \in Seq(1 .. n)
    BY <1>3, <1>4, HeadTailProperties, AppendProperties
  <1>5. Weighs(RxF, 1 .. n) /\ Weighs(TxF, 1 .. n) /\ RxF[h] = op[h].rx /\ TxF[h] = op[h].tx
    BY <1>1, <1>2, CountsAreNat DEF Weighs
  <1>6. /\ Weight(RxF, engine) = RxF[h] + Weight(RxF, Tail(engine))
        /\ Weight(TxF, engine) = TxF[h] + Weight(TxF, Tail(engine))
        /\ Weight(RxF, Append(unread, h)) = Weight(RxF, unread) + RxF[h]
    BY <1>3, <1>4, <1>5, WeightTail, WeightAppend
  <1>7. PICK a \in Nat, b \in Nat, c \in Nat, d \in Nat, e \in Nat, w \in Nat, v \in Nat :
           /\ a = RxOf(posted) /\ b = Weight(RxF, Tail(engine)) /\ c = RxOf(unread)
           /\ d = TxOf(posted) /\ e = Weight(TxF, Tail(engine))
           /\ w = op[h].rx /\ v = op[h].tx
    <2>1. Weight(RxF, Tail(engine)) \in Nat /\ Weight(TxF, Tail(engine)) \in Nat
      BY <1>4a, <1>5, WeightType
    <2>2. op[h].rx \in Nat /\ op[h].tx \in Nat
      BY <1>5 DEF Weighs
    <2> QED BY <1>1, <2>1, <2>2, ListsWeigh
  <1>8. /\ allocated => rx_used = a + (w + b) + c
        /\ d + (v + e) = tx_used - tx_comp
        /\ tx_used \in 0 .. TxDescs /\ tx_comp \in 0 .. TxDescs
    BY <1>5, <1>6, <1>7, Weights DEF IInv, DescsAccounted, TypeOK
  <1>9. tx_comp' = tx_comp + v
    BY <1>4, <1>7
  <1>10. tx_comp' \in 0 .. TxDescs /\ d + e = tx_used - tx_comp'
    <2> HIDE DEF HwDone
    <2> QED BY <1>8, <1>9
  <1>11. TypeOK'
    <2>1. unread' \in Seq(1 .. MaxOps) /\ engine' \in Seq(1 .. MaxOps)
      BY <1>3, <1>4a, SeqMonotonic
    <2> QED BY <1>1, <1>10, <2>1 DEF TypeOK
  <1>12. ListsKnown' /\ HalfWay' /\ OnlyOnce'
    BY <1>1, <1>2, <1>4a DEF IInv, ListsKnown, HalfWay, OnlyOnce
  <1>13. InStep' /\ CookiesCount'
    BY <1>1 DEF IInv, InStep, Taken, CookiesCount, Submitted
  <1>14. DescsAccounted'
    <2>1. RxOf(posted)' = a /\ RxOf(engine)' = b /\ RxOf(unread)' = c + w
      BY <1>1, <1>4a, <1>5, <1>6, <1>7, Weights, SameOps
    <2>2. /\ TxOf(posted)' = d /\ TxOf(engine)' = e
      BY <1>1, <1>7, Weights, SameOps
    <2>3. a + (w + b) + c = a + b + (c + w)
      OBVIOUS
    <2> QED BY <1>1, <1>8, <1>10, <2>1, <2>2, <2>3 DEF IInv, DescsAccounted
  <1> QED BY <1>11, <1>12, <1>13, <1>14 DEF IInv

(* Every step of the channel keeps the invariant. *)
LEMMA NextKeepsIInv == IInv /\ [Next]_vars => IInv'
  <1> SUFFICES ASSUME IInv, [Next]_vars PROVE IInv'
    OBVIOUS
  <1>1. ASSUME NEW tx \in Srcs, NEW rx \in Dsts, PrepStart(tx, rx) PROVE IInv'
    BY <1>1, PrepStartKeeps
  <1>2. ASSUME NEW o \in Ops, al_dma_tx_submit(o) PROVE IInv'
    BY <1>2, SubmitKeeps
  <1>3. CASE UNCHANGED vars
    <2> USE <1>3 DEF vars, chan, life, task, hal
    <2>1. (Unlocked' <=> Unlocked) /\ op' = op
      BY DEF Unlocked
    <2>2. TypeOK' /\ ListsKnown' /\ HalfWay' /\ OnlyOnce'
      BY <2>1 DEF IInv, TypeOK, ListsKnown, HalfWay, OnlyOnce
    <2>3. InStep' /\ CookiesCount'
      BY <2>1 DEF IInv, InStep, Taken, CookiesCount, Submitted
    <2>4. DescsAccounted'
      BY <2>1, Weights, SameOps DEF IInv, DescsAccounted
    <2> QED BY <2>2, <2>3, <2>4 DEF IInv
  <1> QED BY <1>1, <1>2, <1>3, AllocKeeps, FreeKeeps, PrepFailsKeeps, PrepDoneKeeps,
             IssueKeeps, ScheduleKeeps, TaskletKeeps, ReadsFreedKeeps,
             CompletionKeeps, HwDoneKeeps DEF Next

(* The invariant holds in every reachable state. *)
LEMMA Invariance == Spec => []IInv
  BY InitIInv, NextKeepsIInv, PTL DEF Spec
-----------------------------------------------------------------------------
(* Every variable of the channel keeps its type; in particular no prepare, *)
(* completion or engine step moves a descriptor count out of its queue.    *)
THEOREM TypeCorrect == Spec => []TypeOK
  <1>1. IInv => TypeOK
    BY DEF IInv
  <1> QED BY <1>1, Invariance, PTL

(* al_dma_issue_pending always hands the engine exactly what the HAL has   *)
(* prepared, in that order, for every ring size and however many prepares  *)
(* failed and gave their slot back.                                        *)
THEOREM SlotsInStep == Spec => []SlotsMatchHal
  <1>1. IInv => SlotsMatchHal
    BY IssuedIsPosted DEF IInv
  <1> QED BY <1>1, Invariance, PTL

(* The descriptors not acknowledged are those of the operations the HAL,   *)
(* the engine and the tasklet hold, and a prepare still finds the room it  *)
(* saw although the tasklet runs without the lock.                         *)
THEOREM DescriptorsAccounted == Spec => []DescsAccounted
  <1>1. IInv => DescsAccounted
    BY DEF IInv
  <1> QED BY <1>1, Invariance, PTL

=============================================================================
