-------------------------- MODULE UdmaQueueProofs --------------------------
(***************************************************************************)
(* Proofs about UdmaQueue for every ring size, reserve and packet length.  *)
(***************************************************************************)
EXTENDS UdmaQueue, SequenceTheorems, TLAPS

USE SizeAssumption, MaxPktAssumption

(* Mask is the identity on a ring index and moves an index that left the   *)
(* ring by at most one lap back into it.                                   *)
LEMMA MaskLaps ==
    ASSUME NEW x \in Int
    PROVE  /\ Mask(x) \in Idx
           /\ 0 <= x /\ x < Size => Mask(x) = x
           /\ Size <= x /\ x < 2 * Size => Mask(x) = x - Size
           /\ -Size <= x /\ x < 0 => Mask(x) = x + Size
           /\ -(2 * Size) <= x /\ x < -Size => Mask(x) = x + 2 * Size
  BY DEF Mask, Idx

(* The mask on an index within two laps *)
LEMMA MaskOneLap ==
    ASSUME NEW x \in 0 .. 2 * Size - 1
    PROVE  Mask(x) = x \/ Mask(x) = x - Size
  BY MaskLaps

(* The two-bit ring ids: stepping back undoes stepping forward, and        *)
(* neighbouring laps differ.                                               *)
LEMMA RingIds ==
    ASSUME NEW r \in RingId
    PROVE  /\ NextRingId(r) \in RingId
           /\ PrevRingId(r) \in RingId
           /\ PrevRingId(NextRingId(r)) = r
           /\ NextRingId(PrevRingId(r)) = r
           /\ PrevRingId(r) # r
           /\ NextRingId(r) # r
  BY DEF RingId, NextRingId, PrevRingId

(* Going from slot a by g and then by k is going by g + k. *)
LEMMA MaskMask ==
    ASSUME NEW a \in Idx, NEW g \in Nat, NEW k \in Nat, g + k < Size
    PROVE  Mask(Mask(a + g) + k) = Mask(a + g + k)
  <1> DEFINE b == Mask(a + g)
  <1>1. b = IF a + g < Size THEN a + g ELSE a + g - Size
    BY MaskLaps DEF Idx
  <1>2. b \in Idx
    BY MaskLaps DEF Idx
  <1> HIDE DEF b
  <1>3. Mask(a + g + k) = IF a + g + k < Size THEN a + g + k ELSE a + g + k - Size
    BY MaskLaps DEF Idx
  <1>4. Mask(b + k) = IF b + k < Size THEN b + k ELSE b + k - Size
    BY <1>2, MaskLaps DEF Idx
  <1>5. Mask(b + k) = Mask(a + g + k)
    BY <1>1, <1>2, <1>3, <1>4 DEF Idx
  <1> QED BY <1>5 DEF b

(* The number of slots from Mask(c + g) up to Mask(c + g + v). *)
LEMMA RingDistance ==
    ASSUME NEW c \in Idx, NEW g \in Nat, NEW v \in Nat, g + v < Size
    PROVE  Mask(Mask(c + g + v) - Mask(c + g)) = v
  <1> DEFINE b == Mask(c + g)
             x == Mask(b + v) - b
  <1>1. b \in Idx
    BY MaskLaps DEF Idx
  <1> HIDE DEF b
  <1>2. x \in Int /\ (x = v \/ x = v - Size)
    BY <1>1, MaskLaps DEF Idx
  <1> HIDE DEF x
  <1>3. Mask(x) = v
    BY <1>2, MaskLaps
  <1>4. Mask(b + v) = Mask(c + g + v)
    BY MaskMask DEF b
  <1> QED BY <1>3, <1>4 DEF b, x

(* Slots at different distances below Size are different slots. *)
LEMMA SlotsDistinct ==
    ASSUME NEW a \in Idx, NEW j \in Idx, NEW k \in Idx, Mask(a + j) = Mask(a + k)
    PROVE  j = k
  <1>1. Mask(a + j) = IF a + j < Size THEN a + j ELSE a + j - Size
    BY MaskLaps DEF Idx
  <1>2. Mask(a + k) = IF a + k < Size THEN a + k ELSE a + k - Size
    BY MaskLaps DEF Idx
  <1> QED BY <1>1, <1>2 DEF Idx

(* Where the unread completions end is where the device writes next. *)
LEMMA UnreadEnds ==
    ASSUME TypeOK
    PROVE  /\ Unread \in 0 .. Size - 1
           /\ crhp = Mask(Mask(next_cdesc_idx + got) + Unread)
  <1>1. next_cdesc_idx + got \in Int /\ crhp \in Int
    BY DEF TypeOK, Idx
  <1>2. Mask(next_cdesc_idx + got) \in Idx
    BY <1>1, MaskLaps
  <1> DEFINE b == Mask(next_cdesc_idx + got)
  <1>3. b \in Idx /\ b \in Int /\ crhp - b \in Int
    BY <1>1, <1>2 DEF Idx
  <1> HIDE DEF b
  <1> DEFINE x == crhp - b
             v == Mask(x)
  <1>4. x \in Int /\ -Size <= x /\ x < Size /\ crhp = b + x
    BY <1>3 DEF TypeOK, Idx
  <1>5. v \in Idx /\ (v = x \/ v = x + Size)
    <2> HIDE DEF x
    <2> QED BY <1>4, MaskLaps
  <1>6. crhp \in Idx
    BY DEF TypeOK
  <1> HIDE DEF v, x
  <1>7. b + v \in Int /\ (b + v = crhp \/ b + v = crhp + Size)
    BY <1>3, <1>4, <1>5, <1>6 DEF Idx
  <1>8. crhp = Mask(b + v)
    BY <1>6, <1>7, MaskLaps DEF Idx
  <1> QED BY <1>5, <1>8 DEF Unread, Idx, b, v, x

(* al_cdesc_next_update steps to the next index of the ring. *)
LEMMA NextPtrIsMask ==
    ASSUME NEW p \in Idx
    PROVE  NextPtr(p) \in Idx /\ NextPtr(p) = Mask(p + 1)
  BY MaskLaps DEF NextPtr, Idx

(* al_udma_available_get does not wrap: it is the room left below the      *)
(* reserved slots.                                                         *)
LEMMA AvailableIsRoom ==
    ASSUME TypeOK, RingAccounted
    PROVE  al_udma_available_get =
               Size - Reserve - (got + Unread + posted + prepared)
  <1> DEFINE u == got + Unread + posted + prepared
  <1>1. u \in 0 .. Size - Reserve
    BY UnreadEnds DEF RingAccounted, TypeOK
  <1>2. next_desc_idx = Mask(next_cdesc_idx + u)
    <2>1. /\ next_cdesc_idx \in Int /\ got \in Int /\ Unread \in Int
          /\ posted \in Int /\ prepared \in Int
      BY UnreadEnds DEF TypeOK, Idx
    <2>2. next_cdesc_idx + got + Unread + posted + prepared = next_cdesc_idx + u
      BY <2>1
    <2> QED BY <2>2 DEF RingAccounted
  <1> HIDE DEF u
  <1>3. next_desc_idx = IF next_cdesc_idx + u < Size THEN next_cdesc_idx + u
                                                     ELSE next_cdesc_idx + u - Size
    BY <1>1, <1>2, MaskLaps DEF TypeOK, Idx
  <1> DEFINE x == next_cdesc_idx - (next_desc_idx + Reserve)
  <1>4. x \in Int /\ (x = -u - Reserve \/ x = Size - u - Reserve)
    BY <1>1, <1>3 DEF TypeOK, Idx
  <1> HIDE DEF x
  <1>5. Mask(x) = Size - Reserve - u
    BY <1>1, <1>4, MaskLaps DEF TypeOK, Idx
  <1> QED BY <1>5 DEF al_udma_available_get, u, x

(* The scan position and the device's are Unread - pkt_crnt_descs apart. *)
LEMMA ScanDistance ==
    ASSUME TypeOK, RingAccounted, ScanInStep
    PROVE  /\ Mask(crhp - comp_head_ptr) = Unread - pkt_crnt_descs
           /\ crhp = Mask(next_cdesc_idx + got + Unread)
           /\ \A i \in Idx : /\ Ahead(i) \in Idx
                             /\ Ahead(i) = IF comp_head_ptr + i < Size
                                           THEN comp_head_ptr + i
                                           ELSE comp_head_ptr + i - Size
                             /\ got + pkt_crnt_descs + i < Size =>
                                  cring[Ahead(i)] = UnreadDesc(pkt_crnt_descs + i)
  <1> DEFINE n == next_cdesc_idx + got
             d == Unread - pkt_crnt_descs
  <1>1. /\ Unread \in 0 .. Size - 1 /\ crhp = Mask(Mask(n) + Unread)
        /\ Unread + got <= Size - Reserve
    BY UnreadEnds DEF RingAccounted, TypeOK, Idx
  <1>a. /\ n \in 0 .. 2 * Size - 1 - Reserve
        /\ comp_head_ptr = Mask(n + pkt_crnt_descs)
        /\ d \in Nat /\ d < Size
    BY <1>1 DEF ScanInStep, TypeOK, Idx
  <1>2. Mask(n) \in Idx /\ (n < Size => Mask(n) = n) /\ (n >= Size => Mask(n) = n - Size)
    BY <1>1, <1>a, MaskLaps DEF Idx
  <1>3. n + Unread \in 0 .. 2 * Size - 1 /\ n + pkt_crnt_descs \in 0 .. 2 * Size - 1
    BY <1>1, <1>a DEF TypeOK, Idx, ScanInStep
  <1> HIDE DEF n
  <1>4. crhp = Mask(n + Unread)
    BY <1>1, <1>a, <1>2, <1>3, MaskLaps DEF Idx
  <1> DEFINE x == crhp - comp_head_ptr
  <1>b. x \in Int /\ (x = d \/ x = d - Size)
    <2>1. crhp = n + Unread \/ crhp = n + Unread - Size
      BY <1>1, <1>a, <1>3, <1>4, MaskOneLap
    <2>2. comp_head_ptr = n + pkt_crnt_descs \/ comp_head_ptr = n + pkt_crnt_descs - Size
      BY <1>3, <1>a, MaskOneLap DEF TypeOK
    <2>3. crhp \in Idx /\ comp_head_ptr \in Idx /\ pkt_crnt_descs \in Nat
      BY DEF TypeOK
    <2> QED BY <2>1, <2>2, <2>3, <1>1, <1>a DEF Idx
  <1> HIDE DEF x
  <1>c. Mask(x) = d
    BY <1>a, <1>b, MaskLaps
  <1>5. Mask(crhp - comp_head_ptr) = d
    BY <1>c DEF x
  <1>6. ASSUME NEW i \in Idx
        PROVE  /\ Ahead(i) \in Idx
               /\ Ahead(i) = IF comp_head_ptr + i < Size
                             THEN comp_head_ptr + i ELSE comp_head_ptr + i - Size
               /\ got + pkt_crnt_descs + i < Size =>
                     Ahead(i) = Mask(n + (pkt_crnt_descs + i))
    <2>1. comp_head_ptr + i \in Int /\ comp_head_ptr + i < 2 * Size /\ comp_head_ptr + i >= 0
      BY DEF TypeOK, Idx
    <2>2. /\ Ahead(i) \in Idx
          /\ Ahead(i) = IF comp_head_ptr + i < Size
                        THEN comp_head_ptr + i ELSE comp_head_ptr + i - Size
      BY <2>1, MaskLaps DEF Ahead, TypeOK, Idx
    <2>3. ASSUME got + pkt_crnt_descs + i < Size
          PROVE  Ahead(i) = Mask(n + (pkt_crnt_descs + i))
      <3>1. CASE n + pkt_crnt_descs < Size
        <4>1. comp_head_ptr = n + pkt_crnt_descs
          BY <1>a, <1>3, <3>1, MaskLaps DEF Idx
        <4> QED BY <4>1, <1>a DEF Ahead, TypeOK, Idx
      <3>2. CASE n + pkt_crnt_descs >= Size
        <4>1. comp_head_ptr = n + pkt_crnt_descs - Size
          BY <1>a, <1>3, <3>2, MaskLaps DEF Idx, TypeOK
        <4>2. comp_head_ptr + i < Size
          BY <4>1, <1>1, <1>a, <2>3 DEF n, Idx, TypeOK
        <4>3. Ahead(i) = n + pkt_crnt_descs - Size + i
          BY <4>1, <4>2, <2>2
        <4>4. n + (pkt_crnt_descs + i) \in Int
               /\ n + (pkt_crnt_descs + i) >= Size /\ n + (pkt_crnt_descs + i) < 2 * Size
          BY <4>1, <4>2, <3>2, <1>a DEF TypeOK, Idx
        <4> QED BY <4>3, <4>4, <1>a, MaskLaps DEF TypeOK, Idx
      <3> QED BY <3>1, <3>2, <1>a DEF TypeOK
    <2> QED BY <2>2, <2>3
  <1> QED BY <1>4, <1>5, <1>6 DEF UnreadDesc, n

(* With the ring ids in step, looking new and being unread are the same. *)
LEMMA NewIsUnread ==
    ASSUME TypeOK, RingAccounted, RingIdsWritten, ScanInStep
    PROVE  \A i \in Idx : IsNew(i) <=> i < Unread - pkt_crnt_descs
  <1> SUFFICES ASSUME NEW i \in Idx
               PROVE  IsNew(i) <=> i < Unread - pkt_crnt_descs
    OBVIOUS
  <1> DEFINE d == Unread - pkt_crnt_descs
             x == crhp - comp_head_ptr
  <1>1. Mask(x) = d /\ d \in Int /\ x \in Int
    BY ScanDistance, UnreadEnds DEF TypeOK, Idx
  <1>2. /\ Ahead(i) \in Idx
        /\ Ahead(i) = IF comp_head_ptr + i < Size
                      THEN comp_head_ptr + i ELSE comp_head_ptr + i - Size
    BY ScanDistance
  <1>3. cring[Ahead(i)].ring_id = IF Ahead(i) < crhp THEN hw_ring_id
                                                     ELSE PrevRingId(hw_ring_id)
    BY <1>2 DEF RingIdsWritten
  <1>4. hw_ring_id \in RingId
    BY DEF TypeOK
  <1> HIDE DEF d
  <1>5. CASE comp_head_ptr <= crhp
    <2>1. d = crhp - comp_head_ptr
      BY <1>1, <1>5, MaskLaps DEF TypeOK, Idx
    <2>2. comp_ring_id = hw_ring_id
      BY <1>5 DEF ScanInStep
    <2>3. CASE comp_head_ptr + i < Size
      BY <1>2, <1>3, <1>4, <2>1, <2>2, <2>3, RingIds
         DEF IsNew, al_udma_new_cdesc, RingIdAhead, TypeOK, Idx, d
    <2>4. CASE comp_head_ptr + i >= Size
      BY <1>2, <1>3, <1>4, <1>5, <2>1, <2>2, <2>4, RingIds
         DEF IsNew, al_udma_new_cdesc, RingIdAhead, TypeOK, Idx, d
    <2> QED BY <2>3, <2>4 DEF TypeOK, Idx
  <1>6. CASE comp_head_ptr > crhp
    <2>1. d = crhp - comp_head_ptr + Size
      BY <1>1, <1>6, MaskLaps DEF TypeOK, Idx
    <2>2. comp_ring_id = PrevRingId(hw_ring_id)
      BY <1>6 DEF ScanInStep, TypeOK, Idx
    <2>3. CASE comp_head_ptr + i < Size
      BY <1>2, <1>3, <1>4, <1>6, <2>1, <2>2, <2>3, RingIds
         DEF IsNew, al_udma_new_cdesc, RingIdAhead, TypeOK, Idx, d
    <2>4. CASE comp_head_ptr + i >= Size
      BY <1>2, <1>3, <1>4, <1>6, <2>1, <2>2, <2>4, RingIds
         DEF IsNew, al_udma_new_cdesc, RingIdAhead, TypeOK, Idx, d
    <2> QED BY <2>3, <2>4 DEF TypeOK, Idx
  <1> QED BY <1>5, <1>6 DEF TypeOK, Idx

(* A step that leaves the completion side alone keeps its invariants. *)
LEMMA CompletionFrame ==
    ASSUME IInv,
           UNCHANGED <<next_cdesc_idx, comp_head_ptr, comp_ring_id, pkt_crnt_descs,
                       got, crhp, hw_ring_id, hw_len, cring, drain>>
    PROVE  /\ Unread' = Unread
           /\ RingIdsWritten'
           /\ HeadReg' = HeadReg
           /\ ~HeadReg => ScanOK'
  BY DEF IInv, HeadReg, Unread, RingIdsWritten, ScanOK, ScanInStep, Stalled, PacketsUnread,
         PacketsEnd, UnreadDesc, Mask, NextRingId, PrevRingId, DropMode

(* al_udma_available_get *)
LEMMA CheckKeeps ==
    ASSUME IInv, NEW num \in 1 .. MaxPkt, Check(num)
    PROVE  IInv'
  <1>1. /\ Unread' = Unread /\ RingIdsWritten'
        /\ HeadReg' = HeadReg
        /\ ~HeadReg => ScanOK'
    BY CompletionFrame DEF Check, swvars, hwvars
  <1>2. TypeOK'
    BY DEF IInv, TypeOK, Check, swvars, hwvars
  <1>3. num <= Size - Reserve - (got + Unread + posted + prepared)
    BY AvailableIsRoom DEF IInv, Check
  <1>4. RingAccounted'
    BY <1>1, <1>3, UnreadEnds DEF IInv, RingAccounted, Check, swvars, hwvars, TypeOK, Mask
  <1> QED BY <1>1, <1>2, <1>4 DEF IInv

(* al_udma_desc_get *)
LEMMA DescGetKeeps ==
    ASSUME IInv, al_udma_desc_get
    PROVE  IInv'
  <1>1. /\ Unread' = Unread /\ RingIdsWritten'
        /\ HeadReg' = HeadReg
        /\ ~HeadReg => ScanOK'
    BY CompletionFrame DEF al_udma_desc_get, hwvars
  <1> DEFINE u == got + Unread + posted + prepared
  <1>2. u \in Nat /\ u + 1 <= Size - Reserve /\ next_desc_idx = Mask(next_cdesc_idx + u)
    <2>1. u \in Nat /\ u + 1 <= Size - Reserve
      BY UnreadEnds DEF IInv, RingAccounted, TypeOK, al_udma_desc_get
    <2>2. next_cdesc_idx + u = next_cdesc_idx + got + Unread + posted + prepared
      BY UnreadEnds DEF IInv, TypeOK, Idx
    <2> QED BY <2>1, <2>2 DEF IInv, RingAccounted
  <1>3. next_desc_idx' = Mask(next_cdesc_idx + (u + 1))
    <2> HIDE DEF u
    <2>1. next_desc_idx' = Mask(next_desc_idx + 1)
      BY DEF al_udma_desc_get
    <2>2. next_cdesc_idx \in Idx
      BY DEF IInv, TypeOK
    <2>3. next_desc_idx = IF next_cdesc_idx + u < Size THEN next_cdesc_idx + u
                                                       ELSE next_cdesc_idx + u - Size
      BY <1>2, <2>2, MaskLaps DEF Idx
    <2>4. Mask(next_cdesc_idx + (u + 1)) =
             IF next_cdesc_idx + (u + 1) < Size THEN next_cdesc_idx + (u + 1)
                                                ELSE next_cdesc_idx + (u + 1) - Size
      BY <1>2, <2>2, MaskLaps DEF Idx
    <2>5. CASE next_desc_idx + 1 < Size
      BY <2>1, <2>2, <2>3, <2>4, <2>5, <1>2, MaskLaps DEF Idx
    <2>6. CASE next_desc_idx + 1 = Size
      BY <2>1, <2>2, <2>3, <2>4, <2>6, <1>2, MaskLaps DEF Idx
    <2> QED BY <2>5, <2>6, <2>3, <1>2, <2>2 DEF Idx
  <1>4. TypeOK'
    <2>1. next_desc_idx' \in Idx
      BY MaskLaps DEF IInv, TypeOK, al_udma_desc_get, Idx
    <2>2. desc_ring_id' \in RingId
      BY RingIds DEF IInv, TypeOK, al_udma_desc_get
    <2>3. prepared' \in 0 .. Size /\ todo' \in 0 .. Size
      BY UnreadEnds, SMTT(40) DEF IInv, RingAccounted, TypeOK, al_udma_desc_get, Idx
    <2> QED BY <2>1, <2>2, <2>3 DEF IInv, TypeOK, al_udma_desc_get, hwvars
  <1>5. RingAccounted'
    <2>a. /\ next_cdesc_idx' = next_cdesc_idx /\ got' = got /\ posted' = posted
          /\ prepared' = prepared + 1 /\ Unread' = Unread
      BY <1>1 DEF al_udma_desc_get, hwvars
    <2>b. /\ next_cdesc_idx \in Nat /\ got \in Nat /\ posted \in Nat
          /\ prepared \in Nat /\ Unread \in Nat
      BY UnreadEnds DEF IInv, TypeOK, Idx
    <2>2. next_cdesc_idx' + got' + Unread' + posted' + prepared' = next_cdesc_idx + (u + 1)
      BY <2>a, <2>b
    <2>3. todo' + prepared' + posted' + Unread' + got' <= Size - Reserve
      BY <1>1, UnreadEnds DEF IInv, TypeOK, al_udma_desc_get, hwvars, RingAccounted
    <2> QED BY <1>3, <2>2, <2>3 DEF RingAccounted, Mask
  <1> QED BY <1>1, <1>4, <1>5 DEF IInv

(* al_udma_desc_action_add *)
LEMMA ActionAddKeeps ==
    ASSUME IInv, NEW num \in 1 .. Size, al_udma_desc_action_add(num)
    PROVE  IInv'
  <1>1. /\ Unread' = Unread /\ RingIdsWritten'
        /\ HeadReg' = HeadReg
        /\ ~HeadReg => ScanOK'
    BY CompletionFrame DEF al_udma_desc_action_add, swvars
  <1>2. TypeOK'
    BY UnreadEnds DEF IInv, TypeOK, RingAccounted, al_udma_desc_action_add, swvars
  <1>3. next_cdesc_idx' + got' + Unread' + posted' + prepared'
           = next_cdesc_idx + got + Unread + posted + prepared
    BY <1>1, UnreadEnds DEF IInv, TypeOK, al_udma_desc_action_add, swvars, Idx
  <1>4. RingAccounted'
    BY <1>1, <1>3, UnreadEnds DEF IInv, RingAccounted, TypeOK, al_udma_desc_action_add, swvars, Mask
  <1> QED BY <1>1, <1>2, <1>4 DEF IInv

(* The same end, as a distance from the oldest completion not acknowledged. *)
LEMMA UnreadEndsAt ==
    ASSUME TypeOK, RingAccounted
    PROVE  crhp = Mask(next_cdesc_idx + got + Unread)
  <1>1. next_cdesc_idx \in Idx /\ got \in Nat /\ Unread \in Nat /\ got + Unread < Size
    BY UnreadEnds DEF TypeOK, RingAccounted
  <1>2. Mask(Mask(next_cdesc_idx + got) + Unread) = Mask(next_cdesc_idx + got + Unread)
    BY <1>1, MaskMask
  <1> QED BY <1>2, UnreadEnds

(* al_udma_cdesc_ack moves the oldest index over what was returned; the    *)
(* unread completions stay where they are.                                 *)
LEMMA AckMoves ==
    ASSUME IInv, NEW num \in 1 .. Size, al_udma_cdesc_ack(num)
    PROVE  /\ next_cdesc_idx' \in Idx
           /\ next_cdesc_idx' = Mask(next_cdesc_idx + got) /\ got' = 0
           /\ next_cdesc_idx' + got' = next_cdesc_idx'
           /\ \A k \in Nat : got + k < Size =>
                 Mask(next_cdesc_idx' + got' + k) = Mask(next_cdesc_idx + got + k)
           /\ Unread' = Unread
  <1>1. /\ Unread \in Nat /\ posted \in Nat /\ prepared \in Nat /\ got \in Nat
        /\ todo \in Nat /\ next_cdesc_idx \in Idx
        /\ got + (Unread + posted + prepared) < Size
    BY UnreadEnds DEF IInv, TypeOK, RingAccounted
  <1>2. /\ next_cdesc_idx' = Mask(next_cdesc_idx + got) /\ got' = 0
        /\ UNCHANGED <<next_desc_idx, desc_ring_id, comp_head_ptr, comp_ring_id,
                   pkt_crnt_descs, drain, todo, prepared, hwvars, desc, cring>>
    BY DEF al_udma_cdesc_ack
  <1>3. next_cdesc_idx' \in Idx /\ next_cdesc_idx' + got' = next_cdesc_idx'
    BY <1>1, <1>2, MaskLaps DEF Idx
  <1>4. ASSUME NEW k \in Nat, got + k < Size
        PROVE  Mask(next_cdesc_idx' + got' + k) = Mask(next_cdesc_idx + got + k)
    BY <1>1, <1>2, <1>3, <1>4, MaskMask
  <1>5. Unread' = Unread
    <2>1. Mask(next_cdesc_idx' + got') = Mask(next_cdesc_idx + got)
      BY <1>2, <1>3, MaskLaps DEF Idx
    <2> QED BY <2>1, <1>2 DEF Unread, hwvars, Mask
  <1> QED BY <1>2, <1>3, <1>4, <1>5

(* al_udma_cdesc_ack *)
LEMMA AckKeeps ==
    ASSUME IInv, NEW num \in 1 .. Size, al_udma_cdesc_ack(num)
    PROVE  IInv'
  <1>1. /\ Unread \in Nat /\ posted \in Nat /\ prepared \in Nat /\ got \in Nat
        /\ todo \in Nat /\ next_cdesc_idx \in Idx
        /\ got + (Unread + posted + prepared) < Size
    BY UnreadEnds DEF IInv, TypeOK, RingAccounted
  <1>2. /\ next_cdesc_idx' = Mask(next_cdesc_idx + got) /\ got' = 0
        /\ UNCHANGED <<next_desc_idx, desc_ring_id, comp_head_ptr, comp_ring_id,
                   pkt_crnt_descs, drain, todo, prepared, hwvars, desc, cring>>
    BY DEF al_udma_cdesc_ack
  <1>3. next_cdesc_idx' \in Idx /\ next_cdesc_idx' + got' = next_cdesc_idx'
    BY AckMoves
  <1>4. \A k \in Nat : got + k < Size =>
            Mask(next_cdesc_idx' + got' + k) = Mask(next_cdesc_idx + got + k)
    BY AckMoves
  <1>5. Unread' = Unread
    BY AckMoves
  <1>6. TypeOK'
    BY <1>2, <1>3 DEF IInv, TypeOK, hwvars
  <1>7. RingAccounted'
    <2> DEFINE w == Unread + posted + prepared
    <2>1. next_desc_idx = Mask(next_cdesc_idx + got + w)
      <3>1. next_cdesc_idx + got + w = next_cdesc_idx + got + Unread + posted + prepared
        BY <1>1 DEF Idx
      <3> QED BY <3>1 DEF IInv, RingAccounted
    <2>2. next_desc_idx' = Mask(next_cdesc_idx' + got' + w)
      BY <2>1, <1>1, <1>2, <1>4
    <2>3. next_cdesc_idx' + got' + w = next_cdesc_idx' + got' + Unread' + posted' + prepared'
      BY <1>1, <1>2, <1>3, <1>5 DEF hwvars, Idx
    <2>4. todo' + prepared' + posted' + Unread' + got' <= Size - Reserve
      BY <1>1, <1>2, <1>5 DEF hwvars, IInv, RingAccounted
    <2> QED BY <2>2, <2>3, <2>4 DEF RingAccounted, Mask
  <1>8. RingIdsWritten'
    BY <1>2 DEF IInv, RingIdsWritten, hwvars
  <1>9. ASSUME ~HeadReg PROVE ScanOK'
    <2>1. ScanOK /\ pkt_crnt_descs \in Nat
      BY <1>9 DEF IInv, TypeOK
    <2>2. ASSUME ScanInStep PROVE ScanInStep'
      <3>1. pkt_crnt_descs <= Unread
        BY <2>2 DEF ScanInStep
      <3> QED BY <2>1, <2>2, <3>1, <1>1, <1>2, <1>4, <1>5 DEF ScanInStep, hwvars, Mask
    <2>3. ASSUME Stalled PROVE Stalled'
      <3>1. Mask(next_cdesc_idx' + got') = 0
        BY <2>3, <1>2, <1>3, MaskLaps DEF Stalled, Idx
      <3> QED BY <2>3, <3>1, <1>2 DEF Stalled, hwvars, Mask, NextRingId
    <2>4. pkt_crnt_descs <= Unread
      BY <1>1, <2>1 DEF ScanOK, ScanInStep, Stalled
    <2>5. ASSUME NEW k \in Nat, k <= Unread
          PROVE  UnreadDesc(k)' = UnreadDesc(k)
      BY <2>5, <1>1, <1>2, <1>4 DEF UnreadDesc, Mask
    <2>6. PacketsUnread'
      BY <2>1, <2>4, <2>5, <1>1, <1>2, <1>5 DEF ScanOK, PacketsUnread, hwvars
    <2>7. PacketsEnd => PacketsEnd'
      BY <2>5, <1>1, <1>2, <1>5 DEF PacketsEnd, hwvars
    <2>8. DropMode' = DropMode
      BY <1>2 DEF DropMode
    <2> QED BY <2>1, <2>2, <2>3, <2>6, <2>7, <2>8 DEF ScanOK
  <1> QED BY <1>2, <1>6, <1>7, <1>8, <1>9 DEF IInv, HeadReg

(* al_udma_cdesc_get_all returns all that is unread. *)
LEMMA GetAllTakes ==
    ASSUME IInv, al_udma_cdesc_get_all
    PROVE  got = 0 /\ got' = Unread /\ Unread' = 0
  <1>1. /\ HeadReg /\ got = 0 /\ got' = Mask(crhp - next_cdesc_idx)
        /\ UNCHANGED <<swvars, todo, prepared, hwvars, desc, cring>>
    BY DEF al_udma_cdesc_get_all
  <1>2. next_cdesc_idx \in Idx /\ Unread \in 0 .. Size - 1 /\ Mask(next_cdesc_idx + got) = next_cdesc_idx
    BY <1>1, UnreadEnds, MaskLaps DEF IInv, TypeOK, Idx
  <1>3. got' = Unread
    BY <1>1, <1>2 DEF Unread
  <1>4. crhp = Mask(next_cdesc_idx + got')
    BY <1>1, <1>2, <1>3, UnreadEndsAt DEF IInv, Idx
  <1>5. Unread' = 0
    <2>1. Mask(crhp - crhp) = 0
      BY MaskLaps DEF IInv, TypeOK, Idx
    <2> QED BY <1>1, <1>4, <2>1 DEF Unread, swvars, hwvars, Mask
  <1> QED BY <1>1, <1>3, <1>5

(* al_udma_cdesc_get_all *)
LEMMA GetAllKeeps ==
    ASSUME IInv, al_udma_cdesc_get_all
    PROVE  IInv'
  <1>1. /\ HeadReg /\ got = 0 /\ got' = Mask(crhp - next_cdesc_idx)
        /\ UNCHANGED <<swvars, todo, prepared, hwvars, desc, cring>>
    BY DEF al_udma_cdesc_get_all
  <1>2. next_cdesc_idx \in Idx /\ Unread \in 0 .. Size - 1 /\ Mask(next_cdesc_idx + got) = next_cdesc_idx
    BY <1>1, UnreadEnds, MaskLaps DEF IInv, TypeOK, Idx
  <1>3. got' = Unread
    BY GetAllTakes
  <1>5. Unread' = 0
    BY GetAllTakes
  <1>6. TypeOK'
    BY <1>1, <1>2, <1>3 DEF IInv, TypeOK, swvars, hwvars
  <1>7. RingAccounted'
    <2>1. next_cdesc_idx' + got' + Unread' + posted' + prepared'
             = next_cdesc_idx + got + Unread + posted + prepared
      BY <1>1, <1>2, <1>3, <1>5 DEF IInv, TypeOK, Idx, swvars, hwvars
    <2>2. todo' + prepared' + posted' + Unread' + got' <= Size - Reserve
      BY <1>1, <1>2, <1>3, <1>5 DEF IInv, RingAccounted, TypeOK, swvars, hwvars
    <2> QED BY <1>1, <2>1, <2>2 DEF IInv, RingAccounted, swvars, Mask
  <1>8. RingIdsWritten'
    BY <1>1 DEF IInv, RingIdsWritten, hwvars
  <1> QED BY <1>1, <1>6, <1>7, <1>8 DEF IInv, HeadReg, swvars

(* The device writes the completion behind the unread ones and overwrites  *)
(* none that is returned or unread.                                        *)
LEMMA HwWrites ==
    ASSUME IInv, NEW last \in BOOLEAN, NEW err \in BOOLEAN, HwComplete(last, err)
    PROVE  LET c == [ring_id |-> hw_ring_id, first |-> hw_len = 0, last |-> last, err |-> err]
           IN  /\ Unread \in Nat /\ got + Unread + 1 < Size
               /\ Unread' = Unread + 1
               /\ crhp' \in Idx
               /\ \A i \in Idx : cring'[i] = IF i = crhp THEN c ELSE cring[i]
               /\ \A k \in Nat : k < got + Unread =>
                     cring'[Mask(next_cdesc_idx + k)] = cring[Mask(next_cdesc_idx + k)]
               /\ cring'[Mask(next_cdesc_idx + got + Unread)] = c
  <1> DEFINE c == [ring_id |-> hw_ring_id, first |-> hw_len = 0, last |-> last, err |-> err]
  <1>1. /\ posted > 0 /\ posted' = posted - 1
        /\ cring' = [cring EXCEPT ![crhp] = c]
        /\ hw_len' = IF last THEN 0 ELSE hw_len + 1
        /\ crhp' = NextPtr(crhp) /\ hw_ring_id' = NextUpdate(crhp, hw_ring_id)
        /\ UNCHANGED <<swvars, clvars, desc>>
    BY DEF HwComplete
  <1>2. /\ Unread \in Nat /\ posted \in Nat /\ prepared \in Nat /\ got \in Nat
        /\ todo \in Nat /\ next_cdesc_idx \in Idx /\ crhp \in Idx
        /\ hw_ring_id \in RingId /\ cring \in [Idx -> CDesc]
        /\ got + Unread + 1 < Size
    BY <1>1, UnreadEnds DEF IInv, TypeOK, RingAccounted
  <1>3. crhp = Mask(next_cdesc_idx + got + Unread) /\ crhp' = Mask(crhp + 1) /\ crhp' \in Idx
    BY <1>1, <1>2, UnreadEndsAt, NextPtrIsMask DEF IInv
  <1>4. Unread' = Unread + 1
    <2>1. Mask(Mask(next_cdesc_idx + (got + Unread)) + 1) = Mask(next_cdesc_idx + (got + Unread) + 1)
      <3>1. got + Unread \in Nat /\ 1 \in Nat /\ (got + Unread) + 1 < Size
        BY <1>2
      <3> QED BY <1>2, <3>1, MaskMask
    <2>2. /\ next_cdesc_idx + (got + Unread) = next_cdesc_idx + got + Unread
          /\ next_cdesc_idx + (got + Unread) + 1 = next_cdesc_idx + got + (Unread + 1)
      BY <1>2 DEF Idx
    <2>3. crhp' = Mask(next_cdesc_idx + got + (Unread + 1))
      BY <1>3, <2>1, <2>2
    <2>4. Mask(Mask(next_cdesc_idx + got + (Unread + 1)) - Mask(next_cdesc_idx + got)) = Unread + 1
      <3>1. Unread + 1 \in Nat /\ got + (Unread + 1) < Size
        BY <1>2
      <3> QED BY <1>2, <3>1, RingDistance
    <2> QED BY <1>1, <2>3, <2>4 DEF Unread, swvars, clvars, Mask
  <1>5. \A i \in Idx : cring'[i] = IF i = crhp THEN c ELSE cring[i]
    BY <1>1, <1>2
  <1>6. ASSUME NEW k \in Nat, k < got + Unread
        PROVE  cring'[Mask(next_cdesc_idx + k)] = cring[Mask(next_cdesc_idx + k)]
    <2>1. k \in Idx /\ got + Unread \in Idx /\ k # got + Unread
      BY <1>2, <1>6 DEF Idx
    <2>2. Mask(next_cdesc_idx + k) # Mask(next_cdesc_idx + (got + Unread))
      BY <1>2, <2>1, SlotsDistinct
    <2>3. /\ next_cdesc_idx + (got + Unread) = next_cdesc_idx + got + Unread
          /\ next_cdesc_idx + k \in Int
      BY <1>2 DEF Idx
    <2>4. Mask(next_cdesc_idx + k) \in Idx /\ Mask(next_cdesc_idx + k) # crhp
      BY <1>3, <2>2, <2>3, MaskLaps
    <2> QED BY <1>5, <2>4
  <1>7. cring'[Mask(next_cdesc_idx + got + Unread)] = c
    BY <1>2, <1>3, <1>5
  <1> QED BY <1>2, <1>3, <1>4, <1>5, <1>6, <1>7

(* The engine writes a completion. *)
LEMMA HwCompleteKeeps ==
    ASSUME IInv, NEW last \in BOOLEAN, NEW err \in BOOLEAN, HwComplete(last, err)
    PROVE  IInv'
  <1> DEFINE c == [ring_id |-> hw_ring_id, first |-> hw_len = 0, last |-> last, err |-> err]
  <1>1. /\ posted > 0 /\ posted' = posted - 1
        /\ cring' = [cring EXCEPT ![crhp] = c]
        /\ hw_len' = IF last THEN 0 ELSE hw_len + 1
        /\ crhp' = NextPtr(crhp) /\ hw_ring_id' = NextUpdate(crhp, hw_ring_id)
        /\ UNCHANGED <<swvars, clvars, desc>>
    BY DEF HwComplete
  <1>2. /\ Unread \in Nat /\ posted \in Nat /\ prepared \in Nat /\ got \in Nat
        /\ todo \in Nat /\ next_cdesc_idx \in Idx /\ crhp \in Idx
        /\ hw_ring_id \in RingId /\ cring \in [Idx -> CDesc]
        /\ got + Unread + 1 < Size
    BY <1>1, UnreadEnds DEF IInv, TypeOK, RingAccounted
  <1>3. crhp = Mask(next_cdesc_idx + got + Unread) /\ crhp' = Mask(crhp + 1) /\ crhp' \in Idx
    BY <1>1, <1>2, UnreadEndsAt, NextPtrIsMask DEF IInv
  <1>4. Unread' = Unread + 1
    BY HwWrites
  <1>5. hw_ring_id' \in RingId
    BY <1>1, <1>2, RingIds DEF NextUpdate
  <1>6. TypeOK'
    <2>1. c \in CDesc
      BY <1>2 DEF CDesc
    <2>2. hw_len' \in 0 .. MaxPkt - 1
      BY DEF HwComplete, IInv, TypeOK
    <2>3. cring' \in [Idx -> CDesc]
      BY <1>1, <1>2, <2>1
    <2> QED BY <1>1, <1>3, <1>5, <2>2, <2>3 DEF IInv, TypeOK, swvars, clvars
  <1>7. RingAccounted'
    <2>1. next_cdesc_idx' + got' + Unread' + posted' + prepared'
             = next_cdesc_idx + got + Unread + posted + prepared
      BY <1>1, <1>2, <1>4 DEF Idx, swvars, clvars
    <2>2. todo' + prepared' + posted' + Unread' + got' <= Size - Reserve
      BY <1>1, <1>2, <1>4 DEF IInv, RingAccounted, swvars, clvars
    <2> QED BY <1>1, <2>1, <2>2 DEF IInv, RingAccounted, swvars, Mask
  <1>8. \A i \in Idx : cring'[i] = IF i = crhp THEN c ELSE cring[i]
    BY HwWrites
  <1>9. RingIdsWritten'
    <2> SUFFICES ASSUME NEW i \in Idx
                 PROVE  cring'[i].ring_id = IF i < crhp' THEN hw_ring_id'
                                                        ELSE PrevRingId(hw_ring_id')
      BY DEF RingIdsWritten, PrevRingId
    <2>1. cring[i].ring_id = IF i < crhp THEN hw_ring_id ELSE PrevRingId(hw_ring_id)
      BY DEF IInv, RingIdsWritten
    <2>2. CASE crhp = Size - 1
      <3>1. crhp' = 0 /\ hw_ring_id' = NextRingId(hw_ring_id)
        BY <1>1, <2>2 DEF NextPtr, NextUpdate
      <3> QED BY <3>1, <2>1, <2>2, <1>2, <1>8, RingIds DEF Idx
    <2>3. CASE crhp # Size - 1
      <3>1. crhp' = crhp + 1 /\ hw_ring_id' = hw_ring_id
        BY <1>1, <2>3 DEF NextPtr, NextUpdate
      <3> QED BY <3>1, <2>1, <2>3, <1>2, <1>8 DEF Idx
    <2> QED BY <2>2, <2>3
  <1>10. ASSUME ScanInStep PROVE ScanInStep'
    <2>1. /\ pkt_crnt_descs \in Nat /\ pkt_crnt_descs <= Unread
          /\ comp_head_ptr \in Idx
          /\ comp_head_ptr = Mask(next_cdesc_idx + got + pkt_crnt_descs)
          /\ comp_ring_id = IF comp_head_ptr <= crhp THEN hw_ring_id
                                                     ELSE PrevRingId(hw_ring_id)
      BY <1>10 DEF IInv, ScanInStep, TypeOK
    <2>2. comp_head_ptr # crhp'
      \* the distance would be a whole lap
      <3>1. Mask(crhp - comp_head_ptr) = Unread - pkt_crnt_descs
        BY <1>10, ScanDistance DEF IInv
      <3> DEFINE x == crhp - comp_head_ptr
      <3>2. ASSUME comp_head_ptr = crhp' PROVE x \in Int /\ (x = -1 \/ x = Size - 1)
        BY <1>1, <1>2, <3>2 DEF NextPtr, Idx
      <3>3. Mask(-1) = Size - 1 /\ Mask(Size - 1) = Size - 1
        BY MaskLaps
      <3> QED BY <3>1, <3>2, <3>3, <1>2, <2>1
    <2>3. comp_ring_id = IF comp_head_ptr <= crhp' THEN hw_ring_id'
                                                   ELSE PrevRingId(hw_ring_id')
      <3>1. CASE crhp = Size - 1
        <4>1. crhp' = 0 /\ hw_ring_id' = NextRingId(hw_ring_id)
          BY <1>1, <3>1 DEF NextPtr, NextUpdate
        <4> QED BY <4>1, <3>1, <2>1, <2>2, <1>2, RingIds DEF Idx
      <3>2. CASE crhp # Size - 1
        <4>1. crhp' = crhp + 1 /\ hw_ring_id' = hw_ring_id
          BY <1>1, <3>2 DEF NextPtr, NextUpdate
        <4> QED BY <4>1, <3>2, <2>1, <2>2, <1>2 DEF Idx
      <3> QED BY <3>1, <3>2
    <2> QED BY <1>1, <1>2, <1>4, <2>1, <2>3 DEF ScanInStep, swvars, clvars, Mask, PrevRingId
  <1>11. ASSUME Stalled PROVE Stalled'
    <2>1. Unread = crhp
      BY <1>2, <1>11, MaskLaps DEF Unread, Stalled, Idx
    <2>2. hw_ring_id' = hw_ring_id
      BY <1>1, <1>2, <2>1 DEF NextUpdate
    <2> QED BY <1>1, <1>11, <2>2 DEF Stalled, swvars, clvars, Mask, NextRingId
  <1>12. ASSUME NEW k \in Nat, k < Unread
         PROVE  UnreadDesc(k)' = UnreadDesc(k)
    <2>1. got + k \in Nat /\ got + k < got + Unread /\ next_cdesc_idx + (got + k) = next_cdesc_idx + got + k
      BY <1>2, <1>12 DEF Idx
    <2>2. cring'[Mask(next_cdesc_idx + (got + k))] = cring[Mask(next_cdesc_idx + (got + k))]
      BY <2>1, HwWrites
    <2>3. UnreadDesc(k)' = cring'[Mask(next_cdesc_idx + got + k)]
      BY <1>1 DEF UnreadDesc, swvars, clvars, Mask
    <2> QED BY <2>1, <2>2, <2>3 DEF UnreadDesc
  <1> PICK u \in Nat : u = Unread
    BY <1>2
  <1>13. UnreadDesc(u)' = c
    BY <1>1, <1>3, <1>8, <1>2 DEF UnreadDesc, swvars, clvars, Mask
  <1>14. Unread' = u + 1 /\ Unread' - 1 = u
    BY <1>4
  <1>15. hw_len \in Nat /\ c.last = last /\ c.first = (hw_len = 0)
    BY DEF IInv, TypeOK
  <1>16. hw_len' = 0 <=> UnreadDesc(u)'.last
    BY <1>1, <1>13, <1>15
  <1> HIDE DEF c
  <1>17. ASSUME ~HeadReg PROVE PacketsUnread'
    <2>1. PacketsUnread /\ pkt_crnt_descs' = pkt_crnt_descs /\ pkt_crnt_descs \in Nat
          /\ pkt_crnt_descs <= u
      BY <1>1, <1>17 DEF swvars, IInv, ScanOK, ScanInStep, Stalled, TypeOK
    <2>2. UnreadDesc(0)'.first
      <3>1. CASE u = 0
        BY <3>1, <2>1, <1>13, <1>15 DEF PacketsUnread
      <3>2. CASE u > 0
        BY <3>2, <2>1, <1>12 DEF PacketsUnread
      <3> QED BY <3>1, <3>2
    <2>3. ASSUME NEW k \in 1 .. u
          PROVE  UnreadDesc(k - 1)'.last => UnreadDesc(k)'.first
      <3>1. CASE k < u
        BY <3>1, <2>1, <1>12 DEF PacketsUnread
      <3>2. CASE k = u
        <4>1. UnreadDesc(u - 1)' = UnreadDesc(u - 1)
          BY <3>2, <1>12
        <4>2. UnreadDesc(u - 1).last => hw_len = 0
          BY <3>2, <2>1 DEF PacketsUnread
        <4> QED BY <3>2, <4>1, <4>2, <1>13, <1>15
      <3> QED BY <3>1, <3>2
    <2>4. \A k \in 0 .. pkt_crnt_descs' - 1 : ~UnreadDesc(k)'.last
      BY <2>1, <1>12 DEF PacketsUnread
    <2>5. \A k \in 1 .. pkt_crnt_descs' - 1 : ~UnreadDesc(k)'.first
      BY <2>1, <1>12 DEF PacketsUnread
    <2>6. \A k \in 1 .. Unread' - 1 : UnreadDesc(k - 1)'.last => UnreadDesc(k)'.first
      BY <1>14, <2>3
    <2> QED BY <1>14, <1>16, <2>2, <2>4, <2>5, <2>6 DEF PacketsUnread, UnreadDesc, Mask
  <1>18. ASSUME PacketsEnd PROVE PacketsEnd'
    <2>1. ASSUME NEW k \in 1 .. u
          PROVE  UnreadDesc(k)'.first => UnreadDesc(k - 1)'.last
      <3>1. CASE k < u
        BY <3>1, <1>12, <1>18 DEF PacketsEnd
      <3>2. CASE k = u
        <4>1. UnreadDesc(u - 1)' = UnreadDesc(u - 1)
          BY <3>2, <1>12
        <4>2. hw_len = 0 => UnreadDesc(u - 1).last
          BY <3>2, <1>18 DEF PacketsEnd
        <4> QED BY <3>2, <4>1, <4>2, <1>13, <1>15
      <3> QED BY <3>1, <3>2
    <2>2. \A k \in 1 .. Unread' - 1 : UnreadDesc(k)'.first => UnreadDesc(k - 1)'.last
      BY <1>14, <2>1
    <2> QED BY <1>14, <1>16, <2>2 DEF PacketsEnd, UnreadDesc, Mask
  <1>19. ASSUME ~HeadReg PROVE ScanOK'
    <2>1. ScanOK
      BY <1>19 DEF IInv
    <2>2. DropMode' = DropMode
      BY <1>1 DEF DropMode, swvars
    <2> QED BY <2>1, <2>2, <1>10, <1>11, <1>17, <1>18, <1>19 DEF ScanOK
  <1> QED BY <1>1, <1>6, <1>7, <1>9, <1>19 DEF IInv, HeadReg, swvars

(* The scan of al_udma_cdesc_packet_get: it stops at i, and everything     *)
(* before it is new and inside the packet.  A first descriptor is met      *)
(* where the packet should continue only if the device dropped its rest.   *)
LEMMA ScanStops ==
    ASSUME IInv, ~HeadReg, ScanInStep, got = 0, NEW i \in 0 .. Size - 1, StopAt(i)
    PROVE  /\ i <= Unread - pkt_crnt_descs
           /\ \A k \in 0 .. pkt_crnt_descs + i - 1 : ~UnreadDesc(k).last
           /\ \A k \in 1 .. pkt_crnt_descs + i - 1 : ~UnreadDesc(k).first
           /\ IsNew(i) =>
                 /\ i < Unread - pkt_crnt_descs
                 /\ Trimmed(i) <=> /\ pkt_crnt_descs + i > 0
                                   /\ UnreadDesc(pkt_crnt_descs + i).first
                 /\ ~Trimmed(i) => UnreadDesc(pkt_crnt_descs + i).last
                 /\ Trimmed(i) => DropMode
           /\ ~IsNew(i) => i = Unread - pkt_crnt_descs
  <1>1. /\ TypeOK /\ RingAccounted /\ RingIdsWritten /\ ScanInStep /\ PacketsUnread
        /\ DropMode \/ PacketsEnd
    BY DEF IInv, ScanOK
  <1>2. /\ Unread \in 0 .. Size - 1 /\ pkt_crnt_descs \in Nat /\ pkt_crnt_descs <= Unread
        /\ Unread + got < Size
    BY <1>1, UnreadEnds DEF TypeOK, RingAccounted, ScanInStep
  <1>3. \A j \in Idx : IsNew(j) <=> j < Unread - pkt_crnt_descs
    BY <1>1, NewIsUnread
  <1>4. ASSUME NEW j \in Idx, j < Unread - pkt_crnt_descs
        PROVE  cring[Ahead(j)] = UnreadDesc(pkt_crnt_descs + j)
    BY <1>1, <1>2, <1>4, ScanDistance DEF Idx
  <1>5. ASSUME NEW j \in 0 .. i - 1
        PROVE  j \in Idx /\ IsNew(j) /\ ~Trimmed(j) /\ ~cring[Ahead(j)].last
    BY DEF StopAt, Stops, Idx
  <1>6. i <= Unread - pkt_crnt_descs
    <2>1. ASSUME i > Unread - pkt_crnt_descs PROVE FALSE
      <3>1. Unread - pkt_crnt_descs \in 0 .. i - 1
        BY <1>2, <2>1
      <3> QED BY <3>1, <1>3, <1>5, <1>2
    <2> QED BY <2>1, <1>2
  <1>7. ASSUME NEW j \in 0 .. i - 1
        PROVE  /\ ~UnreadDesc(pkt_crnt_descs + j).last
               /\ pkt_crnt_descs + j > 0 => ~UnreadDesc(pkt_crnt_descs + j).first
    <2>1. j \in Idx /\ ~Trimmed(j) /\ ~cring[Ahead(j)].last
      BY <1>5
    <2>2. j < Unread - pkt_crnt_descs
      BY <1>2, <1>6
    <2>3. cring[Ahead(j)] = UnreadDesc(pkt_crnt_descs + j)
      BY <1>4, <2>1, <2>2
    <2> QED BY <2>1, <2>3 DEF Trimmed
  <1>8. ASSUME NEW k \in 0 .. pkt_crnt_descs + i - 1
        PROVE  ~UnreadDesc(k).last /\ (k > 0 => ~UnreadDesc(k).first)
    <2>1. CASE k < pkt_crnt_descs
      BY <2>1, <1>1, <1>2 DEF PacketsUnread
    <2>2. CASE k >= pkt_crnt_descs
      <3>1. PICK j \in 0 .. i - 1 : k = pkt_crnt_descs + j
        <4>1. k - pkt_crnt_descs \in 0 .. i - 1 /\ k = pkt_crnt_descs + (k - pkt_crnt_descs)
          BY <2>2, <1>2
        <4> QED BY <4>1
      <3> QED BY <3>1, <1>7
    <2> QED BY <2>1, <2>2, <1>2
  <1>9. ~IsNew(i) => i = Unread - pkt_crnt_descs
    BY <1>2, <1>3, <1>6 DEF Idx
  <1>10. ASSUME IsNew(i)
         PROVE  /\ i < Unread - pkt_crnt_descs
                /\ Trimmed(i) <=> /\ pkt_crnt_descs + i > 0
                                  /\ UnreadDesc(pkt_crnt_descs + i).first
                /\ ~Trimmed(i) => UnreadDesc(pkt_crnt_descs + i).last
                /\ Trimmed(i) => DropMode
    <2>1. i \in Idx /\ i < Unread - pkt_crnt_descs
      BY <1>3, <1>10 DEF Idx
    <2>2. cring[Ahead(i)] = UnreadDesc(pkt_crnt_descs + i)
      BY <2>1, <1>4
    <2>3. Trimmed(i) <=> pkt_crnt_descs + i > 0 /\ UnreadDesc(pkt_crnt_descs + i).first
      BY <2>2 DEF Trimmed
    <2>4. ~Trimmed(i) => UnreadDesc(pkt_crnt_descs + i).last
      BY <2>2, <1>10 DEF StopAt, Stops
    <2>5. ASSUME Trimmed(i), ~DropMode PROVE FALSE
      <3>1. PICK k \in Nat : k = pkt_crnt_descs + i
        BY <1>2
      <3>2. k > 0 /\ UnreadDesc(k).first /\ k \in 1 .. Unread - 1 /\ k - 1 \in 0 .. k - 1
        BY <2>1, <2>3, <2>5, <3>1, <1>2
      <3>3. UnreadDesc(k - 1).last
        BY <3>2, <2>5, <1>1 DEF PacketsEnd
      <3>4. k - 1 \in 0 .. pkt_crnt_descs + i - 1
        <4>1. k - 1 \in 0 .. k - 1
          BY <3>2
        <4>2. pkt_crnt_descs \in Int /\ i \in Int
          BY <1>2
        <4> QED BY <3>1, <4>1, <4>2
      <3> QED BY <3>3, <3>4, <1>8
    <2> QED BY <2>1, <2>3, <2>4, <2>5
  <1>11. ASSUME NEW k \in 1 .. pkt_crnt_descs + i - 1
         PROVE  ~UnreadDesc(k).first
    <2>1. k \in 0 .. pkt_crnt_descs + i - 1 /\ k > 0
      OBVIOUS
    <2> QED BY <2>1, <1>8
  <1> QED BY <1>6, <1>8, <1>9, <1>10, <1>11

(* The ring id the scan has reached i places ahead is that of the lap. *)
LEMMA LapAhead ==
    ASSUME TypeOK, RingAccounted, ScanInStep, NEW i \in Idx, i <= Unread - pkt_crnt_descs
    PROVE  /\ Ahead(i) \in Idx
           /\ Ahead(i) = Mask(next_cdesc_idx + got + (pkt_crnt_descs + i))
           /\ RingIdAhead(i) = IF Ahead(i) <= crhp THEN hw_ring_id ELSE PrevRingId(hw_ring_id)
  <1>1. /\ Unread \in Nat /\ pkt_crnt_descs \in Nat /\ got \in Nat /\ i \in Nat
        /\ next_cdesc_idx \in Idx /\ crhp \in Idx /\ comp_head_ptr \in Idx
        /\ hw_ring_id \in RingId /\ got + Unread < Size
    BY UnreadEnds, SMTT(40) DEF TypeOK, RingAccounted, Idx
  <1>2. /\ Mask(crhp - comp_head_ptr) = Unread - pkt_crnt_descs
        /\ Ahead(i) \in Idx
        /\ Ahead(i) = IF comp_head_ptr + i < Size
                      THEN comp_head_ptr + i ELSE comp_head_ptr + i - Size
    BY ScanDistance
  <1>3. Ahead(i) = Mask(next_cdesc_idx + got + (pkt_crnt_descs + i))
    <2> DEFINE d == got + pkt_crnt_descs
    <2>1. /\ d \in Nat /\ d + i < Size
          /\ next_cdesc_idx + got + pkt_crnt_descs = next_cdesc_idx + d
          /\ next_cdesc_idx + got + (pkt_crnt_descs + i) = next_cdesc_idx + d + i
      BY <1>1 DEF Idx
    <2>2. comp_head_ptr = Mask(next_cdesc_idx + d)
      BY <2>1 DEF ScanInStep
    <2> HIDE DEF d
    <2>3. Mask(Mask(next_cdesc_idx + d) + i) = Mask(next_cdesc_idx + d + i)
      BY <1>1, <2>1, MaskMask
    <2> QED BY <2>1, <2>2, <2>3 DEF Ahead
  <1> DEFINE x == crhp - comp_head_ptr
  <1>4. x \in Int /\ -Size <= x /\ x < Size /\ Mask(x) = Unread - pkt_crnt_descs
    BY <1>1, <1>2 DEF Idx
  <1>5. CASE comp_head_ptr <= crhp
    <2>1. i <= crhp - comp_head_ptr /\ comp_ring_id = hw_ring_id
      BY <1>1, <1>4, <1>5, MaskLaps DEF ScanInStep, Idx
    <2> QED BY <1>1, <1>2, <1>3, <1>5, <2>1 DEF RingIdAhead, Idx
  <1>6. CASE comp_head_ptr > crhp
    <2>1. i <= crhp - comp_head_ptr + Size /\ comp_ring_id = PrevRingId(hw_ring_id)
      BY <1>1, <1>4, <1>6, MaskLaps DEF ScanInStep, Idx
    <2> QED BY <1>1, <1>2, <1>3, <1>6, <2>1, RingIds DEF RingIdAhead, Idx
  <1> QED BY <1>1, <1>5, <1>6 DEF Idx

(* Taking the first g of the unread completions *)
LEMMA TakenFrom ==
    ASSUME TypeOK, RingAccounted, got = 0, NEW g \in Nat, g <= Unread, got' = g,
           next_cdesc_idx' = next_cdesc_idx, crhp' = crhp
    PROVE  Unread - g \in Nat /\ Unread' = Unread - g
  <1>1. Unread \in Nat /\ Unread < Size /\ next_cdesc_idx \in Idx /\ crhp \in Idx
    BY UnreadEnds DEF TypeOK
  <1>2. crhp = Mask(next_cdesc_idx + Unread)
    BY <1>1, UnreadEndsAt DEF Idx
  <1>3. Unread - g \in Nat /\ g + (Unread - g) < Size
    BY <1>1
  <1>4. Mask(Mask(next_cdesc_idx + g + (Unread - g)) - Mask(next_cdesc_idx + g)) = Unread - g
    BY <1>1, <1>3, RingDistance
  <1>5. next_cdesc_idx + g + (Unread - g) = next_cdesc_idx + Unread
    BY <1>1 DEF Idx
  <1>6. Mask(crhp - Mask(next_cdesc_idx + g)) = Unread - g
    BY <1>2, <1>4, <1>5
  <1> QED BY <1>3, <1>6 DEF Unread, Mask

(* What is unread behind a packet that was taken is made of packets too. *)
LEMMA TakenLeaves ==
    ASSUME PacketsUnread, Unread \in Nat, NEW h \in Nat, h > 0,
           Unread - h \in Nat, Unread' = Unread - h, hw_len' = hw_len, pkt_crnt_descs' = 0,
           \A k \in Nat : h + k < Unread => UnreadDesc(k)' = UnreadDesc(h + k),
           h < Unread => UnreadDesc(h).first,
           h = Unread => hw_len = 0
    PROVE  PacketsUnread' /\ (PacketsEnd => PacketsEnd')
  <1> PICK v \in Nat : v = Unread - h
    OBVIOUS
  <1>1. Unread' = v /\ Unread = h + v
    OBVIOUS
  <1>2. v = 0 => hw_len' = 0
    BY <1>1
  <1>3. ASSUME v > 0
        PROVE  /\ v - 1 \in Nat /\ Unread > 0 /\ UnreadDesc(v - 1)' = UnreadDesc(Unread - 1)
               /\ UnreadDesc(0)'.first
    <2>1. v - 1 \in Nat /\ 0 \in Nat /\ h + (v - 1) = Unread - 1 /\ Unread > 0
          /\ h + (v - 1) < Unread /\ h + 0 < Unread /\ h + 0 = h
      BY <1>1, <1>3
    <2>2. UnreadDesc(v - 1)' = UnreadDesc(h + (v - 1)) /\ UnreadDesc(0)' = UnreadDesc(h + 0)
      BY <2>1
    <2> QED BY <2>1, <2>2
  <1>4. ASSUME NEW k \in 1 .. v - 1
        PROVE  /\ UnreadDesc(k)' = UnreadDesc(h + k)
               /\ UnreadDesc(k - 1)' = UnreadDesc(h + k - 1)
               /\ h + k \in 1 .. Unread - 1
    <2>1. /\ k \in Nat /\ k - 1 \in Nat /\ h + (k - 1) = h + k - 1
          /\ h + k < Unread /\ h + (k - 1) < Unread
      BY <1>1
    <2>2. UnreadDesc(k)' = UnreadDesc(h + k) /\ UnreadDesc(k - 1)' = UnreadDesc(h + (k - 1))
      BY <2>1
    <2> QED BY <2>1, <2>2, <1>1
  <1>5. \A k \in 1 .. v - 1 : UnreadDesc(k - 1)'.last => UnreadDesc(k)'.first
    BY <1>4 DEF PacketsUnread
  <1>6. v > 0 => (UnreadDesc(v - 1)'.last => hw_len' = 0)
    BY <1>3 DEF PacketsUnread
  <1>7. PacketsUnread'
    BY <1>1, <1>2, <1>3, <1>5, <1>6 DEF PacketsUnread, UnreadDesc, Mask
  <1>8. ASSUME PacketsEnd PROVE PacketsEnd'
    <2>1. \A k \in 1 .. v - 1 : UnreadDesc(k)'.first => UnreadDesc(k - 1)'.last
      BY <1>4, <1>8 DEF PacketsEnd
    <2>2. v > 0 /\ hw_len' = 0 => UnreadDesc(v - 1)'.last
      BY <1>3, <1>8 DEF PacketsEnd
    <2> QED BY <1>1, <2>1, <2>2 DEF PacketsEnd, UnreadDesc, Mask
  <1> QED BY <1>7, <1>8

(* What al_udma_cdesc_packet_get returns is the packet at the head of the  *)
(* unread completions.                                                     *)
LEMMA WholeTakes ==
    ASSUME IInv, ~HeadReg, ScanInStep, got = 0, NEW i \in 0 .. Size - 1, StopAt(i),
           PacketWhole(i),
           UNCHANGED <<next_desc_idx, desc_ring_id, next_cdesc_idx, drain, todo, prepared,
                       hwvars, desc>>
    PROVE  LET g == pkt_crnt_descs + i + 1
           IN  /\ g \in Nat /\ g > 0 /\ g <= Unread /\ Unread - g \in Nat
               /\ got' = g /\ Unread' = Unread - g /\ cring' = cring
               /\ UnreadDesc(g - 1).last
               /\ \A k \in 0 .. g - 2 : ~UnreadDesc(k).last
               /\ \A k \in 1 .. g - 1 : ~UnreadDesc(k).first
  <1> DEFINE g == pkt_crnt_descs + i + 1
  <1>1. IsNew(i) /\ ~Trimmed(i) /\ got' = g /\ cring' = cring
    BY DEF PacketWhole
  <1>2. /\ i < Unread - pkt_crnt_descs /\ UnreadDesc(pkt_crnt_descs + i).last
        /\ pkt_crnt_descs + i > 0 => ~UnreadDesc(pkt_crnt_descs + i).first
        /\ \A k \in 0 .. pkt_crnt_descs + i - 1 : ~UnreadDesc(k).last
        /\ \A k \in 1 .. pkt_crnt_descs + i - 1 : ~UnreadDesc(k).first
    BY <1>1, ScanStops
  <1>3. Unread \in Nat /\ pkt_crnt_descs \in Nat /\ i \in Nat
    BY UnreadEnds DEF IInv, TypeOK
  <1>4. g \in Nat /\ g <= Unread /\ g > 0 /\ g - 1 = pkt_crnt_descs + i
    BY <1>2, <1>3
  <1> HIDE DEF g
  <1>5. Unread - g \in Nat /\ Unread' = Unread - g
    BY <1>1, <1>4, TakenFrom DEF IInv, hwvars
  <1>6. \A k \in 0 .. g - 2 : ~UnreadDesc(k).last
    BY <1>2, <1>3, <1>4
  <1>7. \A k \in 1 .. g - 1 : ~UnreadDesc(k).first
    BY <1>2, <1>3, <1>4
  <1> QED BY <1>1, <1>2, <1>4, <1>5, <1>6, <1>7 DEF g

(* al_udma_cdesc_packet_get returns a whole packet, ... *)
LEMMA PacketWholeKeeps ==
    ASSUME IInv, ~HeadReg, ScanInStep, got = 0, NEW i \in 0 .. Size - 1, StopAt(i),
           PacketWhole(i),
           UNCHANGED <<next_desc_idx, desc_ring_id, next_cdesc_idx, drain, todo, prepared,
                       hwvars, desc>>
    PROVE  IInv'
  <1> DEFINE g == pkt_crnt_descs + i + 1
  <1>1. /\ IsNew(i) /\ ~Trimmed(i) /\ got' = g /\ pkt_crnt_descs' = 0
        /\ comp_head_ptr' = NextPtr(Ahead(i))
        /\ comp_ring_id' = NextUpdate(Ahead(i), RingIdAhead(i))
        /\ cring' = cring
    BY DEF PacketWhole
  <1>2. /\ TypeOK /\ RingAccounted /\ RingIdsWritten /\ ScanInStep /\ PacketsUnread
        /\ DropMode \/ PacketsEnd
    BY DEF IInv, ScanOK
  <1>3. /\ i < Unread - pkt_crnt_descs /\ UnreadDesc(pkt_crnt_descs + i).last
        /\ i \in Idx
    BY <1>1, ScanStops DEF Idx
  <1>4. /\ Unread \in Nat /\ Unread < Size /\ pkt_crnt_descs \in Nat
        /\ next_cdesc_idx \in Idx /\ posted \in Nat /\ prepared \in Nat /\ todo \in Nat
        /\ crhp \in Idx /\ comp_head_ptr \in Idx /\ hw_ring_id \in RingId
        /\ comp_ring_id \in RingId
    BY <1>2, UnreadEnds DEF TypeOK
  <1>5. g \in Nat /\ g <= Unread /\ g > 0 /\ Unread - g \in Nat
    BY WholeTakes
  <1>7. Unread' = Unread - g
    BY WholeTakes
  <1> HIDE DEF g
  <1>8. RingAccounted'
    <2>1. next_cdesc_idx' + got' + Unread' + posted' + prepared'
             = next_cdesc_idx + got + Unread + posted + prepared
      BY <1>1, <1>4, <1>5, <1>7 DEF Idx, hwvars
    <2>2. todo' + prepared' + posted' + Unread' + got' <= Size - Reserve
      BY <1>1, <1>2, <1>4, <1>5, <1>7 DEF RingAccounted, hwvars
    <2> QED BY <1>2, <2>1, <2>2 DEF RingAccounted, Mask
  <1>9. /\ Ahead(i) \in Idx
        /\ Ahead(i) = IF comp_head_ptr + i < Size
                      THEN comp_head_ptr + i ELSE comp_head_ptr + i - Size
        /\ Ahead(i) = Mask(next_cdesc_idx + (pkt_crnt_descs + i))
    <2>1. /\ Ahead(i) \in Idx
          /\ Ahead(i) = IF comp_head_ptr + i < Size
                        THEN comp_head_ptr + i ELSE comp_head_ptr + i - Size
      BY <1>2, <1>3, ScanDistance
    <2>2. Mask(Mask(next_cdesc_idx + pkt_crnt_descs) + i) = Mask(next_cdesc_idx + pkt_crnt_descs + i)
      <3>1. pkt_crnt_descs + i < Size /\ i \in Nat
        BY <1>3, <1>4 DEF Idx
      <3> QED BY <3>1, <1>4, MaskMask
    <2>3. /\ next_cdesc_idx + got + pkt_crnt_descs = next_cdesc_idx + pkt_crnt_descs
          /\ next_cdesc_idx + pkt_crnt_descs + i = next_cdesc_idx + (pkt_crnt_descs + i)
      BY <1>3, <1>4 DEF Idx
    <2> QED BY <2>1, <2>2, <2>3, <1>2 DEF ScanInStep, Ahead
  <1>10. /\ comp_head_ptr' \in Idx
         /\ comp_head_ptr' = Mask(next_cdesc_idx + g)
    <2>1. comp_head_ptr' \in Idx /\ comp_head_ptr' = Mask(Ahead(i) + 1)
      BY <1>1, <1>9, NextPtrIsMask
    <2>2. Mask(Mask(next_cdesc_idx + (pkt_crnt_descs + i)) + 1)
             = Mask(next_cdesc_idx + (pkt_crnt_descs + i) + 1)
      <3>1. pkt_crnt_descs + i \in Nat /\ 1 \in Nat /\ (pkt_crnt_descs + i) + 1 < Size
        BY <1>3, <1>4 DEF Idx
      <3> QED BY <3>1, <1>4, MaskMask
    <2>3. next_cdesc_idx + (pkt_crnt_descs + i) + 1 = next_cdesc_idx + g
      BY <1>3, <1>4 DEF g, Idx
    <2> QED BY <2>1, <2>2, <2>3, <1>9
  <1>11. comp_ring_id' = IF comp_head_ptr' <= crhp THEN hw_ring_id
                                                  ELSE PrevRingId(hw_ring_id)
    <2> DEFINE x == crhp - comp_head_ptr
    <2>1. Mask(x) = Unread - pkt_crnt_descs /\ x \in Int
      BY <1>2, <1>4, ScanDistance DEF Idx
    <2>2. CASE comp_head_ptr <= crhp
      <3>1. comp_ring_id = hw_ring_id /\ i < crhp - comp_head_ptr
        BY <1>2, <1>3, <1>4, <2>1, <2>2, MaskLaps DEF ScanInStep, Idx
      <3>2. Ahead(i) = comp_head_ptr + i /\ Ahead(i) # Size - 1 /\ RingIdAhead(i) = comp_ring_id
        BY <1>3, <1>4, <1>9, <3>1 DEF RingIdAhead, Idx
      <3>3. comp_head_ptr' = comp_head_ptr + i + 1
        BY <1>1, <3>2 DEF NextPtr
      <3> QED BY <1>1, <1>3, <1>4, <3>1, <3>2, <3>3 DEF NextUpdate, Idx
    <2>3. CASE comp_head_ptr > crhp
      <3>1. comp_ring_id = PrevRingId(hw_ring_id) /\ i < crhp - comp_head_ptr + Size
        BY <1>2, <1>3, <1>4, <2>1, <2>3, MaskLaps DEF ScanInStep, Idx
      <3>2. CASE comp_head_ptr + i < Size - 1
        <4>1. Ahead(i) = comp_head_ptr + i /\ RingIdAhead(i) = comp_ring_id
          BY <1>3, <1>4, <1>9, <3>2 DEF RingIdAhead, Idx
        <4>2. comp_head_ptr' = comp_head_ptr + i + 1 /\ comp_ring_id' = PrevRingId(hw_ring_id)
          BY <1>1, <1>3, <1>4, <3>1, <3>2, <4>1 DEF NextPtr, NextUpdate, Idx
        <4> QED BY <4>2, <2>3, <1>3, <1>4 DEF Idx
      <3>3. CASE comp_head_ptr + i = Size - 1
        <4>1. Ahead(i) = Size - 1 /\ RingIdAhead(i) = comp_ring_id
          BY <1>3, <1>4, <1>9, <3>3 DEF RingIdAhead, Idx
        <4>2. comp_head_ptr' = 0 /\ comp_ring_id' = NextRingId(PrevRingId(hw_ring_id))
          BY <1>1, <3>1, <4>1 DEF NextPtr, NextUpdate
        <4> QED BY <4>2, <1>4, RingIds DEF Idx
      <3>4. CASE comp_head_ptr + i >= Size
        <4>1. Ahead(i) = comp_head_ptr + i - Size /\ Ahead(i) < crhp
              /\ RingIdAhead(i) = NextRingId(PrevRingId(hw_ring_id))
          BY <1>3, <1>4, <1>9, <3>1, <3>4 DEF RingIdAhead, Idx
        <4>2. comp_head_ptr' = Ahead(i) + 1 /\ comp_ring_id' = hw_ring_id
          BY <1>1, <1>4, <1>9, <4>1, RingIds DEF NextPtr, NextUpdate, Idx
        <4> QED BY <4>1, <4>2, <1>4, <1>9 DEF Idx
      <3> QED BY <3>2, <3>3, <3>4, <1>3, <1>4 DEF Idx
    <2> QED BY <2>2, <2>3, <1>4 DEF Idx
  <1>12. ScanInStep'
    <2>1. Mask(next_cdesc_idx' + got' + pkt_crnt_descs') = comp_head_ptr'
      <3>1. next_cdesc_idx' + got' + pkt_crnt_descs' = next_cdesc_idx + g
        BY <1>1, <1>4, <1>5 DEF Idx
      <3> QED BY <3>1, <1>10
    <2>2. pkt_crnt_descs' <= Unread'
      BY <1>1, <1>5, <1>7
    <2> QED BY <2>1, <2>2, <1>11 DEF ScanInStep, hwvars, Mask, PrevRingId
  <1>13. TypeOK'
    <2>1. got' \in 0 .. Size
      BY <1>1, <1>4, <1>5
    <2>2. comp_ring_id' \in RingId
      BY <1>11, <1>4, RingIds
    <2> QED BY <1>1, <1>2, <1>10, <2>1, <2>2 DEF TypeOK, hwvars
  <1>14. RingIdsWritten'
    BY <1>1, <1>2 DEF RingIdsWritten, hwvars
  <1>15. PacketsUnread' /\ (PacketsEnd => PacketsEnd')
    <2> PICK h \in Nat : h = g
      BY <1>5
    <2>1. ASSUME NEW k \in Nat
          PROVE  UnreadDesc(k)' = UnreadDesc(h + k)
      <3>1. next_cdesc_idx' + got' + k = next_cdesc_idx + got + (h + k)
        BY <1>1, <1>4 DEF Idx
      <3> QED BY <3>1, <1>1 DEF UnreadDesc, Mask
    <2>2. h > 0 /\ Unread - h \in Nat /\ Unread' = Unread - h /\ hw_len' = hw_len
      BY <1>5, <1>7 DEF hwvars
    <2>3. UnreadDesc(h - 1).last
      <3>1. h - 1 = pkt_crnt_descs + i
        BY <1>4 DEF g
      <3> QED BY <3>1, <1>3
    <2>4. ASSUME h < Unread PROVE UnreadDesc(h).first
      <3>1. h \in 1 .. Unread - 1
        BY <2>2, <2>4, <1>4
      <3> QED BY <3>1, <2>3, <1>2 DEF PacketsUnread
    <2>5. h = Unread => hw_len = 0
      BY <2>2, <2>3, <1>2, <1>4 DEF PacketsUnread
    <2> QED BY <1>1, <1>2, <1>4, <2>1, <2>2, <2>4, <2>5, TakenLeaves
  <1>16. DropMode' = DropMode
    BY DEF DropMode
  <1> QED BY <1>2, <1>8, <1>12, <1>13, <1>14, <1>15, <1>16 DEF IInv, ScanOK

(* ... or finds one that is not complete. *)
LEMMA PacketPartialKeeps ==
    ASSUME IInv, ~HeadReg, ScanInStep, got = 0, NEW i \in 0 .. Size - 1, StopAt(i),
           PacketPartial(i),
           UNCHANGED <<next_desc_idx, desc_ring_id, next_cdesc_idx, drain, todo, prepared,
                       hwvars, desc>>
    PROVE  IInv'
  <1>1. /\ ~IsNew(i) /\ got' = 0 /\ pkt_crnt_descs' = pkt_crnt_descs + i
        /\ comp_head_ptr' = Ahead(i)
        /\ comp_ring_id' = RingIdAhead(i)
        /\ cring' = cring
    BY DEF PacketPartial
  <1>2. /\ TypeOK /\ RingAccounted /\ RingIdsWritten /\ ScanInStep /\ PacketsUnread
        /\ DropMode \/ PacketsEnd
    BY DEF IInv, ScanOK
  <1>3. /\ Unread \in Nat /\ Unread < Size /\ pkt_crnt_descs \in Nat
        /\ next_cdesc_idx \in Idx /\ crhp \in Idx /\ comp_head_ptr \in Idx
        /\ hw_ring_id \in RingId /\ i \in Idx
    BY <1>2, UnreadEnds DEF TypeOK, Idx
  <1>4. i = Unread - pkt_crnt_descs /\ pkt_crnt_descs + i = Unread
    BY <1>1, <1>3, ScanStops
  <1>5. Unread' = Unread
    BY <1>1 DEF Unread, hwvars, Mask
  <1>6. Ahead(i) \in Idx /\ Ahead(i) = crhp
    <2>1. /\ Ahead(i) \in Idx
          /\ Ahead(i) = IF comp_head_ptr + i < Size
                        THEN comp_head_ptr + i ELSE comp_head_ptr + i - Size
          /\ Mask(crhp - comp_head_ptr) = i
      BY <1>2, <1>3, <1>4, ScanDistance
    <2> DEFINE x == crhp - comp_head_ptr
    <2>2. x \in Int /\ -Size <= x /\ x < Size /\ Mask(x) = i
      BY <1>3, <2>1 DEF Idx
    <2> HIDE DEF x
    <2>3. i = x \/ i = x + Size
      BY <2>2, MaskLaps
    <2> QED BY <1>3, <2>1, <2>3 DEF x, Idx
  <1>7. comp_ring_id' = hw_ring_id
    <2>1. CASE comp_head_ptr <= crhp
      <3>1. comp_head_ptr + i < Size
        BY <1>3, <1>6, <2>1, ScanDistance, <1>2 DEF Idx
      <3> QED BY <1>1, <1>2, <2>1, <3>1, <1>3 DEF RingIdAhead, ScanInStep, Idx
    <2>2. CASE comp_head_ptr > crhp
      <3>1. comp_head_ptr + i >= Size
        BY <1>3, <1>6, <2>2, ScanDistance, <1>2 DEF Idx
      <3>2. comp_ring_id = PrevRingId(hw_ring_id)
        BY <1>2, <1>3, <2>2 DEF ScanInStep, Idx
      <3> QED BY <1>1, <1>3, <3>1, <3>2, RingIds DEF RingIdAhead, Idx
    <2> QED BY <2>1, <2>2, <1>3 DEF Idx
  <1>8. ScanInStep'
    <2>1. next_cdesc_idx' + got' + pkt_crnt_descs' = next_cdesc_idx + got + Unread
      BY <1>1, <1>3, <1>4 DEF Idx
    <2>2. crhp = Mask(next_cdesc_idx + got + Unread)
      BY <1>2, UnreadEndsAt
    <2> QED BY <1>1, <1>3, <1>4, <1>5, <1>6, <1>7, <2>1, <2>2 DEF ScanInStep, hwvars, Mask, Idx
  <1>9. TypeOK'
    BY <1>1, <1>2, <1>3, <1>4, <1>6, <1>7 DEF TypeOK, hwvars
  <1>10. RingAccounted'
    BY <1>1, <1>2, <1>5 DEF RingAccounted, hwvars, Mask
  <1>11. RingIdsWritten'
    BY <1>1, <1>2 DEF RingIdsWritten, hwvars
  <1>12. PacketsUnread'
    <2>1. /\ \A k \in 0 .. pkt_crnt_descs + i - 1 : ~UnreadDesc(k).last
          /\ \A k \in 1 .. pkt_crnt_descs + i - 1 : ~UnreadDesc(k).first
      BY ScanStops
    <2>2. ASSUME NEW k \in Int PROVE UnreadDesc(k)' = UnreadDesc(k)
      BY <1>1 DEF UnreadDesc, Mask
    <2>3. /\ \A k \in 0 .. pkt_crnt_descs' - 1 : ~UnreadDesc(k)'.last
          /\ \A k \in 1 .. pkt_crnt_descs' - 1 : ~UnreadDesc(k)'.first
      <3>1. PICK n \in Nat : n = pkt_crnt_descs + i
        BY <1>3 DEF Idx
      <3>2. /\ \A k \in 0 .. n - 1 : ~UnreadDesc(k).last
            /\ \A k \in 1 .. n - 1 : ~UnreadDesc(k).first
        <4>1. pkt_crnt_descs + i - 1 = n - 1
          BY <1>3, <3>1 DEF Idx
        <4> QED BY <2>1, <4>1, Zenon
      <3>3. /\ \A k \in 0 .. n - 1 : k \in Int
            /\ \A k \in 1 .. n - 1 : k \in Int
        OBVIOUS
      <3>4. \A k \in 0 .. n - 1 : ~UnreadDesc(k)'.last
        BY <2>2, <3>2, <3>3, Zenon
      <3>5. \A k \in 1 .. n - 1 : ~UnreadDesc(k)'.first
        BY <2>2, <3>2, <3>3, Zenon
      <3>6. pkt_crnt_descs' = n
        BY <1>1, <3>1
      <3> QED BY <3>4, <3>5, <3>6, Zenon
    <2>4. /\ Unread' = 0 => hw_len' = 0
          /\ Unread' > 0 => (UnreadDesc(Unread - 1)'.last => hw_len' = 0)
          /\ Unread' > 0 => UnreadDesc(0)'.first
          /\ \A k \in 1 .. Unread' - 1 : UnreadDesc(k - 1)'.last => UnreadDesc(k)'.first
      BY <1>1, <1>2, <1>5 DEF PacketsUnread, UnreadDesc, hwvars, Mask
    <2> QED BY <2>3, <2>4 DEF PacketsUnread
  <1>13. PacketsEnd => PacketsEnd'
    BY <1>1, <1>5 DEF PacketsEnd, UnreadDesc, hwvars, Mask
  <1>14. DropMode' = DropMode
    BY DEF DropMode
  <1> QED BY <1>2, <1>8, <1>9, <1>10, <1>11, <1>12, <1>13, <1>14 DEF IInv, ScanOK

(* ... or one that the device has cut short. *)
LEMMA TrimmedTakes ==
    ASSUME IInv, ~HeadReg, ScanInStep, got = 0, NEW i \in 0 .. Size - 1, StopAt(i),
           PacketTrimmed(i),
           UNCHANGED <<next_desc_idx, desc_ring_id, next_cdesc_idx, drain, todo, prepared,
                       hwvars, desc>>
    PROVE  LET g == pkt_crnt_descs + i
           IN  /\ g \in Nat /\ g > 0 /\ g < Unread /\ Unread - g \in Nat
               /\ got' = g /\ Unread' = Unread - g
               /\ UnreadDesc(g).first
               /\ \A k \in Idx : k # g - 1 =>
                     cring'[Mask(next_cdesc_idx + k)] = cring[Mask(next_cdesc_idx + k)]
               /\ cring'[Mask(next_cdesc_idx + (g - 1))].last
               /\ \A s \in Idx : /\ cring'[s] \in CDesc
                                 /\ cring'[s].ring_id = cring[s].ring_id
                                 /\ cring'[s].first = cring[s].first
               /\ cring' \in [Idx -> CDesc]
               /\ \A k \in 0 .. g - 1 : ~UnreadDesc(k).last
               /\ \A k \in 1 .. g - 1 : ~UnreadDesc(k).first
  <1> DEFINE g == pkt_crnt_descs + i
             s == Mask(next_cdesc_idx + g - 1)
  <1>1. /\ IsNew(i) /\ Trimmed(i) /\ got' = g
        /\ cring' = [cring EXCEPT ![s].err = TRUE, ![s].last = TRUE]
    BY DEF PacketTrimmed
  <1>2. /\ i < Unread - pkt_crnt_descs /\ g > 0 /\ UnreadDesc(g).first
        /\ \A k \in 0 .. g - 1 : ~UnreadDesc(k).last
        /\ \A k \in 1 .. g - 1 : ~UnreadDesc(k).first
    <2>1. /\ i < Unread - pkt_crnt_descs
          /\ pkt_crnt_descs + i > 0 /\ UnreadDesc(pkt_crnt_descs + i).first
      BY <1>1, ScanStops
    <2>2. /\ \A k \in 0 .. pkt_crnt_descs + i - 1 : ~UnreadDesc(k).last
          /\ \A k \in 1 .. pkt_crnt_descs + i - 1 : ~UnreadDesc(k).first
      BY ScanStops
    <2>3. pkt_crnt_descs + i - 1 = g - 1
      <3>1. pkt_crnt_descs \in Int /\ i \in Int
        BY DEF IInv, TypeOK
      <3> QED BY <3>1
    <2> QED BY <2>1, <2>2, <2>3, Zenon
  <1>3. /\ Unread \in Nat /\ Unread < Size /\ pkt_crnt_descs \in Nat /\ i \in Nat
        /\ next_cdesc_idx \in Idx /\ cring \in [Idx -> CDesc]
    BY UnreadEnds DEF IInv, TypeOK
  <1>4. g \in Nat /\ g < Unread /\ g <= Unread /\ g - 1 \in Idx
    BY <1>2, <1>3 DEF Idx
  <1> HIDE DEF g
  <1>5. Unread - g \in Nat /\ Unread' = Unread - g
    BY <1>1, <1>4, TakenFrom DEF IInv, hwvars
  <1>6. s \in Idx /\ s = Mask(next_cdesc_idx + (g - 1))
    <2>1. next_cdesc_idx + g - 1 \in Int /\ next_cdesc_idx + g - 1 = next_cdesc_idx + (g - 1)
      BY <1>3, <1>4 DEF Idx
    <2> QED BY <2>1, MaskLaps
  <1> HIDE DEF s
  <1>7. /\ \A r \in Idx : r # s => cring'[r] = cring[r]
        /\ cring'[s] = [cring[s] EXCEPT !.err = TRUE, !.last = TRUE]
        /\ cring[s] \in CDesc
    BY <1>1, <1>3, <1>6
  <1>8. /\ cring'[s] \in CDesc /\ cring'[s].ring_id = cring[s].ring_id
        /\ cring'[s].first = cring[s].first /\ cring'[s].last
    BY <1>7 DEF CDesc
  <1>9. cring' \in [Idx -> CDesc]
    <2>1. DOMAIN cring' = Idx /\ cring' = [r \in Idx |-> cring'[r]]
      BY <1>1, <1>3
    <2> QED BY <2>1, <1>3, <1>7, <1>8
  <1>10. ASSUME NEW k \in Idx, k # g - 1
         PROVE  cring'[Mask(next_cdesc_idx + k)] = cring[Mask(next_cdesc_idx + k)]
    <2>1. Mask(next_cdesc_idx + k) # s
      BY <1>3, <1>4, <1>6, <1>10, SlotsDistinct
    <2>2. Mask(next_cdesc_idx + k) \in Idx
      <3>1. next_cdesc_idx + k \in Int
        BY <1>3 DEF Idx
      <3> QED BY <3>1, MaskLaps
    <2> QED BY <1>7, <2>1, <2>2
  <1>11. \A r \in Idx : /\ cring'[r] \in CDesc
                        /\ cring'[r].ring_id = cring[r].ring_id
                        /\ cring'[r].first = cring[r].first
    BY <1>3, <1>7, <1>8
  <1> QED BY <1>1, <1>2, <1>4, <1>5, <1>6, <1>8, <1>9, <1>10, <1>11 DEF g

(* The scan goes on behind the packet, or has counted the wrap twice. *)
LEMMA TrimmedScan ==
    ASSUME IInv, ~HeadReg, ScanInStep, got = 0, NEW i \in 0 .. Size - 1, StopAt(i),
           PacketTrimmed(i),
           UNCHANGED <<next_desc_idx, desc_ring_id, next_cdesc_idx, drain, todo, prepared,
                       hwvars, desc>>
    PROVE  /\ comp_head_ptr' \in Idx /\ comp_ring_id' \in RingId
           /\ ScanInStep' \/ Stalled'
  <1> DEFINE g == pkt_crnt_descs + i
             s == Mask(next_cdesc_idx + g - 1)
  <1>1. /\ IsNew(i) /\ got' = g /\ pkt_crnt_descs' = 0
        /\ comp_head_ptr' = NextPtr(s) /\ comp_ring_id' = NextUpdate(s, RingIdAhead(i))
    BY DEF PacketTrimmed
  <1>2. /\ g \in Nat /\ g > 0 /\ g < Unread /\ Unread - g \in Nat /\ Unread' = Unread - g
    BY TrimmedTakes
  <1>3. /\ Unread \in Nat /\ Unread < Size /\ pkt_crnt_descs \in Nat /\ i \in Idx
        /\ next_cdesc_idx \in Idx /\ crhp \in Idx /\ hw_ring_id \in RingId
    BY UnreadEnds DEF IInv, TypeOK, Idx
  <1>4. i <= Unread - pkt_crnt_descs
    BY ScanStops
  <1>5. /\ Ahead(i) \in Idx /\ Ahead(i) = Mask(next_cdesc_idx + g)
        /\ RingIdAhead(i) = IF Ahead(i) <= crhp THEN hw_ring_id ELSE PrevRingId(hw_ring_id)
    <2>1. next_cdesc_idx + got + (pkt_crnt_descs + i) = next_cdesc_idx + g
      BY <1>3 DEF Idx
    <2> QED BY <1>3, <1>4, <2>1, LapAhead DEF IInv
  <1> HIDE DEF g
  <1>6. s \in Idx /\ NextPtr(s) = Ahead(i)
    <2>1. /\ g - 1 \in Nat /\ (g - 1) + 1 < Size
          /\ next_cdesc_idx + g - 1 = next_cdesc_idx + (g - 1)
          /\ next_cdesc_idx + (g - 1) + 1 = next_cdesc_idx + g
          /\ next_cdesc_idx + g - 1 \in Int
      BY <1>2, <1>3 DEF Idx
    <2>2. s \in Idx
      BY <2>1, MaskLaps
    <2>3. Mask(Mask(next_cdesc_idx + (g - 1)) + 1) = Mask(next_cdesc_idx + (g - 1) + 1)
      <3> PICK h \in Nat : h = g - 1
        BY <2>1
      <3>1. 1 \in Nat /\ h + 1 < Size
        BY <2>1
      <3>2. Mask(Mask(next_cdesc_idx + h) + 1) = Mask(next_cdesc_idx + h + 1)
        BY <1>3, <3>1, MaskMask
      <3> QED BY <3>2
    <2> QED BY <2>1, <2>2, <2>3, <1>5, NextPtrIsMask
  <1> HIDE DEF s
  <1>7. comp_head_ptr' = Ahead(i) /\ comp_head_ptr' \in Idx
    BY <1>1, <1>5, <1>6
  <1>8. /\ Mask(next_cdesc_idx' + got' + pkt_crnt_descs') = Ahead(i)
        /\ Mask(next_cdesc_idx' + got') = Ahead(i)
    <2>1. next_cdesc_idx' + got' + pkt_crnt_descs' = next_cdesc_idx + g
      BY <1>1, <1>2, <1>3 DEF Idx
    <2> QED BY <2>1, <1>1, <1>5
  <1>9. CASE s = Size - 1
    <2>1. Ahead(i) = 0 /\ comp_ring_id' = NextRingId(RingIdAhead(i))
      BY <1>1, <1>6, <1>9 DEF NextPtr, NextUpdate
    <2>2. RingIdAhead(i) = hw_ring_id
      BY <1>3, <1>5, <2>1 DEF Idx
    <2>3. Stalled'
      BY <1>1, <1>7, <1>8, <2>1, <2>2 DEF Stalled, hwvars, Mask, NextRingId
    <2> QED BY <1>3, <1>7, <2>1, <2>2, <2>3, RingIds
  <1>10. CASE s # Size - 1
    <2>1. comp_ring_id' = RingIdAhead(i)
      BY <1>1, <1>10 DEF NextUpdate
    <2>2. ScanInStep'
      BY <1>1, <1>2, <1>5, <1>7, <1>8, <2>1 DEF ScanInStep, hwvars, Mask, PrevRingId
    <2> QED BY <1>3, <1>5, <1>7, <2>1, <2>2, RingIds
  <1> QED BY <1>9, <1>10

(* The completions behind the trimmed packet are untouched. *)
LEMMA PacketTrimmedKeeps ==
    ASSUME IInv, ~HeadReg, ScanInStep, got = 0, NEW i \in 0 .. Size - 1, StopAt(i),
           PacketTrimmed(i),
           UNCHANGED <<next_desc_idx, desc_ring_id, next_cdesc_idx, drain, todo, prepared,
                       hwvars, desc>>
    PROVE  IInv'
  <1>1. /\ TypeOK /\ RingAccounted /\ RingIdsWritten /\ PacketsUnread
        /\ IsNew(i) /\ Trimmed(i) /\ pkt_crnt_descs' = 0
    BY DEF IInv, ScanOK, PacketTrimmed
  <1>2. DropMode
    BY <1>1, ScanStops
  <1>3. PICK g \in Nat : g = pkt_crnt_descs + i
    BY <1>1 DEF TypeOK
  <1>4. /\ g > 0 /\ g < Unread /\ Unread - g \in Nat
        /\ got' = g /\ Unread' = Unread - g
        /\ UnreadDesc(g).first
        /\ \A k \in Idx : k # g - 1 =>
              cring'[Mask(next_cdesc_idx + k)] = cring[Mask(next_cdesc_idx + k)]
        /\ \A s \in Idx : cring'[s].ring_id = cring[s].ring_id
        /\ cring' \in [Idx -> CDesc]
    BY <1>3, TrimmedTakes
  <1>5. comp_head_ptr' \in Idx /\ comp_ring_id' \in RingId /\ (ScanInStep' \/ Stalled')
    BY TrimmedScan
  <1>6. /\ Unread \in Nat /\ Unread < Size /\ next_cdesc_idx \in Idx /\ posted \in Nat
        /\ prepared \in Nat /\ todo \in Nat
    BY <1>1, UnreadEnds DEF TypeOK
  <1>7. TypeOK'
    <2>1. got' \in 0 .. Size
      BY <1>4, <1>6
    <2> QED BY <1>1, <1>4, <1>5, <2>1 DEF TypeOK, hwvars
  <1>8. RingAccounted'
    <2>1. next_cdesc_idx' + got' + Unread' + posted' + prepared'
             = next_cdesc_idx + got + Unread + posted + prepared
      BY <1>4, <1>6 DEF Idx, hwvars
    <2>2. todo' + prepared' + posted' + Unread' + got' <= Size - Reserve
      BY <1>1, <1>4, <1>6 DEF RingAccounted, hwvars
    <2> QED BY <1>1, <2>1, <2>2 DEF RingAccounted, Mask
  <1>9. RingIdsWritten'
    BY <1>1, <1>4 DEF RingIdsWritten, hwvars, PrevRingId
  <1>10. PacketsUnread'
    <2>1. ASSUME NEW k \in Nat, g + k < Unread
          PROVE  UnreadDesc(k)' = UnreadDesc(g + k)
      <3>1. /\ next_cdesc_idx' + got' + k = next_cdesc_idx + (g + k)
            /\ next_cdesc_idx + got + (g + k) = next_cdesc_idx + (g + k)
            /\ g + k \in Idx /\ g + k # g - 1
        BY <1>4, <1>6, <2>1 DEF Idx
      <3> QED BY <3>1, <1>4 DEF UnreadDesc, Mask
    <2>2. hw_len' = hw_len /\ g # Unread
      BY <1>4, <1>6 DEF hwvars
    <2> QED BY <1>1, <1>4, <1>6, <2>1, <2>2, TakenLeaves
  <1>11. DropMode'
    BY <1>2 DEF DropMode
  <1> QED BY <1>5, <1>7, <1>8, <1>9, <1>10, <1>11 DEF IInv, ScanOK

(* A scan that has stalled finds nothing new. *)
LEMMA StalledStays ==
    ASSUME IInv, Stalled, NEW i \in 0 .. Size - 1, StopAt(i)
    PROVE  i = 0 /\ ~IsNew(0)
  <1>1. /\ comp_head_ptr = 0 /\ comp_ring_id = NextRingId(hw_ring_id) /\ hw_ring_id \in RingId
        /\ 0 \in Idx
    BY DEF IInv, TypeOK, Stalled, Idx
  <1>2. Ahead(0) = 0 /\ RingIdAhead(0) = comp_ring_id
    BY <1>1, MaskLaps DEF Ahead, RingIdAhead
  <1>3. cring[0].ring_id \in {hw_ring_id, PrevRingId(hw_ring_id)}
    BY <1>1 DEF IInv, RingIdsWritten
  <1>4. NextRingId(hw_ring_id) # hw_ring_id /\ NextRingId(hw_ring_id) # PrevRingId(hw_ring_id)
    BY <1>1 DEF NextRingId, PrevRingId, RingId
  <1>5. ~IsNew(0)
    BY <1>1, <1>2, <1>3, <1>4 DEF IsNew, al_udma_new_cdesc
  <1> QED BY <1>5 DEF StopAt, Stops

(* The three ways a call of al_udma_cdesc_packet_get ends *)
LEMMA PacketGetEnds ==
    ASSUME IInv, al_udma_cdesc_packet_get
    PROVE  /\ ~HeadReg /\ got = 0 /\ ScanInStep
           /\ \E i \in 0 .. Size - 1 :
                 StopAt(i) /\ (PacketWhole(i) \/ PacketPartial(i) \/ PacketTrimmed(i))
           /\ UNCHANGED <<next_desc_idx, desc_ring_id, next_cdesc_idx, drain, todo, prepared,
                          hwvars, desc>>
  <1>1. ~HeadReg /\ got = 0
        /\ UNCHANGED <<next_desc_idx, desc_ring_id, next_cdesc_idx, drain, todo, prepared,
                       hwvars, desc>>
    BY DEF al_udma_cdesc_packet_get
  <1>2. PICK i \in 0 .. Size - 1 :
           StopAt(i) /\ (PacketWhole(i) \/ PacketPartial(i) \/ PacketTrimmed(i))
    BY DEF al_udma_cdesc_packet_get
  <1>3. ~Stalled
    BY <1>2, StalledStays DEF PacketWhole, PacketPartial, PacketTrimmed
  <1> QED BY <1>1, <1>2, <1>3 DEF IInv, ScanOK

(* al_udma_cdesc_packet_get *)
LEMMA PacketGetKeeps ==
    ASSUME IInv, al_udma_cdesc_packet_get
    PROVE  IInv'
  BY PacketGetEnds, PacketWholeKeeps, PacketPartialKeeps, PacketTrimmedKeeps

(* The device gives up a packet for want of descriptors. *)
LEMMA DropKeeps ==
    ASSUME IInv, HwDrop
    PROVE  IInv'
  <1>1. /\ DropMode /\ hw_len > 0 /\ hw_len' = 0
        /\ UNCHANGED <<swvars, clvars, posted, crhp, hw_ring_id, desc, cring>>
    BY DEF HwDrop
  <1>2. TypeOK'
    BY <1>1 DEF IInv, TypeOK, swvars, clvars
  <1>3. Unread' = Unread /\ RingAccounted' /\ RingIdsWritten' /\ HeadReg' = HeadReg
    BY <1>1 DEF IInv, Unread, RingAccounted, RingIdsWritten, HeadReg, swvars, clvars, Mask,
                PrevRingId
  <1>4. ASSUME ~HeadReg PROVE ScanOK'
    BY <1>1, <1>3, <1>4 DEF IInv, ScanOK, ScanInStep, Stalled, PacketsUnread, UnreadDesc,
                            swvars, clvars, Mask, NextRingId, PrevRingId, DropMode
  <1> QED BY <1>2, <1>3, <1>4 DEF IInv

(* An empty queue *)
LEMMA InitIInv == Init => IInv
  <1> SUFFICES ASSUME Init PROVE IInv
    OBVIOUS
  <1>1. Mask(0) = 0
    BY MaskLaps
  <1>2. TypeOK
    BY DEF Init, TypeOK, Idx, RingId, CDesc
  <1>3. Unread = 0
    BY <1>1 DEF Init, Unread
  <1>4. RingAccounted
    BY <1>1, <1>3 DEF Init, RingAccounted
  <1>5. RingIdsWritten
    BY DEF Init, RingIdsWritten, PrevRingId, Idx
  <1>6. ScanInStep
    BY <1>1, <1>3 DEF Init, ScanInStep
  <1>7. PacketsUnread /\ PacketsEnd
    BY <1>3 DEF Init, PacketsUnread, PacketsEnd
  <1> QED BY <1>2, <1>4, <1>5, <1>6, <1>7 DEF IInv, ScanOK

(* IInv is inductive, whether the device drops packets or not. *)
LEMMA NextKeepsIInv ==
    ASSUME IInv, [Next]_vars
    PROVE  IInv'
  <1>1. CASE \E num \in 1 .. MaxPkt : Check(num)
    BY <1>1, CheckKeeps
  <1>2. CASE al_udma_desc_get
    BY <1>2, DescGetKeeps
  <1>3. CASE \E num \in 1 .. Size : al_udma_desc_action_add(num)
    BY <1>3, ActionAddKeeps
  <1>4. CASE al_udma_cdesc_packet_get
    BY <1>4, PacketGetKeeps
  <1>5. CASE al_udma_cdesc_get_all
    BY <1>5, GetAllKeeps
  <1>6. CASE \E num \in 1 .. Size : al_udma_cdesc_ack(num)
    BY <1>6, AckKeeps
  <1>7. CASE \E last, err \in BOOLEAN : HwComplete(last, err)
    BY <1>7, HwCompleteKeeps
  <1>8. CASE HwDrop
    BY <1>8, DropKeeps
  <1>9. CASE UNCHANGED vars
    BY <1>9 DEF vars, swvars, clvars, hwvars, IInv, TypeOK, RingAccounted, RingIdsWritten,
                ScanOK, ScanInStep, Stalled, PacketsUnread, PacketsEnd, UnreadDesc, Unread,
                Mask, HeadReg, DropMode, NextRingId, PrevRingId
  <1> QED BY <1>1, <1>2, <1>3, <1>4, <1>5, <1>6, <1>7, <1>8, <1>9 DEF Next

(* Whatever the ring size, the fields of struct al_udma_q keep their types *)
(* and no count leaves the ring.                                           *)
THEOREM TypeCorrect == Spec => []TypeOK
  <1>1. IInv => TypeOK
    BY DEF IInv
  <1> QED BY InitIInv, NextKeepsIInv, <1>1, PTL DEF Spec

(* The check against al_udma_available_get keeps every slot accounted for  *)
(* and Reserve slots free, so the modular subtraction never wraps.         *)
THEOREM NoOvercommit == Spec => []RingAccounted
  <1>1. IInv => RingAccounted
    BY DEF IInv
  <1> QED BY InitIInv, NextKeepsIInv, <1>1, PTL DEF Spec

(* Two-bit ring ids are enough: a completion descriptor looks new to       *)
(* al_udma_new_cdesc exactly when it is unread, until a dropped packet is  *)
(* trimmed in the last slot of the ring.                                   *)
THEOREM RingIdsSuffice == Spec => []NewExactly
  <1>1. IInv => NewExactly
    <2> SUFFICES ASSUME IInv, ~HeadReg, ~(DropMode /\ Stalled)
                 PROVE  \A i \in Idx : IsNew(i) <=> i < Mask(crhp - comp_head_ptr)
      BY DEF NewExactly
    <2> QED BY NewIsUnread, ScanDistance DEF IInv, ScanOK
  <1> QED BY InitIInv, NextKeepsIInv, <1>1, PTL DEF Spec
-----------------------------------------------------------------------------
(* What al_udma_cdesc_packet_get has returned is one packet, also when the *)
(* device cut it short.                                                    *)

(* A whole packet: it starts where the unread completions start. *)
LEMMA WholeIsOne ==
    ASSUME IInv, IInv', al_udma_cdesc_packet_get, NEW i \in 0 .. Size - 1, StopAt(i),
           PacketWhole(i)
    PROVE  OnePacket'
  <1>1. /\ ~HeadReg /\ got = 0 /\ ScanInStep /\ next_cdesc_idx' = next_cdesc_idx
        /\ UNCHANGED <<next_desc_idx, desc_ring_id, next_cdesc_idx, drain, todo, prepared,
                       hwvars, desc>>
    BY PacketGetEnds
  <1> DEFINE g == pkt_crnt_descs + i + 1
  <1>2. /\ g \in Nat /\ g > 0 /\ g <= Unread /\ got' = g /\ cring' = cring
        /\ UnreadDesc(g - 1).last
        /\ \A k \in 0 .. g - 2 : ~UnreadDesc(k).last
        /\ \A k \in 1 .. g - 1 : ~UnreadDesc(k).first
    BY <1>1, WholeTakes
  <1> HIDE DEF g
  <1>3. UnreadDesc(0).first /\ next_cdesc_idx \in Nat
    <2>1. Unread \in Nat /\ Unread > 0 /\ PacketsUnread /\ next_cdesc_idx \in Nat
      BY <1>1, <1>2, UnreadEnds DEF IInv, ScanOK, TypeOK, Idx
    <2> QED BY <2>1 DEF PacketsUnread
  <1>4. ASSUME NEW k \in 1 .. g
        PROVE  LET c == cring'[Mask(next_cdesc_idx' + k - 1)]
               IN  (c.first <=> k = 1) /\ (c.last <=> k = g)
    <2> PICK j \in 0 .. g - 1 : j = k - 1
      BY <1>2
    <2>1. cring'[Mask(next_cdesc_idx' + k - 1)] = UnreadDesc(j)
      <3>1. next_cdesc_idx + got + j = next_cdesc_idx + k - 1
        BY <1>1, <1>3
      <3> QED BY <1>1, <1>2, <3>1 DEF UnreadDesc
    <2>2. UnreadDesc(j).first <=> j = 0
      <3>1. j = 0 \/ j \in 1 .. g - 1
        BY <1>2
      <3> QED BY <1>2, <1>3, <3>1
    <2>3. UnreadDesc(j).last <=> j = g - 1
      <3>1. j = g - 1 \/ j \in 0 .. g - 2
        BY <1>2
      <3> QED BY <1>2, <3>1
    <2>4. (j = 0 <=> k = 1) /\ (j = g - 1 <=> k = g)
      BY <1>2
    <2> QED BY <2>1, <2>2, <2>3, <2>4
  <1> QED BY <1>2, <1>4 DEF OnePacket, Mask

(* A packet that was cut short: its last completion is marked. *)
LEMMA TrimmedIsOne ==
    ASSUME IInv, IInv', al_udma_cdesc_packet_get, NEW i \in 0 .. Size - 1, StopAt(i),
           PacketTrimmed(i)
    PROVE  OnePacket'
  <1>1. /\ ~HeadReg /\ got = 0 /\ ScanInStep /\ next_cdesc_idx' = next_cdesc_idx
        /\ UNCHANGED <<next_desc_idx, desc_ring_id, next_cdesc_idx, drain, todo, prepared,
                       hwvars, desc>>
    BY PacketGetEnds
  <1> DEFINE g == pkt_crnt_descs + i
  <1>2. /\ g \in Nat /\ g > 0 /\ g < Unread /\ got' = g
        /\ \A k \in Idx : k # g - 1 =>
              cring'[Mask(next_cdesc_idx + k)] = cring[Mask(next_cdesc_idx + k)]
        /\ cring'[Mask(next_cdesc_idx + (g - 1))].last
        /\ \A s \in Idx : cring'[s].first = cring[s].first
        /\ \A k \in 0 .. g - 1 : ~UnreadDesc(k).last
        /\ \A k \in 1 .. g - 1 : ~UnreadDesc(k).first
    BY <1>1, TrimmedTakes
  <1> HIDE DEF g
  <1>3. /\ UnreadDesc(0).first /\ next_cdesc_idx \in Nat /\ Unread \in Nat /\ Unread < Size
    <2>1. /\ Unread \in Nat /\ Unread < Size /\ Unread > 0 /\ PacketsUnread
          /\ next_cdesc_idx \in Nat
      BY <1>1, <1>2, UnreadEnds DEF IInv, ScanOK, TypeOK, Idx
    <2> QED BY <2>1 DEF PacketsUnread
  <1>4. ASSUME NEW k \in 1 .. g
        PROVE  LET c == cring'[Mask(next_cdesc_idx' + k - 1)]
               IN  (c.first <=> k = 1) /\ (c.last <=> k = g)
    <2> PICK j \in 0 .. g - 1 : j = k - 1
      BY <1>2
    <2> DEFINE s == Mask(next_cdesc_idx + j)
    <2>1. cring'[Mask(next_cdesc_idx' + k - 1)] = cring'[s] /\ UnreadDesc(j) = cring[s]
      <3>1. next_cdesc_idx + got + j = next_cdesc_idx + j
        BY <1>1, <1>3
      <3> QED BY <1>1, <3>1 DEF UnreadDesc
    <2>2. s \in Idx /\ j \in Idx
      BY <1>2, <1>3, MaskLaps DEF Idx
    <2>3. cring'[s].first <=> j = 0
      <3>1. j = 0 \/ j \in 1 .. g - 1
        BY <1>2
      <3>2. UnreadDesc(j).first <=> j = 0
        BY <1>2, <1>3, <3>1
      <3>3. cring'[s].first = UnreadDesc(j).first
        BY <1>2, <2>1, <2>2
      <3> QED BY <3>2, <3>3
    <2>4. cring'[s].last <=> j = g - 1
      <3>1. CASE j = g - 1
        BY <1>2, <3>1
      <3>2. CASE j # g - 1
        <4>1. cring'[s] = UnreadDesc(j)
          BY <1>2, <2>1, <2>2, <3>2
        <4> QED BY <1>2, <3>2, <4>1
      <3> QED BY <3>1, <3>2
    <2>5. (j = 0 <=> k = 1) /\ (j = g - 1 <=> k = g)
      BY <1>2
    <2> QED BY <2>1, <2>3, <2>4, <2>5
  <1> QED BY <1>2, <1>4 DEF OnePacket, Mask

(* The device writes behind what was returned. *)
LEMMA HwCompleteLeaves ==
    ASSUME IInv, OnePacket, NEW last \in BOOLEAN, NEW err \in BOOLEAN, HwComplete(last, err)
    PROVE  OnePacket'
  <1>1. /\ next_cdesc_idx' = next_cdesc_idx /\ got' = got /\ HeadReg' = HeadReg
    BY DEF HwComplete, swvars, clvars, HeadReg
  <1>2. /\ Unread \in Nat /\ got \in Nat /\ next_cdesc_idx \in Nat
        /\ \A k \in Nat : k < got + Unread =>
              cring'[Mask(next_cdesc_idx + k)] = cring[Mask(next_cdesc_idx + k)]
    <2>1. got \in Nat /\ next_cdesc_idx \in Nat
      BY DEF IInv, TypeOK, Idx
    <2>2. /\ Unread \in Nat
          /\ \A k \in Nat : k < got + Unread =>
                cring'[Mask(next_cdesc_idx + k)] = cring[Mask(next_cdesc_idx + k)]
      BY HwWrites
    <2> QED BY <2>1, <2>2
  <1>3. ASSUME NEW k \in 1 .. got
        PROVE  cring'[Mask(next_cdesc_idx + k - 1)] = cring[Mask(next_cdesc_idx + k - 1)]
    <2>1. k - 1 \in Nat /\ k - 1 < got + Unread
      BY <1>2
    <2>2. next_cdesc_idx + (k - 1) = next_cdesc_idx + k - 1
      BY <1>2
    <2> QED BY <1>2, <2>1, <2>2
  <1> QED BY <1>1, <1>3 DEF OnePacket, Mask

(* Exactly one packet is handed out at a time, first word to last, whether *)
(* the device ended it, cut it short, or dropped the rest: what the driver *)
(* reads between al_udma_cdesc_packet_get and al_udma_cdesc_ack.           *)
THEOREM OnePacketReturned == Spec => []OnePacket
  <1>1. Init => OnePacket
    BY DEF Init, OnePacket
  <1>2. ASSUME IInv, IInv', OnePacket, [Next]_vars
        PROVE  OnePacket'
    <2>1. CASE UNCHANGED <<next_cdesc_idx, got, cring, drain>>
      BY <1>2, <2>1 DEF OnePacket, HeadReg, Mask
    <2>2. CASE al_udma_cdesc_packet_get
      <3>1. PICK i \in 0 .. Size - 1 :
               StopAt(i) /\ (PacketWhole(i) \/ PacketPartial(i) \/ PacketTrimmed(i))
        BY <1>2, <2>2, PacketGetEnds
      <3>2. CASE PacketPartial(i)
        BY <3>2 DEF PacketPartial, OnePacket
      <3> QED BY <1>2, <2>2, <3>1, <3>2, WholeIsOne, TrimmedIsOne
    <2>3. CASE al_udma_cdesc_get_all
      BY <2>3 DEF al_udma_cdesc_get_all, OnePacket, HeadReg, swvars
    <2>4. CASE \E num \in 1 .. Size : al_udma_cdesc_ack(num)
      BY <2>4 DEF al_udma_cdesc_ack, OnePacket
    <2>5. CASE \E last, err \in BOOLEAN : HwComplete(last, err)
      BY <1>2, <2>5, HwCompleteLeaves
    <2>6. \/ UNCHANGED <<next_cdesc_idx, got, cring, drain>>
          \/ al_udma_cdesc_packet_get \/ al_udma_cdesc_get_all
          \/ \E num \in 1 .. Size : al_udma_cdesc_ack(num)
          \/ \E last, err \in BOOLEAN : HwComplete(last, err)
      BY <1>2 DEF Next, Check, al_udma_desc_get, al_udma_desc_action_add, HwDrop, vars,
                  swvars, clvars, hwvars
    <2> QED BY <2>1, <2>2, <2>3, <2>4, <2>5, <2>6
  <1> QED BY <1>1, <1>2, InitIInv, NextKeepsIInv, PTL DEF Spec
-----------------------------------------------------------------------------
(* Whatever the ring size, a queue whose device drops nothing implements   *)
(* the first-in first-out channel of CompletionFifo, and filling           *)
(* descriptors never reaches those the device still owns.                  *)

(* The last completion written tells whether the device is in the middle   *)
(* of a packet, unless it drops packets; IInv says so only for a driver    *)
(* that polls.                                                             *)
LastUnread == Unread > 0 => (hw_len = 0 <=> UnreadDesc(Unread - 1).last)

FInv == IInv /\ (~DropMode => LastUnread)

(* An empty ring *)
LEMMA InitFInv == Init => FInv
  <1> SUFFICES ASSUME Init PROVE FInv
    OBVIOUS
  <1>1. Unread = 0
    <2>1. Mask(0) = 0
      BY MaskLaps
    <2> QED BY <2>1 DEF Init, Unread
  <1> QED BY <1>1, InitIInv DEF FInv, LastUnread

(* The device is set up once. *)
LEMMA DropModeStays ==
    ASSUME [Next]_vars PROVE DropMode' = DropMode
  BY DEF Next, Check, al_udma_desc_get, al_udma_desc_action_add, al_udma_cdesc_packet_get,
         al_udma_cdesc_get_all, al_udma_cdesc_ack, HwComplete, HwDrop, vars, swvars, DropMode

(* Every step keeps the invariant. *)
LEMMA NextKeepsFInv ==
    ASSUME FInv, [Next]_vars
    PROVE  FInv'
  <1>1. IInv /\ IInv' /\ Unread \in Nat
    <2>1. IInv
      BY DEF FInv
    <2>2. IInv'
      BY <2>1, NextKeepsIInv
    <2>3. Unread \in Nat
      BY <2>1, UnreadEnds DEF IInv
    <2> QED BY <2>1, <2>2, <2>3
  <1>0. DropMode' = DropMode
    BY DropModeStays
  <1> SUFFICES ASSUME ~DropMode PROVE LastUnread'
    BY <1>0, <1>1 DEF FInv
  <1>2. CASE UNCHANGED <<next_cdesc_idx, got, crhp, hw_len, cring>>
    BY <1>2 DEF FInv, LastUnread, Unread, UnreadDesc, Mask
  <1>3. CASE al_udma_cdesc_packet_get
    <2>1. ~HeadReg'
      BY <1>3 DEF al_udma_cdesc_packet_get, HeadReg
    <2> QED BY <1>0, <1>1, <2>1 DEF IInv, ScanOK, PacketsUnread, PacketsEnd, LastUnread
  <1>4. CASE al_udma_cdesc_get_all
    BY <1>1, <1>4, GetAllTakes DEF LastUnread
  <1>5. ASSUME NEW num \in 1 .. Size, al_udma_cdesc_ack(num)
        PROVE  LastUnread'
    <2>1. /\ Unread' = Unread /\ hw_len' = hw_len /\ cring' = cring
          /\ \A k \in Nat : got + k < Size =>
                Mask(next_cdesc_idx' + got' + k) = Mask(next_cdesc_idx + got + k)
      BY <1>1, <1>5, AckMoves DEF al_udma_cdesc_ack, hwvars
    <2>2. ASSUME Unread > 0
          PROVE  UnreadDesc(Unread - 1)' = UnreadDesc(Unread - 1)
      <3>1. Unread - 1 \in Nat /\ got + (Unread - 1) < Size
        BY <1>1, <2>2 DEF IInv, TypeOK, RingAccounted
      <3> QED BY <2>1, <3>1 DEF UnreadDesc, Mask
    <2> QED BY <2>1, <2>2 DEF FInv, LastUnread
  <1>6. ASSUME NEW last \in BOOLEAN, NEW err \in BOOLEAN, HwComplete(last, err)
        PROVE  LastUnread'
    <2> DEFINE c == [ring_id |-> hw_ring_id, first |-> hw_len = 0, last |-> last, err |-> err]
    <2>1. Unread' = Unread + 1 /\ cring'[Mask(next_cdesc_idx + got + Unread)] = c
      BY <1>1, <1>6, HwWrites
    <2>2. UnreadDesc(Unread - 1)' = c
      <3>1. Unread' - 1 = Unread /\ next_cdesc_idx' = next_cdesc_idx /\ got' = got
        BY <1>1, <1>6, <2>1 DEF HwComplete, swvars, clvars
      <3> QED BY <2>1, <3>1 DEF UnreadDesc, Mask
    <2>3. hw_len' = 0 <=> last
      BY <1>1, <1>6 DEF HwComplete, IInv, TypeOK
    <2> QED BY <2>2, <2>3 DEF LastUnread
  <1>7. CASE HwDrop
    BY <1>7 DEF HwDrop
  <1>8. \/ UNCHANGED <<next_cdesc_idx, got, crhp, hw_len, cring>>
        \/ al_udma_cdesc_packet_get \/ al_udma_cdesc_get_all \/ HwDrop
        \/ \E num \in 1 .. Size : al_udma_cdesc_ack(num)
        \/ \E last, err \in BOOLEAN : HwComplete(last, err)
    BY DEF Next, Check, al_udma_desc_get, al_udma_desc_action_add, vars, swvars, clvars, hwvars
  <1> QED BY <1>2, <1>3, <1>4, <1>5, <1>6, <1>7, <1>8
-----------------------------------------------------------------------------
(* The words in the channel and in the hands of the driver. *)
WordsAt ==
    /\ Unread \in 0 .. Size - 1 /\ got \in Nat /\ got + Unread < Size
    /\ Chan \in Seq(Fifo!Word) /\ Len(Chan) = Unread
    /\ \A k \in 1 .. Unread : Chan[k] = Flags(UnreadDesc(k - 1))
    /\ Out \in Seq(Fifo!Word) /\ Len(Out) = got
    /\ \A k \in 1 .. got : Out[k] = Flags(cring[Mask(next_cdesc_idx + k - 1)])

(* What the engine has written and software has not taken is the FIFO. *)
LEMMA ChanOut == IInv => WordsAt
  <1> SUFFICES ASSUME IInv PROVE WordsAt
    OBVIOUS
  <1>1. /\ Unread \in 0 .. Size - 1 /\ got \in Nat /\ got + Unread < Size
        /\ next_cdesc_idx \in Idx /\ cring \in [Idx -> CDesc]
    BY UnreadEnds DEF IInv, TypeOK, RingAccounted
  <1>2. \A c \in CDesc : Flags(c) \in Fifo!Word
    BY DEF Flags, CDesc, Fifo!Word
  <1>3. \A x \in Int : Mask(x) \in Idx
    BY MaskLaps
  <1>4. Chan \in [1 .. Unread -> Fifo!Word]
    BY <1>1, <1>2, <1>3 DEF Chan, Idx
  <1>5. Out \in [1 .. got -> Fifo!Word]
    BY <1>1, <1>2, <1>3 DEF Out, Idx
  <1>6. ASSUME NEW n \in Nat, NEW f \in [1 .. n -> Fifo!Word]
        PROVE  f \in Seq(Fifo!Word) /\ Len(f) = n
    <2>1. f \in Seq(Fifo!Word)
      BY SeqDef
    <2>2. Len(f) \in Nat /\ 1 .. Len(f) = 1 .. n
      BY <2>1, LenProperties
    <2> QED BY <2>1, <2>2
  <1>7. \A k \in 1 .. Unread : Chan[k] = Flags(UnreadDesc(k - 1))
    <2> SUFFICES ASSUME NEW k \in 1 .. Unread
                 PROVE  Chan[k] = Flags(UnreadDesc(k - 1))
      OBVIOUS
    <2>1. next_cdesc_idx + got + k - 1 = next_cdesc_idx + got + (k - 1)
      BY <1>1 DEF Idx
    <2> QED BY <2>1 DEF Chan, UnreadDesc
  <1> QED BY <1>1, <1>4, <1>5, <1>6, <1>7 DEF Out, WordsAt

(* The same after a step *)
LEMMA ChanOutNext == IInv' => WordsAt'
  BY ChanOut, PTL

(* The initial states map to initial states. *)
LEMMA InitFifo == Init => Fifo!Init
  <1> SUFFICES ASSUME Init PROVE Fifo!Init
    OBVIOUS
  <1>1. IInv
    BY InitIInv
  <1>2. Unread = 0 /\ got = 0
    <2>1. Mask(0) = 0
      BY MaskLaps
    <2> QED BY <2>1 DEF Init, Unread
  <1>3. Chan = <<>> /\ Out = <<>>
    <2>1. Chan \in Seq(Fifo!Word) /\ Len(Chan) = 0 /\ Out \in Seq(Fifo!Word) /\ Len(Out) = 0
      BY <1>1, <1>2, ChanOut DEF WordsAt
    <2> QED BY <2>1, EmptySeq
  <1>4. FifoChan = <<>> /\ FifoOut = <<>>
    BY <1>3 DEF FifoChan, FifoOut
  <1> QED BY <1>4 DEF Fifo!Init

(* What the FIFO holds when the device drops nothing, before and after *)
LEMMA Mapped ==
    ASSUME ~DropMode, DropMode' = DropMode
    PROVE  FifoChan = Chan /\ FifoOut = Out /\ FifoChan' = Chan' /\ FifoOut' = Out'
  BY DEF FifoChan, FifoOut

(* The device writes at the end of the channel. *)
LEMMA HwCompleteWrites ==
    ASSUME ~DropMode, DropMode' = DropMode, FInv, FInv', NEW last \in BOOLEAN, NEW err \in BOOLEAN, HwComplete(last, err)
    PROVE  \E w \in Fifo!Word : Fifo!Write(w)
  <1> DEFINE c == [ring_id |-> hw_ring_id, first |-> hw_len = 0, last |-> last, err |-> err]
             w == [first |-> hw_len = 0, last |-> last, err |-> err]
  <1>1. /\ Unread \in Nat /\ Unread' = Unread + 1
        /\ \A k \in Nat : k < got + Unread =>
              cring'[Mask(next_cdesc_idx + k)] = cring[Mask(next_cdesc_idx + k)]
        /\ cring'[Mask(next_cdesc_idx + got + Unread)] = c
    BY HwWrites DEF FInv
  <1>2. next_cdesc_idx' = next_cdesc_idx /\ got' = got /\ HeadReg' = HeadReg /\ (err => last)
    BY DEF HwComplete, swvars, clvars, HeadReg
  <1>3. w \in Fifo!Word /\ Flags(c) = w
    BY DEF Fifo!Word, Flags
  <1>4. next_cdesc_idx \in Nat /\ got \in Nat
    BY DEF FInv, IInv, TypeOK, Idx
  <1>5. Chan' = Append(Chan, w)
    <2>1. /\ Chan \in Seq(Fifo!Word) /\ Len(Chan) = Unread
          /\ \A k \in 1 .. Unread : Chan[k] = Flags(UnreadDesc(k - 1))
      BY ChanOut DEF FInv, WordsAt
    <2>2. /\ Chan' \in Seq(Fifo!Word) /\ Len(Chan') = Unread + 1
          /\ \A k \in 1 .. Unread + 1 : Chan'[k] = Flags(UnreadDesc(k - 1)')
      BY <1>1, ChanOutNext DEF FInv, WordsAt, Flags
    <2>3. ASSUME NEW k \in 1 .. Unread
          PROVE  Chan'[k] = Chan[k]
      <3>1. got + (k - 1) \in Nat /\ got + (k - 1) < got + Unread
            /\ next_cdesc_idx + (got + (k - 1)) = next_cdesc_idx + got + (k - 1)
        BY <1>1, <1>4
      <3>2. UnreadDesc(k - 1)' = UnreadDesc(k - 1)
        BY <1>1, <1>2, <3>1 DEF UnreadDesc, Mask
      <3> QED BY <2>1, <2>2, <3>2 DEF Flags
    <2>4. Chan'[Unread + 1] = w
      <3> PICK u \in Nat : u = Unread
        BY <1>1
      <3>1. UnreadDesc(u)' = c /\ u + 1 - 1 = u
        BY <1>1, <1>2 DEF UnreadDesc, Mask
      <3> QED BY <1>3, <2>2, <3>1
    <2>5. /\ Append(Chan, w) \in Seq(Fifo!Word) /\ Len(Append(Chan, w)) = Unread + 1
          /\ \A k \in 1 .. Unread : Append(Chan, w)[k] = Chan[k]
          /\ Append(Chan, w)[Unread + 1] = w
      BY <1>3, <2>1, AppendProperties
    <2>6. \A k \in 1 .. Len(Chan') : Chan'[k] = Append(Chan, w)[k]
      BY <1>1, <2>2, <2>3, <2>4, <2>5
    <2> QED BY <2>2, <2>5, <2>6, SeqEqual
  <1>6. Out' = Out
    <2>1. ASSUME NEW k \in 1 .. got
          PROVE  cring'[Mask(next_cdesc_idx + k - 1)] = cring[Mask(next_cdesc_idx + k - 1)]
      <3>1. k - 1 \in Nat /\ k - 1 < got + Unread
            /\ next_cdesc_idx + (k - 1) = next_cdesc_idx + k - 1
        BY <1>1, <1>4
      <3> QED BY <1>1, <3>1
    <2> QED BY <1>2, <2>1 DEF Out, Flags, Mask
  <1>7. Chan # <<>> => (w.first <=> Chan[Len(Chan)].last)
    <2>1. /\ Chan \in Seq(Fifo!Word) /\ Len(Chan) = Unread
          /\ \A k \in 1 .. Unread : Chan[k] = Flags(UnreadDesc(k - 1))
      BY ChanOut DEF FInv, WordsAt
    <2>2. ASSUME Chan # <<>>
          PROVE  w.first <=> Chan[Len(Chan)].last
      <3>1. Unread \in Nat \ {0}
        BY <2>1, <2>2, EmptySeq
      <3>2. hw_len = 0 <=> UnreadDesc(Unread - 1).last
        BY <3>1 DEF FInv, LastUnread
      <3>3. Chan[Unread].last = UnreadDesc(Unread - 1).last
        BY <2>1, <3>1 DEF Flags
      <3> QED BY <2>1, <3>2, <3>3
    <2> QED BY <2>2
  <1>8. Fifo!Write(w)
    BY <1>2, <1>5, <1>6, <1>7, Mapped DEF Fifo!Write
  <1> QED BY <1>3, <1>8

(* Returning g completions takes the first g words off the channel. *)
LEMMA TakesWords ==
    ASSUME IInv, IInv', NEW g \in 1 .. Unread,
           got = 0, got' = g, Unread' = Unread - g, cring' = cring,
           next_cdesc_idx' = next_cdesc_idx
    PROVE  /\ Out = <<>>
           /\ Out' = SubSeq(Chan, 1, g)
           /\ Chan' = SubSeq(Chan, g + 1, Len(Chan))
           /\ g \in 1 .. Len(Chan)
  <1>1. WordsAt
    BY ChanOut
  <1>2. WordsAt'
    BY ChanOutNext
  <1>3. /\ Unread \in Nat /\ Len(Chan) = Unread /\ g \in 1 .. Len(Chan) /\ next_cdesc_idx \in Nat
        /\ \A k \in 1 .. Len(Chan) : Chan[k] \in Fifo!Word
    <2>1. Chan \in Seq(Fifo!Word)
      BY <1>1 DEF WordsAt
    <2>2. \A k \in 1 .. Len(Chan) : Chan[k] \in Fifo!Word
      BY <2>1, ElementOfSeq
    <2>3. Unread \in Nat /\ Len(Chan) = Unread
      BY <1>1 DEF WordsAt
    <2>4. g \in 1 .. Len(Chan)
      BY <2>3
    <2>5. next_cdesc_idx \in Nat
      BY DEF IInv, TypeOK, Idx
    <2> QED BY <2>2, <2>3, <2>4, <2>5
  <1>4. Out = <<>>
    BY <1>1, EmptySeq DEF WordsAt
  <1>5. Out' = SubSeq(Chan, 1, g)
    <2>1. /\ SubSeq(Chan, 1, g) \in Seq(Fifo!Word) /\ Len(SubSeq(Chan, 1, g)) = g
          /\ \A k \in 1 .. g : SubSeq(Chan, 1, g)[k] = Chan[k]
      <3>1. \A k \in 1 .. g : Chan[k] \in Fifo!Word
        BY <1>3
      <3>2. 1 \in Int /\ g \in Int /\ 1 <= g /\ g - 1 + 1 = g
        OBVIOUS
      <3>3. /\ SubSeq(Chan, 1, g) \in Seq(Fifo!Word) /\ Len(SubSeq(Chan, 1, g)) = g
            /\ \A k \in 1 .. g : SubSeq(Chan, 1, g)[k] = Chan[1 + k - 1]
        BY <3>1, <3>2, SubSeqProperties
      <3> QED BY <3>3
    <2>2. /\ Out' \in Seq(Fifo!Word) /\ Len(Out') = g
          /\ \A k \in 1 .. g : Out'[k] = Flags(cring'[Mask(next_cdesc_idx' + k - 1)])
      BY <1>2 DEF WordsAt, Mask, Flags
    <2>3. ASSUME NEW k \in 1 .. g
          PROVE  Out'[k] = SubSeq(Chan, 1, g)[k]
      <3>1. Chan[k] = Flags(UnreadDesc(k - 1)) /\ next_cdesc_idx + got + (k - 1) = next_cdesc_idx + k - 1
        BY <1>1, <1>3 DEF WordsAt
      <3> QED BY <2>1, <2>2, <3>1 DEF UnreadDesc
    <2> QED BY <2>1, <2>2, <2>3, SeqEqual
  <1>6. Chan' = SubSeq(Chan, g + 1, Len(Chan))
    <2> DEFINE rest == SubSeq(Chan, g + 1, Len(Chan))
    <2>1. /\ rest \in Seq(Fifo!Word) /\ Len(rest) = Unread - g
          /\ \A k \in 1 .. Unread - g : rest[k] = Chan[g + k]
      <3>1. \A k \in g + 1 .. Unread : Chan[k] \in Fifo!Word
        BY <1>3
      <3>2. g + 1 \in Int /\ Unread \in Int /\ Unread - (g + 1) + 1 = Unread - g
        BY <1>3
      <3>3. /\ rest \in Seq(Fifo!Word)
            /\ Len(rest) = IF g + 1 <= Unread THEN Unread - (g + 1) + 1 ELSE 0
            /\ \A k \in 1 .. Unread - (g + 1) + 1 : rest[k] = Chan[(g + 1) + k - 1]
        BY <1>3, <3>1, <3>2, SubSeqProperties
      <3>4. \A k \in 1 .. Unread - g : (g + 1) + k - 1 = g + k
        BY <1>3
      <3> HIDE DEF rest
      <3>5. Len(rest) = Unread - g
        <4>1. CASE g + 1 <= Unread
          BY <3>2, <3>3, <4>1
        <4>2. CASE ~(g + 1 <= Unread)
          <5>1. Unread - g = 0
            BY <1>3, <4>2
          <5> QED BY <3>3, <4>2, <5>1
        <4> QED BY <4>1, <4>2
      <3>6. ASSUME NEW k \in 1 .. Unread - g
            PROVE  rest[k] = Chan[g + k]
        <4>1. k \in 1 .. Unread - (g + 1) + 1
          BY <3>2
        <4>2. rest[k] = Chan[(g + 1) + k - 1]
          BY <3>3, <4>1
        <4> QED BY <3>4, <4>2
      <3> QED BY <3>3, <3>5, <3>6
    <2> HIDE DEF rest
    <2>2. /\ Chan' \in Seq(Fifo!Word) /\ Len(Chan') = Unread - g
          /\ \A k \in 1 .. Unread - g : Chan'[k] = Flags(UnreadDesc(k - 1)')
      BY <1>2 DEF WordsAt, Flags
    <2>3. ASSUME NEW k \in 1 .. Unread - g
          PROVE  Chan'[k] = rest[k]
      <3>1. /\ next_cdesc_idx + g + (k - 1) = next_cdesc_idx + got + (g + k - 1)
            /\ g + k \in 1 .. Unread
        BY <1>3
      <3>2. UnreadDesc(k - 1)' = UnreadDesc(g + k - 1)
        BY <3>1 DEF UnreadDesc, Mask
      <3> QED BY <1>1, <2>1, <2>2, <3>1, <3>2 DEF WordsAt
    <2>4. \A k \in 1 .. Len(Chan') : Chan'[k] = rest[k]
      BY <2>2, <2>3
    <2>5. Chan' = rest
      BY <2>1, <2>2, <2>4, SeqEqual
    <2> QED BY <2>5 DEF rest
  <1> QED BY <1>3, <1>4, <1>5, <1>6

(* al_udma_cdesc_packet_get takes one packet, or only moves the scan. *)
LEMMA PacketGetTakes ==
    ASSUME ~DropMode, DropMode' = DropMode, IInv, IInv', al_udma_cdesc_packet_get
    PROVE  (\E n \in 1 .. Len(Chan) : Fifo!Take(n)) \/ UNCHANGED <<Chan, Out, HeadReg>>
  <1>1. /\ ~HeadReg /\ got = 0 /\ HeadReg' = HeadReg /\ ScanInStep
        /\ UNCHANGED <<next_desc_idx, desc_ring_id, next_cdesc_idx, drain, todo, prepared,
                       hwvars, desc>>
    BY PacketGetEnds DEF HeadReg
  <1>2. PICK i \in 0 .. Size - 1 :
           StopAt(i) /\ (PacketWhole(i) \/ PacketPartial(i) \/ PacketTrimmed(i))
    BY DEF al_udma_cdesc_packet_get
  <1>3. CASE PacketWhole(i)
    <2> DEFINE g == pkt_crnt_descs + i + 1
    <2>1. /\ g \in Nat /\ g > 0 /\ g <= Unread
          /\ got' = g /\ Unread' = Unread - g /\ cring' = cring
          /\ UnreadDesc(g - 1).last
          /\ \A k \in 0 .. g - 2 : ~UnreadDesc(k).last
      BY <1>1, <1>2, <1>3, WholeTakes
    <2>2. WordsAt /\ Unread \in Nat
      BY ChanOut DEF WordsAt
    <2> HIDE DEF g
    <2>3. g \in 1 .. Unread
      BY <2>1, <2>2
    <2>4. /\ Out = <<>> /\ Out' = SubSeq(Chan, 1, g)
          /\ Chan' = SubSeq(Chan, g + 1, Len(Chan)) /\ g \in 1 .. Len(Chan)
      BY <1>1, <2>1, <2>3, TakesWords
    <2>5. Fifo!IsPacket(g)
      <3>1. \A k \in 1 .. g : Chan[k].last = UnreadDesc(k - 1).last
        BY <2>2, <2>3 DEF WordsAt, Flags
      <3>2. Chan[g].last
        BY <2>1, <2>3, <3>1
      <3>3. \A k \in 1 .. g - 1 : ~Chan[k].last
        BY <2>1, <2>3, <3>1
      <3> QED BY <3>2, <3>3, Mapped DEF Fifo!IsPacket
    <2>6. Fifo!Take(g)
      BY <1>1, <2>4, <2>5, Mapped DEF Fifo!Take
    <2> QED BY <2>4, <2>6
  <1>4. CASE PacketPartial(i)
    <2>1. got' = got /\ cring' = cring
      BY <1>1, <1>4 DEF PacketPartial
    <2> QED BY <1>1, <2>1 DEF Chan, Out, Unread, Mask, Flags, hwvars
  <1>5. ~PacketTrimmed(i)
    BY <1>1, <1>2, ScanStops DEF PacketTrimmed
  <1> QED BY <1>2, <1>3, <1>4, <1>5

(* al_udma_cdesc_get_all takes all that is written. *)
LEMMA GetAllTakesWords ==
    ASSUME ~DropMode, DropMode' = DropMode, IInv, IInv', al_udma_cdesc_get_all
    PROVE  (\E n \in 1 .. Len(Chan) : Fifo!Take(n)) \/ UNCHANGED <<Chan, Out, HeadReg>>
  <1>1. /\ got = 0 /\ got' = Unread /\ Unread' = 0 /\ HeadReg /\ HeadReg' = HeadReg
        /\ UNCHANGED <<swvars, todo, prepared, hwvars, desc, cring>>
    BY GetAllTakes DEF al_udma_cdesc_get_all, HeadReg, swvars
  <1>2. WordsAt /\ Unread \in Nat
    BY ChanOut DEF WordsAt
  <1>3. CASE Unread = 0
    BY <1>1, <1>3 DEF Chan, Out, Mask, Flags, swvars
  <1>4. CASE Unread > 0
    <2> PICK g \in 1 .. Unread : g = Unread
      BY <1>2, <1>4
    <2>1. /\ Out = <<>> /\ Out' = SubSeq(Chan, 1, g)
          /\ Chan' = SubSeq(Chan, g + 1, Len(Chan)) /\ g \in 1 .. Len(Chan)
      <3>1. got' = g /\ Unread' = Unread - g /\ next_cdesc_idx' = next_cdesc_idx /\ cring' = cring
        BY <1>1, <1>2 DEF swvars
      <3> QED BY <1>1, <3>1, TakesWords
    <2>2. g = Len(Chan)
      BY <1>2 DEF WordsAt
    <2>3. Fifo!Take(g)
      BY <1>1, <2>1, <2>2, Mapped DEF Fifo!Take
    <2> QED BY <2>1, <2>3
  <1> QED BY <1>2, <1>3, <1>4

(* al_udma_cdesc_ack makes room. *)
LEMMA AckGivesBack ==
    ASSUME ~DropMode, DropMode' = DropMode, IInv, IInv', NEW num \in 1 .. Size,
           al_udma_cdesc_ack(num)
    PROVE  Fifo!Ack
  <1>1. /\ Unread' = Unread /\ got' = 0 /\ cring' = cring /\ HeadReg' = HeadReg /\ got > 0
        /\ \A k \in Nat : got + k < Size =>
              Mask(next_cdesc_idx' + got' + k) = Mask(next_cdesc_idx + got + k)
    BY AckMoves DEF al_udma_cdesc_ack, HeadReg
  <1>2. WordsAt
    BY ChanOut
  <1>3. WordsAt'
    BY ChanOutNext
  <1>4. Out' = <<>>
    BY <1>1, <1>3, EmptySeq DEF WordsAt
  <1>5. Out # <<>>
    BY <1>1, <1>2, EmptySeq DEF WordsAt
  <1>6. Chan' = Chan
    <2>1. ASSUME NEW k \in 1 .. Unread
          PROVE  Chan'[k] = Chan[k]
      <3>1. k - 1 \in Nat /\ got + (k - 1) < Size /\ k \in 1 .. Unread'
        BY <1>1, <1>2 DEF WordsAt
      <3>2. UnreadDesc(k - 1)' = UnreadDesc(k - 1)
        BY <1>1, <3>1 DEF UnreadDesc, Mask
      <3>3. Chan[k] = Flags(UnreadDesc(k - 1))
        BY <1>2 DEF WordsAt
      <3>4. Chan'[k] = Flags(UnreadDesc(k - 1)')
        BY <1>3, <3>1 DEF WordsAt, Flags
      <3> QED BY <3>2, <3>3, <3>4
    <2>2. Chan' \in Seq(Fifo!Word) /\ Chan \in Seq(Fifo!Word) /\ Len(Chan') = Len(Chan) /\ Len(Chan') = Unread
      BY <1>1, <1>2, <1>3 DEF WordsAt
    <2> QED BY <2>1, <2>2, SeqEqual
  <1> QED BY <1>1, <1>4, <1>5, <1>6, Mapped DEF Fifo!Ack

(* The queue is a first-in first-out channel of completion words, for      *)
(* every ring size: each step writes a word at the end, takes a whole      *)
(* packet or everything from the front, gives back what was taken, or      *)
(* leaves the channel alone.  A queue whose device drops packets is mapped *)
(* to a channel that stays empty.                                          *)
THEOREM QueueIsFifo == Spec => FifoSpec
  <1>1. Init => Fifo!Init
    BY InitFifo
  <1>2. ASSUME FInv, FInv', [Next]_vars
        PROVE  [Fifo!Next]_(Fifo!fifoVars)
    <2>1. IInv /\ IInv'
      BY <1>2 DEF FInv
    <2>0. DropMode' = DropMode /\ HeadReg' = HeadReg
      BY <1>2, DropModeStays DEF Next, Check, al_udma_desc_get, al_udma_desc_action_add,
            al_udma_cdesc_packet_get, al_udma_cdesc_get_all, al_udma_cdesc_ack, HwComplete,
            HwDrop, vars, swvars, HeadReg
    <2>8. CASE DropMode
      BY <2>0, <2>8 DEF Fifo!fifoVars, FifoChan, FifoOut
    <2> SUFFICES ASSUME ~DropMode PROVE Fifo!Next \/ UNCHANGED <<Chan, Out, HeadReg>>
      BY <2>0, <2>8, Mapped DEF Fifo!fifoVars
    <2>2. CASE UNCHANGED <<next_cdesc_idx, got, crhp, cring, drain>>
      BY <2>2 DEF Chan, Out, HeadReg, Unread, Mask, Flags
    <2>3. CASE al_udma_cdesc_packet_get
      BY <2>0, <2>1, <2>3, PacketGetTakes, Mapped DEF Fifo!Next
    <2>4. CASE al_udma_cdesc_get_all
      BY <2>0, <2>1, <2>4, GetAllTakesWords, Mapped DEF Fifo!Next
    <2>5. CASE \E num \in 1 .. Size : al_udma_cdesc_ack(num)
      BY <2>0, <2>1, <2>5, AckGivesBack DEF Fifo!Next
    <2>6. CASE \E last, err \in BOOLEAN : HwComplete(last, err)
      BY <2>0, <1>2, <2>6, HwCompleteWrites DEF Fifo!Next
    <2>7. \/ UNCHANGED <<next_cdesc_idx, got, crhp, cring, drain>>
          \/ al_udma_cdesc_packet_get \/ al_udma_cdesc_get_all
          \/ \E num \in 1 .. Size : al_udma_cdesc_ack(num)
          \/ \E last, err \in BOOLEAN : HwComplete(last, err)
      BY <1>2 DEF Next, Check, al_udma_desc_get, al_udma_desc_action_add, HwDrop, vars,
                  swvars, clvars, hwvars
    <2> QED BY <2>2, <2>3, <2>4, <2>5, <2>6, <2>7
  <1> QED BY <1>1, <1>2, InitFInv, NextKeepsFInv, PTL DEF Spec, FifoSpec, Fifo!Spec
-----------------------------------------------------------------------------
(* A submission descriptor the device has not completed is not rewritten:  *)
(* al_udma_desc_get fills the slot behind them, and the reserve keeps that *)
(* slot from meeting their other end.                                      *)
THEOREM DescriptorsOwned == Spec => DescOwned
  <1> DEFINE Left == \A k \in 1 .. prepared + posted :
                        desc'[Mask(next_desc_idx - k)] = desc[Mask(next_desc_idx - k)]
  <1>1. ASSUME IInv, [Next]_vars
        PROVE  [Left]_vars
    <2>1. CASE al_udma_desc_get
      <3> SUFFICES ASSUME NEW k \in 1 .. prepared + posted
                   PROVE  desc'[Mask(next_desc_idx - k)] = desc[Mask(next_desc_idx - k)]
        OBVIOUS
      <3>1. next_desc_idx \in Idx /\ k \in Nat /\ k > 0 /\ k < Size /\ desc \in [Idx -> RingId]
        BY <1>1, UnreadEnds DEF IInv, TypeOK, RingAccounted
      <3> DEFINE x == next_desc_idx - k
      <3>2. x \in Int /\ -Size <= x /\ x < Size /\ x # next_desc_idx /\ x + Size # next_desc_idx
        BY <3>1 DEF Idx
      <3> HIDE DEF x
      <3>3. Mask(x) \in Idx /\ Mask(x) # next_desc_idx
        BY <3>1, <3>2, MaskLaps DEF Idx
      <3>4. desc'[Mask(x)] = desc[Mask(x)]
        BY <2>1, <3>1, <3>3 DEF al_udma_desc_get
      <3> QED BY <3>4 DEF x
    <2>2. CASE ~al_udma_desc_get
      <3>1. desc' = desc
        BY <1>1, <2>2 DEF Next, Check, al_udma_desc_action_add, al_udma_cdesc_packet_get,
              al_udma_cdesc_get_all, al_udma_cdesc_ack, HwComplete, HwDrop, vars
      <3> QED BY <3>1
    <2> QED BY <2>1, <2>2
  <1> QED BY InitIInv, NextKeepsIInv, <1>1, PTL DEF Spec, DescOwned
=============================================================================
