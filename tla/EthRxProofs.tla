----------------------------- MODULE EthRxProofs -----------------------------
(***************************************************************************)
(* Proofs about EthRx for every ring size, budget, set of packets and set  *)
(* of page fragments.                                                      *)
(***************************************************************************)
EXTENDS EthRx, ListFacts, FiniteSetTheorems

USE SizeAssumption, NoneAssumption

(* Part 1: the buffers of the driver.  No index but the one of the slot is *)
(* used, so this holds whether or not the rings are in step.               *)
Placed ==
    /\ next_to_use \in Slots /\ next_to_clean \in Slots
    /\ rx_info \in [Slots -> Frags \cup {None}]
    /\ held \subseteq Frags

OneSlotEach ==
    /\ \A i, j \in Slots : rx_info[i] = rx_info[j] /\ rx_info[i] # None => i = j
    /\ \A f \in Frags : f \in held <=> \E i \in Slots : rx_info[i] = f
    /\ \A f \in Frags : f \in held <=> f \in mapped \cup spoiled

HInv == Placed /\ OneSlotEach

(* An index of the ring stays one. *)
LEMMA AddType ==
    ASSUME NEW i \in Slots, NEW n \in Nat
    PROVE  Add(i, n) \in Slots /\ 0 \in Slots /\ Descs \in Nat \ {0}
  BY DEF Add, Slots

(* The rings start empty. *)
LEMMA InitHInv == Init => HInv
  <1> SUFFICES ASSUME Init PROVE HInv
    OBVIOUS
  <1>1. Placed
    BY DEF Init, Placed, Slots
  <1>2. OneSlotEach
    BY DEF Init, OneSlotEach
  <1> QED BY <1>1, <1>2 DEF HInv

(* Taking a packet: the buffers of the packet are handed up, or kept. *)
LEMMA PacketKeepsH ==
    ASSUME HInv, NEW p \in Packets, PollPacket(p)
    PROVE  HInv'
  <1>1. p.descs \in Nat
    BY DEF Packets
  <1>2. next_to_use' = next_to_use
    BY DEF PollPacket, PollError, PollCopy, PollCopyFails, PollFrags, PollFragsFails,
           al_eth_pkt_rx
  <1>3. next_to_clean' \in Slots
    <2>1. next_to_clean \in Slots
      BY DEF HInv, Placed
    <2>2. Add(next_to_clean, p.descs) \in Slots /\ Add(next_to_clean, 1) \in Slots
      BY <1>1, <2>1, AddType
    <2> QED BY <2>2 DEF PollPacket, PollError, PollCopy, PollCopyFails, PollFrags,
                        PollFragsFails, GiveUp
  <1>4. CASE UNCHANGED <<rx_info, held, mapped, spoiled>>
    BY <1>2, <1>3, <1>4 DEF HInv, Placed, OneSlotEach
  <1>5. CASE PollFrags(p)
    <2>1. /\ rx_info' = [i \in Slots |-> IF i \in Of(p) THEN None ELSE rx_info[i]]
          /\ held' = held \ FragsOf(p)
          /\ mapped' = mapped \ FragsOf(p)
          /\ spoiled' = spoiled \ FragsOf(p)
      BY <1>5 DEF PollFrags
    <2>2. Placed'
      BY <1>2, <1>3, <2>1 DEF HInv, Placed
    <2>3. Of(p) \subseteq Slots
      BY <1>1, AddType DEF Of, HInv, Placed
    <2>4. OneSlotEach'
      <3>1. \A f \in Frags : f \in FragsOf(p) <=> \E i \in Of(p) : rx_info[i] = f
        BY DEF FragsOf
      <3>2. \A f \in Frags : f \in held' <=> \E i \in Slots : rx_info'[i] = f
        BY <2>1, <2>3, <3>1 DEF HInv, OneSlotEach, Placed
      <3>3. /\ \A i, j \in Slots : rx_info'[i] = rx_info'[j] /\ rx_info'[i] # None => i = j
            /\ \A f \in Frags : f \in held' <=> f \in mapped' \cup spoiled'
        BY <2>1 DEF HInv, OneSlotEach
      <3> QED BY <3>2, <3>3 DEF OneSlotEach
    <2> QED BY <2>2, <2>4 DEF HInv
  <1>6. CASE PollFragsFails(p)
    <2>1. /\ rx_info' = rx_info /\ held' = held
          /\ mapped' = mapped \ {rx_info[next_to_clean]}
          /\ spoiled' = spoiled \cup {rx_info[next_to_clean]}
      BY <1>6 DEF PollFragsFails
    <2>2. \A f \in Frags : f = rx_info[next_to_clean] => f \in held
      BY DEF HInv, Placed, OneSlotEach
    <2> QED BY <1>2, <1>3, <2>1, <2>2 DEF HInv, Placed, OneSlotEach
  <1> QED BY <1>4, <1>5, <1>6 DEF PollPacket, PollError, PollCopy, PollCopyFails, GiveUp, frags

(* A slot gets a new buffer only when it has none. *)
LEMMA RefillKeepsH ==
    ASSUME HInv, RefillKept \/ RefillNew
    PROVE  HInv'
  <1>1. next_to_use' \in Slots /\ next_to_clean' = next_to_clean /\ spoiled' = spoiled
    BY AddType DEF HInv, Placed, RefillKept, RefillNew, BufferAdd
  <1>2. CASE RefillKept
    BY <1>1, <1>2 DEF RefillKept, HInv, Placed, OneSlotEach
  <1>3. CASE RefillNew
    <2>1. /\ rx_info[next_to_use] = None /\ held # Frags
          /\ rx_info' = [rx_info EXCEPT ![next_to_use] = NewFrag]
          /\ held' = held \cup {NewFrag}
          /\ mapped' = mapped \cup {NewFrag}
      BY <1>3 DEF RefillNew
    <2>2. NewFrag \in Frags /\ NewFrag \notin held
      BY <2>1 DEF NewFrag, HInv, Placed
    <2>3. PICK n \in Frags : n = NewFrag /\ n \notin held
      BY <2>2
    <2>4. /\ next_to_use \in Slots /\ rx_info \in [Slots -> Frags \cup {None}]
          /\ \A i \in Slots : rx_info[i] # n
      BY <2>3 DEF HInv, Placed, OneSlotEach
    <2>5. /\ rx_info'[next_to_use] = n
          /\ \A i \in Slots : i # next_to_use => rx_info'[i] = rx_info[i]
          /\ rx_info' \in [Slots -> Frags \cup {None}]
      BY <2>1, <2>3, <2>4
    <2>6. Placed'
      BY <1>1, <2>1, <2>3, <2>5 DEF HInv, Placed
    <2>7. \A i, j \in Slots : rx_info'[i] = rx_info'[j] /\ rx_info'[i] # None => i = j
      BY <2>4, <2>5 DEF HInv, OneSlotEach
    <2>8. \A f \in Frags : f \in held' <=> \E i \in Slots : rx_info'[i] = f
      BY <2>1, <2>3, <2>4, <2>5 DEF HInv, OneSlotEach
    <2>9. \A f \in Frags : f \in held' <=> f \in mapped' \cup spoiled'
      BY <1>1, <2>1 DEF HInv, OneSlotEach
    <2> QED BY <2>6, <2>7, <2>8, <2>9 DEF HInv, OneSlotEach
  <1> QED BY <1>2, <1>3

(* al_eth_down frees what is in the slots, and that is everything. *)
LEMMA DownKeepsH ==
    ASSUME HInv, al_eth_down
    PROVE  HInv'
  <1> USE DEF al_eth_down
  <1>1. Placed'
    BY DEF HInv, Placed
  <1>2. \A f \in Frags : f \notin held'
    BY DEF HInv, OneSlotEach
  <1>3. \A f \in Frags : f \notin mapped' \cup spoiled'
    BY DEF HInv, OneSlotEach
  <1>4. \A i \in Slots : rx_info'[i] = None
    OBVIOUS
  <1> QED BY <1>1, <1>2, <1>3, <1>4 DEF HInv, OneSlotEach

(* No step loses a buffer or puts it into two slots. *)
LEMMA NextKeepsH == HInv /\ [Next]_vars => HInv'
  <1> SUFFICES ASSUME HInv, [Next]_vars PROVE HInv'
    OBVIOUS
  <1>1. CASE UNCHANGED <<next_to_use, next_to_clean, rx_info, held, mapped, spoiled>>
    BY <1>1 DEF HInv, Placed, OneSlotEach
  <1>2. CASE \E p \in Packets : PollPacket(p)
    BY <1>2, PacketKeepsH
  <1>3. CASE RefillKept \/ RefillNew
    BY <1>3, RefillKeepsH
  <1>4. CASE al_eth_down
    BY <1>4, DownKeepsH
  <1>5. CASE al_eth_up
    <2>1. /\ next_to_use' \in Slots /\ next_to_clean' \in Slots
          /\ UNCHANGED <<rx_info, held, mapped, spoiled>>
      BY <1>5 DEF al_eth_up, frags, Slots
    <2> QED BY <2>1 DEF HInv, Placed, OneSlotEach
  <1>6. CASE \/ Interrupt \/ PollBegin \/ PollEmpty \/ RefillShort \/ RefillDone
             \/ \E p \in Packets : HwReceive(p)
             \/ \E n \in CopyLens : al_eth_store_small_copy_len(n)
    BY <1>1, <1>6 DEF Interrupt, PollBegin, PollEmpty, RefillShort, RefillDone, Post, HwReceive,
                      al_eth_store_small_copy_len, rings, frags
  <1>7. CASE UNCHANGED vars
    BY <1>1, <1>7 DEF vars, rings, frags
  <1> QED BY <1>2, <1>3, <1>4, <1>5, <1>6, <1>7 DEF Next, PollPacket

(* The fragments are where the ring says in every reachable state. *)
LEMMA HeldInvariant == Spec => []HInv
  BY InitHInv, NextKeepsH, PTL DEF Spec

(* HeldOnce, for every size of the rings and whatever fails: a buffer of   *)
(* the driver is in exactly one slot and mapped, or was kept by            *)
(* al_eth_rx_skb after unmapping it.                                       *)
THEOREM BuffersHeldOnce == Spec => []HeldOnce
  <1>1. HInv => HeldOnce
    <2> SUFFICES ASSUME HInv, NEW f \in Frags
                 PROVE  /\ f \in held <=> Cardinality({i \in Slots : rx_info[i] = f}) = 1
                        /\ f \in held <=> f \in mapped \cup spoiled
      BY DEF HeldOnce
    <2> DEFINE S == {i \in Slots : rx_info[i] = f}
    <2>1. f # None
      OBVIOUS
    <2>2. ASSUME f \in held PROVE Cardinality(S) = 1
      <3>1. PICK i \in Slots : rx_info[i] = f
        BY <2>2 DEF HInv, OneSlotEach
      <3>2. S = {i}
        BY <2>1, <3>1 DEF HInv, OneSlotEach
      <3> QED BY <3>2, FS_Singleton
    <2>3. ASSUME f \notin held PROVE Cardinality(S) = 0
      <3>1. S = {}
        BY <2>3 DEF HInv, OneSlotEach
      <3> QED BY <3>1, FS_EmptySet
    <2> QED BY <2>2, <2>3 DEF HInv, OneSlotEach
  <1> QED BY <1>1, HeldInvariant, PTL
-----------------------------------------------------------------------------
(* Part 2: the two rings.  d are the buffers in flight, in the slots from  *)
(* c to u, and info is rx_buffer_info.                                     *)
Match(d, c, u, info) ==
    /\ Len(d) < Descs
    /\ u = Add(c, Len(d))
    /\ \A k \in 1 .. Len(d) : info[Add(c, k - 1)] = d[k]

(* al_eth_rx_buffer_add for the buffer of the next slot: the free slot it  *)
(* leaves keeps it off the oldest one.                                     *)
LEMMA MatchAppend ==
    ASSUME NEW c \in Slots, NEW u \in Slots, NEW d \in Seq(Frags), NEW info, NEW info2,
           NEW f \in Frags, Match(d, c, u, info), (c - (u + 1)) % Descs > 0,
           info2[u] = f, \A i \in Slots : i # u => info2[i] = info[i]
    PROVE  Match(Append(d, f), c, Add(u, 1), info2)
  <1>0. Descs \in Nat \ {0} /\ c \in 0 .. Descs - 1 /\ u \in 0 .. Descs - 1
    BY DEF Slots
  <1>1. PICK n \in Nat : n = Len(d)
    BY LenProperties
  <1>2. n < Descs /\ u = (c + n) % Descs
    BY <1>1 DEF Match, Add
  <1>3. n + 1 < Descs
    <2>1. CASE n + 1 = Descs
      <3>0. c \in Int /\ n \in Int /\ 0 <= c + n /\ c + n < 2 * Descs
        BY <1>0, <1>2
      <3>1. u = IF c + n < Descs THEN c + n ELSE (c + n) - Descs
        BY <1>0, <1>2, <3>0, RingSum
      <3>2. u = IF c = 0 THEN Descs - 1 ELSE c - 1
        BY <1>0, <2>1, <3>1
      <3>3. c - (u + 1) = 0 \/ c - (u + 1) = -Descs
        BY <1>0, <3>2
      <3>4. (c - (u + 1)) % Descs = 0
        BY <1>0, <3>3
      <3> QED BY <3>4
    <2> QED BY <1>0, <1>2, <2>1
  <1>4. /\ Len(Append(d, f)) = n + 1
        /\ \A k \in 1 .. n : Append(d, f)[k] = d[k]
        /\ Append(d, f)[n + 1] = f
    BY <1>1, AddTail
  <1>5. Add(u, 1) = Add(c, n + 1)
    <2>1. (((c + n) % Descs) + 1) % Descs = (c + n + 1) % Descs
      BY <1>0, <1>2, RingOn, SMTT(40)
    <2>2. c + n + 1 = c + (n + 1)
      BY <1>0
    <2> QED BY <1>2, <2>1, <2>2 DEF Add
  <1>6. ASSUME NEW k \in 1 .. n + 1
        PROVE  info2[Add(c, k - 1)] = Append(d, f)[k]
    <2>1. CASE k = n + 1
      <3>1. Add(c, k - 1) = u
        BY <1>2, <2>1 DEF Add
      <3> QED BY <1>4, <2>1, <3>1
    <2>2. CASE k \in 1 .. n
      <3>1. PICK j \in 0 .. Descs - 1 : j = k - 1 /\ j # n /\ j \in Nat
        BY <1>2, <2>2
      <3>2. n \in 0 .. Descs - 1
        BY <1>2
      <3>3. (c + j) % Descs = (c + n) % Descs => j = n
        BY <1>0, <3>2, RingApart
      <3>4. Add(c, j) \in Slots /\ Add(c, j) # u
        BY <1>2, <3>1, <3>3, AddType DEF Add
      <3>5. info[Add(c, j)] = d[k]
        BY <1>1, <2>2, <3>1 DEF Match
      <3>6. info2[Add(c, j)] = d[k]
        BY <3>4, <3>5
      <3>7. Append(d, f)[k] = d[k]
        BY <1>4, <2>2
      <3>8. Add(c, k - 1) = Add(c, j)
        BY <3>1
      <3> QED BY <3>6, <3>7, <3>8
    <2>3. k = n + 1 \/ k \in 1 .. n
      BY <1>1
    <2> QED BY <2>1, <2>2, <2>3
  <1> QED BY <1>3, <1>4, <1>5, <1>6 DEF Match

(* Taking the oldest n buffers leaves the others in their slots. *)
LEMMA MatchDrop ==
    ASSUME NEW c \in Slots, NEW u, NEW d \in Seq(Frags), NEW info, NEW info2,
           NEW n \in Nat, n <= Len(d), Match(d, c, u, info),
           \A i \in Slots : i \notin {Add(c, k) : k \in 0 .. n - 1} => info2[i] = info[i]
    PROVE  /\ SubSeq(d, n + 1, Len(d)) \in Seq(Frags)
           /\ Len(SubSeq(d, n + 1, Len(d))) = Len(d) - n
           /\ Match(SubSeq(d, n + 1, Len(d)), Add(c, n), u, info2)
  <1>0. Descs \in Nat \ {0} /\ c \in 0 .. Descs - 1
    BY DEF Slots
  <1>1. PICK m \in Nat : m = Len(d)
    BY LenProperties
  <1>2. m < Descs /\ n <= m /\ u = (c + m) % Descs
    BY <1>1 DEF Match, Add
  <1> DEFINE r == SubSeq(d, n + 1, m)
  <1>3. /\ r \in Seq(Frags)
        /\ Len(r) = m - n
        /\ \A i \in 1 .. m - n : r[i] = d[n + i]
    <2>1. \A i \in n + 1 .. m : d[i] \in Frags
      BY <1>1, ElementOfSeq
    <2>2. /\ r \in Seq(Frags)
          /\ Len(r) = IF n + 1 <= m THEN m - (n + 1) + 1 ELSE 0
          /\ \A i \in 1 .. m - (n + 1) + 1 : r[i] = d[(n + 1) + i - 1]
      BY <2>1, SubSeqProperties
    <2> HIDE DEF r
    <2> QED BY <1>2, <2>2
  <1> HIDE DEF r
  <1>4. ASSUME NEW j \in Nat, j <= m - n
        PROVE  Add(Add(c, n), j) = Add(c, n + j)
    <2>0. n \in 0 .. Descs /\ j \in 0 .. Descs
      BY <1>2, <1>4
    <2>1. (((c + n) % Descs) + j) % Descs = (c + n + j) % Descs
      BY <1>0, <2>0, RingOn
    <2>2. c + n + j = c + (n + j)
      BY <1>0
    <2> QED BY <2>1, <2>2 DEF Add
  <1>5. u = Add(Add(c, n), m - n)
    <2>1. m - n \in Nat /\ n + (m - n) = m
      BY <1>2
    <2> QED BY <1>2, <1>4, <2>1 DEF Add
  <1>6. ASSUME NEW k \in 1 .. m - n
        PROVE  info2[Add(Add(c, n), k - 1)] = r[k]
    <2>1. PICK j \in Nat : j = n + (k - 1) /\ j >= n /\ j + 1 \in 1 .. m /\ j < Descs
      BY <1>2
    <2>2. Add(Add(c, n), k - 1) = Add(c, j)
      <3>1. k - 1 \in Nat /\ k - 1 <= m - n
        BY <1>2
      <3>2. Add(Add(c, n), k - 1) = Add(c, n + (k - 1))
        BY <1>4, <3>1
      <3> QED BY <2>1, <3>2
    <2>3. \A i \in 0 .. n - 1 : Add(c, i) # Add(c, j)
      <3> SUFFICES ASSUME NEW i \in 0 .. n - 1, Add(c, i) = Add(c, j) PROVE FALSE
        OBVIOUS
      <3>0. i \in 0 .. Descs - 1 /\ j \in 0 .. Descs - 1
        BY <1>2, <2>1
      <3>1. i = j
        BY <1>0, <3>0, RingApart DEF Add
      <3> QED BY <2>1, <3>1
    <2>4. info2[Add(c, j)] = info[Add(c, j)]
      BY <2>1, <2>3, AddType
    <2>5. info[Add(c, (j + 1) - 1)] = d[j + 1]
      BY <1>1, <2>1 DEF Match
    <2>6. (j + 1) - 1 = j /\ j + 1 = n + k
      BY <2>1
    <2> QED BY <1>3, <2>2, <2>4, <2>5, <2>6
  <1>7. Match(r, Add(c, n), u, info2)
    BY <1>2, <1>3, <1>5, <1>6 DEF Match
  <1> QED BY <1>1, <1>3, <1>7 DEF r

(* A stretch of the ring is as long as its ends are apart. *)
LEMMA MatchLength ==
    ASSUME NEW c \in Slots, NEW u, NEW d \in Seq(Frags), NEW info, Match(d, c, u, info)
    PROVE  Len(d) = (u - c) % Descs
  <1>0. Descs \in Nat \ {0} /\ c \in 0 .. Descs - 1
    BY DEF Slots
  <1>1. PICK m \in 0 .. Descs - 1 : m = Len(d)
    BY LenProperties DEF Match
  <1>2. u = IF c + m < Descs THEN c + m ELSE (c + m) - Descs
    <2>1. c \in Int /\ m \in Int /\ 0 <= c + m /\ c + m < 2 * Descs
      BY <1>0, <1>1
    <2>2. u = (c + m) % Descs
      BY <1>1 DEF Match, Add
    <2> QED BY <1>0, <2>1, <2>2, RingSum
  <1>3. u - c = m \/ u - c = m - Descs
    BY <1>0, <1>2
  <1>4. (u - c) % Descs = m
    BY <1>0, <1>3
  <1> QED BY <1>1, <1>4
-----------------------------------------------------------------------------
(* small_copy_len is less than what a buffer holds, as the driver's        *)
(* default is: a packet that is copied has one buffer.                     *)
Short == \A n \in CopyLens : n < BufLen

DescsOf == [p \in Packets |-> p.descs]

TypeLoose ==
    /\ at \in {"off", "fill", "idle", "loop", "refill"}
    /\ budget \in 0 .. Budget /\ napi \in {"idle", "sched", "stuck"}
    /\ small_copy_len \in CopyLens
    /\ next_desc_idx \in Slots /\ next_cdesc_idx \in Slots
    /\ desc \in Seq(Frags)
    /\ added \in Nat /\ posted \in Nat
    /\ comp \in Seq(Packets) /\ irq \in BOOLEAN
    /\ mapped \subseteq Frags /\ spoiled \subseteq Frags
    /\ fault \in {"none", "skb", "refill"}

InStep ==
    /\ at # "off" => /\ next_to_clean = next_cdesc_idx /\ next_to_use = next_desc_idx
                     /\ Match(desc, next_to_clean, next_to_use, rx_info)
    /\ at = "off" => desc = <<>>

(* A descriptor in flight is completed, with the engine, or about to be    *)
(* handed to it.                                                           *)
Counted ==
    /\ Len(desc) = Weight(DescsOf, comp) + posted + added
    /\ ~Refilling => added = 0
    /\ at = "loop" => budget > 0

RInv == HInv /\ TypeLoose /\ InStep /\ Counted

(* The buffers of a packet are a number. *)
LEMMA PacketsWeigh == Weighs(DescsOf, Packets)
  BY DEF Weighs, DescsOf, Packets

(* The type invariant follows: no more is posted than the ring has. *)
LEMMA RingTypes == RInv => TypeOK
  <1> SUFFICES ASSUME RInv PROVE TypeOK
    OBVIOUS
  <1>1. PICK w \in Nat : w = Weight(DescsOf, comp)
    BY PacketsWeigh, WeightType DEF RInv, TypeLoose
  <1>2. PICK n \in Nat : n = Len(desc)
    BY LenProperties DEF RInv, TypeLoose
  <1>3. n < Descs
    <2>1. CASE at = "off"
      BY <1>2, <2>1, EmptySeq DEF RInv, InStep
    <2>2. CASE at # "off"
      BY <1>2, <2>2 DEF RInv, InStep, Match
    <2> QED BY <2>1, <2>2
  <1>4. added \in Nat /\ posted \in Nat /\ n = w + posted + added
    BY <1>1, <1>2 DEF RInv, TypeLoose, Counted
  <1>5. added \in Slots /\ posted \in Slots
    BY <1>3, <1>4 DEF Slots
  <1> QED BY <1>5 DEF RInv, HInv, Placed, TypeLoose, TypeOK

(* The rings start empty. *)
LEMMA InitRInv == Init => RInv
  <1> SUFFICES ASSUME Init PROVE RInv
    OBVIOUS
  <1> USE DEF Init
  <1>1. HInv
    BY InitHInv
  <1>2. <<>> \in Seq(Frags) /\ <<>> \in Seq(Packets) /\ Len(<<>>) = 0
    BY EmptySeq
  <1>3. 0 \in Slots /\ 0 \in 0 .. Budget /\ 0 < Descs
    BY DEF Slots
  <1>4. TypeLoose
    BY <1>2, <1>3 DEF TypeLoose
  <1>5. Add(0, 0) = 0
    BY <1>3 DEF Add
  <1>6. Match(<<>>, 0, 0, rx_info)
    BY <1>2, <1>3, <1>5 DEF Match
  <1>7. InStep
    BY <1>6 DEF InStep
  <1>8. Weight(DescsOf, <<>>) = 0
    BY PacketsWeigh, WeightEmpty
  <1>9. Counted
    BY <1>2, <1>8 DEF Counted
  <1> QED BY <1>1, <1>4, <1>7, <1>9 DEF RInv

(* Taking a packet that is passed over by as many slots as it has buffers. *)
LEMMA TakeKeepsR ==
    ASSUME RInv, HInv', NEW p \in Packets, al_eth_pkt_rx(p),
           next_to_clean' = Add(next_to_clean, p.descs),
           \A i \in Slots : i \notin Of(p) => rx_info'[i] = rx_info[i],
           at' \in {"loop", "refill"}, at' = "loop" => budget' > 0, budget' \in 0 .. Budget,
           mapped' \subseteq Frags, spoiled' \subseteq Frags,
           fault' \in {"none", "skb", "refill"}
    PROVE  RInv'
  <1> USE DEF al_eth_pkt_rx
  <1>1. PICK n \in Nat : n = p.descs /\ n > 0
    BY DEF Packets
  <1>2. /\ comp \in Seq(Packets) /\ comp # <<>> /\ desc \in Seq(Frags)
        /\ next_to_clean \in Slots /\ posted \in Nat /\ added = 0
        /\ next_to_clean = next_cdesc_idx /\ next_to_use = next_desc_idx
        /\ Match(desc, next_to_clean, next_to_use, rx_info)
    BY DEF RInv, TypeLoose, HInv, Placed, InStep, Counted, Refilling
  <1>3. /\ Tail(comp) \in Seq(Packets)
        /\ Weight(DescsOf, comp) = n + Weight(DescsOf, Tail(comp))
        /\ Weight(DescsOf, Tail(comp)) \in Nat
    <2>1. Tail(comp) \in Seq(Packets)
      BY <1>2, DelHead
    <2>2. Weight(DescsOf, comp) = DescsOf[Head(comp)] + Weight(DescsOf, Tail(comp))
      BY <1>2, PacketsWeigh, WeightTail
    <2>3. DescsOf[Head(comp)] = n
      BY <1>1 DEF DescsOf
    <2> QED BY <2>1, <2>2, <2>3, PacketsWeigh, WeightType
  <1>4. PICK w \in Nat : w = Weight(DescsOf, Tail(comp))
    BY <1>3
  <1>5. PICK m \in Nat : m = Len(desc)
    BY <1>2, LenProperties
  <1>6. m = (n + w) + posted /\ n <= m
    <2>1. Len(desc) = Weight(DescsOf, comp) + posted + added
      BY DEF RInv, Counted
    <2> QED BY <1>2, <1>3, <1>4, <1>5, <2>1
  <1>7. \A i \in Slots : i \notin {Add(next_to_clean, k) : k \in 0 .. n - 1}
                            => rx_info'[i] = rx_info[i]
    BY <1>1 DEF Of
  <1>8. /\ desc' \in Seq(Frags)
        /\ Len(desc') = Len(desc) - n
        /\ Match(desc', Add(next_to_clean, n), next_to_use, rx_info')
    <2>1. desc' = SubSeq(desc, n + 1, Len(desc))
      BY <1>1
    <2>2. n <= Len(desc)
      BY <1>5, <1>6
    <2>3. /\ SubSeq(desc, n + 1, Len(desc)) \in Seq(Frags)
          /\ Len(SubSeq(desc, n + 1, Len(desc))) = Len(desc) - n
          /\ Match(SubSeq(desc, n + 1, Len(desc)), Add(next_to_clean, n), next_to_use, rx_info')
      BY <1>2, <1>7, <2>2, MatchDrop
    <2> QED BY <2>1, <2>3
  <1>9. next_to_clean' = next_cdesc_idx' /\ next_cdesc_idx' \in Slots
    BY <1>1, <1>2, AddType
  <1>10. TypeLoose'
    BY <1>3, <1>8, <1>9 DEF RInv, TypeLoose
  <1>11. InStep'
    <2>1. Match(desc', next_to_clean', next_to_use', rx_info')
      BY <1>1, <1>8
    <2>2. Match(desc, next_to_clean, next_to_use, rx_info)'
      BY <2>1 DEF Match, Add
    <2> QED BY <1>2, <1>9, <2>2 DEF InStep
  <1>12. Counted'
    <2>1. Len(desc') = Weight(DescsOf, comp') + posted' + added'
      BY <1>2, <1>4, <1>5, <1>6, <1>8
    <2>2. added' = 0
      BY <1>2
    <2> QED BY <2>1, <2>2 DEF Counted
  <1> QED BY <1>10, <1>11, <1>12 DEF RInv

(* al_eth_rx_poll takes a packet: whatever happens to it, next_to_clean    *)
(* goes on by as many slots as the engine used.                            *)
LEMMA PacketKeepsR ==
    ASSUME Short, RInv, NEW p \in Packets, PollPacket(p)
    PROVE  RInv'
  <1>1. HInv'
    BY PacketKeepsH DEF RInv
  <1>2. /\ budget \in 0 .. Budget /\ at = "loop" /\ budget > 0
        /\ mapped \subseteq Frags /\ spoiled \subseteq Frags
        /\ fault \in {"none", "skb", "refill"} /\ small_copy_len < BufLen
        /\ small_copy_len \in Nat
    BY DEF PollPacket, PollError, PollCopy, PollCopyFails, PollFrags, PollFragsFails,
           al_eth_pkt_rx, RInv, TypeLoose, Counted, Short
  <1>3. ASSUME NextPacket
        PROVE  /\ at' \in {"loop", "refill"} /\ (at' = "loop" => budget' > 0)
               /\ budget' \in 0 .. Budget /\ fault' \in {"none", "skb", "refill"}
    BY <1>2, <1>3 DEF NextPacket
  <1>4. CASE PollError(p)
    <2>1. /\ al_eth_pkt_rx(p) /\ NextPacket
          /\ next_to_clean' = Add(next_to_clean, p.descs)
          /\ rx_info' = rx_info /\ mapped' = mapped /\ spoiled' = spoiled
      BY <1>4 DEF PollError, frags
    <2>2. /\ at' \in {"loop", "refill"} /\ (at' = "loop" => budget' > 0)
          /\ budget' \in 0 .. Budget /\ fault' \in {"none", "skb", "refill"}
          /\ mapped' \subseteq Frags /\ spoiled' \subseteq Frags
          /\ \A i \in Slots : i \notin Of(p) => rx_info'[i] = rx_info[i]
      BY <1>2, <1>3, <2>1
    <2> QED BY <1>1, <2>1, <2>2, TakeKeepsR
  <1>5. CASE PollCopy(p)
    <2>1. p.descs = 1
      <3>1. p.len <= small_copy_len
        BY <1>5 DEF PollCopy
      <3>2. /\ p.descs \in 1 .. MaxDescs /\ p.len \in Nat
            /\ (p.descs > 1 => p.len = BufLen)
        BY DEF Packets
      <3> QED BY <1>2, <3>1, <3>2
    <2>2. /\ al_eth_pkt_rx(p) /\ NextPacket
          /\ next_to_clean' = Add(next_to_clean, p.descs)
          /\ rx_info' = rx_info /\ mapped' = mapped /\ spoiled' = spoiled
      BY <1>5, <2>1 DEF PollCopy, frags
    <2>3. /\ at' \in {"loop", "refill"} /\ (at' = "loop" => budget' > 0)
          /\ budget' \in 0 .. Budget /\ fault' \in {"none", "skb", "refill"}
          /\ mapped' \subseteq Frags /\ spoiled' \subseteq Frags
          /\ \A i \in Slots : i \notin Of(p) => rx_info'[i] = rx_info[i]
      BY <1>2, <1>3, <2>2
    <2> QED BY <1>1, <2>2, <2>3, TakeKeepsR
  <1>6. CASE PollCopyFails(p)
    BY <1>1, <1>2, <1>6, TakeKeepsR DEF PollCopyFails, GiveUp
  <1>7. CASE PollFrags(p)
    <2>1. \A i \in Slots : i \notin Of(p) => rx_info'[i] = rx_info[i]
      BY <1>7 DEF PollFrags
    <2>2. mapped' \subseteq Frags /\ spoiled' \subseteq Frags
      BY <1>2, <1>7 DEF PollFrags
    <2>3. /\ al_eth_pkt_rx(p) /\ NextPacket
          /\ next_to_clean' = Add(next_to_clean, p.descs)
      BY <1>7 DEF PollFrags
    <2>4. /\ at' \in {"loop", "refill"} /\ (at' = "loop" => budget' > 0)
          /\ budget' \in 0 .. Budget /\ fault' \in {"none", "skb", "refill"}
      BY <1>3, <2>3
    <2> QED BY <1>1, <2>1, <2>2, <2>3, <2>4, TakeKeepsR
  <1>8. CASE PollFragsFails(p)
    <2>1. rx_info[next_to_clean] \in Frags
      <3>1. comp \in Seq(Packets) /\ comp # <<>> /\ desc \in Seq(Frags) /\ p = Head(comp)
        BY <1>8 DEF PollFragsFails, al_eth_pkt_rx, RInv, TypeLoose
      <3>2. PICK n \in Nat : n = p.descs /\ n > 0
        BY DEF Packets
      <3>3. Weight(DescsOf, comp) = n + Weight(DescsOf, Tail(comp))
        BY <3>1, <3>2, PacketsWeigh, WeightTail DEF DescsOf
      <3>4. PICK w \in Nat : w = Weight(DescsOf, Tail(comp))
        BY <3>1, DelHead, PacketsWeigh, WeightType
      <3>5. PICK m \in Nat : m = Len(desc)
        BY <3>1, LenProperties
      <3>6. m = (n + w) + posted + added /\ posted \in Nat /\ added \in Nat
        BY <3>3, <3>4, <3>5 DEF RInv, Counted, TypeLoose
      <3>7. 1 \in 1 .. m
        BY <3>2, <3>6
      <3>8. rx_info[Add(next_to_clean, 1 - 1)] = desc[1]
        BY <1>2, <3>5, <3>7 DEF RInv, InStep, Match
      <3>9. Add(next_to_clean, 1 - 1) = next_to_clean
        BY DEF Add, RInv, HInv, Placed, Slots
      <3>10. desc[1] \in Frags
        BY <3>1, <3>5, <3>7, ElementOfSeq
      <3> QED BY <3>8, <3>9, <3>10
    <2>2. mapped' \subseteq Frags /\ spoiled' \subseteq Frags
      BY <1>2, <1>8, <2>1 DEF PollFragsFails
    <2> QED BY <1>1, <1>2, <1>8, <2>2, TakeKeepsR DEF PollFragsFails
  <1> QED BY <1>4, <1>5, <1>6, <1>7, <1>8 DEF PollPacket

(* A buffer is added to both rings. *)
LEMMA RefillKeepsR ==
    ASSUME RInv, RefillKept \/ RefillNew
    PROVE  RInv'
  <1>1. HInv'
    BY RefillKeepsH DEF RInv
  <1>2. PICK f \in Frags :
           /\ BufferAdd(f) /\ Refilling /\ al_udma_available_get > 0
           /\ rx_info'[next_to_use] = f
           /\ \A i \in Slots : i # next_to_use => rx_info'[i] = rx_info[i]
           /\ mapped' \subseteq Frags
    <2>1. /\ next_to_use \in Slots /\ rx_info \in [Slots -> Frags \cup {None}]
          /\ mapped \subseteq Frags /\ held \subseteq Frags
      BY DEF RInv, HInv, Placed, TypeLoose
    <2>2. CASE RefillKept
      <3>1. rx_info[next_to_use] \in Frags
        BY <2>1, <2>2 DEF RefillKept
      <3> QED BY <2>1, <2>2, <3>1 DEF RefillKept
    <2>3. CASE RefillNew
      <3>1. NewFrag \in Frags
        BY <2>1, <2>3 DEF RefillNew, NewFrag
      <3> QED BY <2>1, <2>3, <3>1 DEF RefillNew
    <2> QED BY <2>2, <2>3
  <1> USE DEF BufferAdd
  <1>3. /\ desc \in Seq(Frags) /\ next_to_clean \in Slots /\ next_to_use \in Slots
        /\ posted \in Nat /\ added \in Nat
        /\ next_to_clean = next_cdesc_idx /\ next_to_use = next_desc_idx
        /\ Match(desc, next_to_clean, next_to_use, rx_info)
    BY <1>2 DEF RInv, TypeLoose, HInv, Placed, InStep, Refilling
  <1>4. (next_to_clean - (next_to_use + 1)) % Descs > 0
    BY <1>2, <1>3 DEF al_udma_available_get
  <1>5. Match(desc', next_to_clean, Add(next_to_use, 1), rx_info')
    <2>1. Match(Append(desc, f), next_to_clean, Add(next_to_use, 1), rx_info')
      BY <1>2, <1>3, <1>4, MatchAppend
    <2> QED BY <1>2, <2>1
  <1>6. InStep'
    <2>1. Match(desc', next_to_clean', next_to_use', rx_info')
      BY <1>2, <1>5
    <2>2. Match(desc, next_to_clean, next_to_use, rx_info)'
      BY <2>1 DEF Match, Add
    <2> QED BY <1>2, <1>3, <2>2 DEF InStep, Refilling
  <1>7. desc' \in Seq(Frags) /\ Len(desc') = Len(desc) + 1
    BY <1>2, <1>3, AddTail
  <1>8. TypeLoose'
    <2>1. next_desc_idx' \in Slots
      BY <1>2, <1>3, AddType
    <2> QED BY <1>2, <1>3, <1>7, <2>1 DEF RInv, TypeLoose
  <1>9. Counted'
    <2>1. PICK w \in Nat : w = Weight(DescsOf, comp)
      BY PacketsWeigh, WeightType DEF RInv, TypeLoose
    <2>2. PICK m \in Nat : m = Len(desc)
      BY <1>3, LenProperties
    <2>3. Len(desc') = Weight(DescsOf, comp') + posted' + added'
      <3>1. m = w + posted + added
        BY <2>1, <2>2 DEF RInv, Counted
      <3>2. posted' = posted /\ added' = added + 1 /\ comp' = comp
        BY <1>2
      <3> QED BY <1>3, <1>7, <2>1, <2>2, <3>1, <3>2
    <2>4. Refilling'
      BY <1>2 DEF Refilling
    <2> QED BY <2>3, <2>4 DEF Counted, Refilling
  <1> QED BY <1>1, <1>6, <1>8, <1>9 DEF RInv

(* The buffers are handed to the engine, which fills some. *)
LEMMA EngineKeepsR ==
    ASSUME RInv, RefillShort \/ RefillDone \/ \E p \in Packets : HwReceive(p)
    PROVE  RInv'
  <1>1. UNCHANGED <<rings, held, mapped, spoiled, budget, small_copy_len>>
    BY DEF RefillShort, RefillDone, Post, HwReceive, frags
  <1>2. HInv'
    BY <1>1 DEF RInv, HInv, Placed, OneSlotEach, rings
  <1>3. at # "off" /\ at' # "off"
    BY DEF RefillShort, RefillDone, Post, HwReceive, Refilling
  <1>4. InStep'
    BY <1>1, <1>3 DEF RInv, InStep, Match, Add, rings
  <1>5. PICK w \in Nat : w = Weight(DescsOf, comp)
    BY PacketsWeigh, WeightType DEF RInv, TypeLoose
  <1>6. PICK m \in Nat : m = Len(desc)
    BY LenProperties DEF RInv, TypeLoose
  <1>7. m = w + posted + added /\ posted \in Nat /\ added \in Nat
    BY <1>5, <1>6 DEF RInv, Counted, TypeLoose
  <1>8. CASE RefillShort \/ RefillDone
    <2>1. posted' = posted + added /\ added' = 0 /\ at' = "idle" /\ comp' = comp /\ irq' = irq
      BY <1>8 DEF RefillShort, RefillDone, Post
    <2>2. /\ napi' \in {"idle", "sched", "stuck"}
          /\ fault' \in {"none", "skb", "refill"}
      BY <1>8 DEF RefillShort, RefillDone, RInv, TypeLoose
    <2>3. TypeLoose'
      BY <1>1, <1>7, <2>1, <2>2 DEF RInv, TypeLoose, rings
    <2>4. Counted'
      <3>1. Len(desc') = Weight(DescsOf, comp') + posted' + added'
        BY <1>1, <1>5, <1>6, <1>7, <2>1 DEF rings
      <3> QED BY <2>1, <3>1 DEF Counted
    <2> QED BY <1>2, <1>4, <2>3, <2>4 DEF RInv
  <1>9. CASE \E p \in Packets : HwReceive(p)
    <2>1. PICK p \in Packets : HwReceive(p)
      BY <1>9
    <2> USE DEF HwReceive
    <2>2. PICK n \in Nat : n = p.descs
      BY DEF Packets
    <2>3. posted' = posted - n /\ n <= posted /\ posted' \in Nat /\ added' = added
      BY <1>7, <2>1, <2>2
    <2>4. comp \in Seq(Packets)
      BY DEF RInv, TypeLoose
    <2>5. comp' \in Seq(Packets)
      BY <2>1, <2>4, AddTail
    <2>6. Weight(DescsOf, comp') = w + n
      <3>1. Weight(DescsOf, Append(comp, p)) = Weight(DescsOf, comp) + DescsOf[p]
        BY <2>4, PacketsWeigh, WeightAppend
      <3>2. DescsOf[p] = n
        BY <2>2 DEF DescsOf
      <3> QED BY <1>5, <2>1, <3>1, <3>2
    <2>7. TypeLoose'
      BY <1>1, <1>7, <2>1, <2>3, <2>5 DEF RInv, TypeLoose, rings
    <2>8. Counted'
      <3>1. Len(desc') = Weight(DescsOf, comp') + posted' + added'
        BY <1>1, <1>6, <1>7, <2>3, <2>6 DEF rings
      <3> QED BY <2>1, <2>3, <3>1 DEF RInv, Counted, Refilling
    <2> QED BY <1>2, <1>4, <2>7, <2>8 DEF RInv
  <1> QED BY <1>8, <1>9

(* Steps that leave the rings and what is in flight alone *)
LEMMA QuietKeepsR ==
    ASSUME RInv,
           \/ Interrupt \/ PollBegin \/ PollEmpty
           \/ \E n \in CopyLens : al_eth_store_small_copy_len(n)
           \/ UNCHANGED vars
    PROVE  RInv'
  <1> USE DEF Interrupt, PollBegin, PollEmpty, al_eth_store_small_copy_len, vars
  <1>1. UNCHANGED <<rings, held, mapped, spoiled, added, posted, comp>>
    BY DEF frags
  <1>2. HInv'
    BY <1>1 DEF RInv, HInv, Placed, OneSlotEach, rings
  <1>3. TypeLoose'
    <2>1. /\ at' \in {"off", "fill", "idle", "loop", "refill"}
          /\ budget' \in 0 .. Budget /\ napi' \in {"idle", "sched", "stuck"}
      BY DEF RInv, TypeLoose
    <2>2. /\ small_copy_len' \in CopyLens /\ irq' \in BOOLEAN
          /\ fault' \in {"none", "skb", "refill"}
      BY DEF RInv, TypeLoose
    <2> QED BY <1>1, <2>1, <2>2 DEF RInv, TypeLoose, rings
  <1>4. at' = "off" <=> at = "off"
    OBVIOUS
  <1>5. InStep'
    BY <1>1, <1>4 DEF RInv, InStep, Match, Add, rings
  <1>6. ~Refilling' => added' = 0
    BY <1>1 DEF RInv, Counted, Refilling
  <1>7. at' = "loop" => budget' > 0
    BY DEF RInv, Counted
  <1>8. Counted'
    BY <1>1, <1>6, <1>7 DEF RInv, Counted, rings
  <1> QED BY <1>2, <1>3, <1>5, <1>8 DEF RInv

(* The interface goes down and up again: the rings are empty. *)
LEMMA DownUpKeepsR ==
    ASSUME RInv, al_eth_down \/ al_eth_up
    PROVE  RInv'
  <1>1. HInv'
    <2>1. [Next]_vars
      BY DEF Next
    <2> QED BY <2>1, NextKeepsH DEF RInv
  <1>2. <<>> \in Seq(Frags) /\ <<>> \in Seq(Packets) /\ Len(<<>>) = 0
    BY EmptySeq
  <1>3. Weight(DescsOf, <<>>) = 0
    BY PacketsWeigh, WeightEmpty
  <1>4. CASE al_eth_down
    <2> USE DEF al_eth_down
    <2>1. added' = 0
      BY <1>4 DEF RInv, Counted, Refilling
    <2>2. TypeLoose'
      BY <1>2, <1>4 DEF RInv, TypeLoose
    <2>3. InStep'
      BY <1>4 DEF InStep
    <2>4. Counted'
      BY <1>2, <1>3, <1>4, <2>1 DEF Counted, Refilling
    <2> QED BY <1>1, <2>2, <2>3, <2>4 DEF RInv
  <1>5. CASE al_eth_up
    <2> USE DEF al_eth_up
    <2>1. desc' = <<>> /\ at' = "fill"
      BY <1>5 DEF RInv, InStep
    <2>2. TypeLoose'
      <3>1. 0 \in Slots
        BY DEF Slots
      <3> QED BY <1>5, <3>1 DEF RInv, TypeLoose, frags
    <2>3. InStep'
      <3>1. 0 < Descs /\ Add(0, 0) = 0
        BY DEF Add
      <3>2. Match(desc', next_to_clean', next_to_use', rx_info')
        BY <1>2, <1>5, <2>1, <3>1 DEF Match
      <3>3. Match(desc, next_to_clean, next_to_use, rx_info)'
        BY <3>2 DEF Match, Add
      <3> QED BY <1>5, <2>1, <3>3 DEF InStep
    <2>4. Counted'
      BY <1>5, <2>1 DEF RInv, Counted, Refilling
    <2> QED BY <1>1, <2>2, <2>3, <2>4 DEF RInv
  <1> QED BY <1>4, <1>5

(* Every step keeps the rings in step. *)
LEMMA NextKeepsR == Short /\ RInv /\ [Next]_vars => RInv'
  <1> SUFFICES ASSUME Short, RInv, [Next]_vars PROVE RInv'
    OBVIOUS
  <1>1. CASE \E p \in Packets : PollPacket(p)
    BY <1>1, PacketKeepsR
  <1>2. CASE RefillKept \/ RefillNew
    BY <1>2, RefillKeepsR
  <1>3. CASE RefillShort \/ RefillDone \/ \E p \in Packets : HwReceive(p)
    BY <1>3, EngineKeepsR
  <1>4. CASE \/ Interrupt \/ PollBegin \/ PollEmpty
             \/ \E n \in CopyLens : al_eth_store_small_copy_len(n)
             \/ UNCHANGED vars
    BY <1>4, QuietKeepsR
  <1>5. CASE al_eth_down \/ al_eth_up
    BY <1>5, DownUpKeepsR
  <1> QED BY <1>1, <1>2, <1>3, <1>4, <1>5 DEF Next, PollPacket

(* The invariant of the two rings holds in every reachable state. *)
LEMMA RingInvariant ==
    ASSUME Short
    PROVE  Spec => []RInv
  BY InitRInv, NextKeepsR, PTL DEF Spec

(* TypeOK, for every size of the rings *)
THEOREM TypeCorrect ==
    ASSUME Short
    PROVE  Spec => []TypeOK
  BY RingInvariant, RingTypes, PTL

(* BuffersMatch: al_eth_rx_poll's next_to_clean and the UDMA queue's       *)
(* indices stay in step, so the buffers handed to the stack are those the  *)
(* packet is in, as long as copied packets have one buffer.                *)
THEOREM RingsInStep ==
    ASSUME Short
    PROVE  Spec => []BuffersMatch
  <1>1. RInv => BuffersMatch
    <2> SUFFICES ASSUME RInv, at # "off" PROVE BuffersMatch
      BY DEF BuffersMatch
    <2>1. /\ desc \in Seq(Frags) /\ next_to_clean \in Slots
          /\ next_to_clean = next_cdesc_idx /\ next_to_use = next_desc_idx
          /\ Match(desc, next_to_clean, next_to_use, rx_info)
      BY DEF RInv, TypeLoose, HInv, Placed, InStep
    <2>2. Len(desc) = (next_to_use - next_to_clean) % Descs
      BY <2>1, MatchLength
    <2>3. DOMAIN desc = 1 .. Len(desc)
      BY <2>1
    <2>4. \A k \in DOMAIN desc : rx_info[Add(next_to_clean, k - 1)] = desc[k]
      BY <2>1, <2>3 DEF Match
    <2> QED BY <2>1, <2>2, <2>4 DEF BuffersMatch
  <1> QED BY <1>1, RingInvariant, PTL

(* EngineWritesOwn: what the engine may write to is held by the driver and *)
(* mapped, or was kept by al_eth_rx_skb after unmapping it; never a buffer *)
(* of the stack.                                                           *)
THEOREM EngineStaysInside ==
    ASSUME Short
    PROVE  Spec => []EngineWritesOwn
  <1>1. RInv => EngineWritesOwn
    <2> SUFFICES ASSUME RInv, NEW k \in DOMAIN desc
                 PROVE  desc[k] \in held /\ desc[k] \in mapped \cup spoiled
      BY DEF EngineWritesOwn, Writable
    <2>1. desc \in Seq(Frags) /\ next_to_clean \in Slots
      BY DEF RInv, TypeLoose, HInv, Placed
    <2>2. k \in 1 .. Len(desc) /\ Len(desc) \in Nat /\ desc[k] \in Frags
      BY <2>1, ElementOfSeq, LenProperties
    <2>3. at # "off"
      BY <2>2, EmptySeq DEF RInv, InStep
    <2>4. rx_info[Add(next_to_clean, k - 1)] = desc[k]
      BY <2>2, <2>3 DEF RInv, InStep, Match
    <2>5. Add(next_to_clean, k - 1) \in Slots
      <3>1. k - 1 \in Nat
        BY <2>2
      <3> QED BY <2>1, <3>1, AddType
    <2> QED BY <2>2, <2>4, <2>5 DEF RInv, HInv, OneSlotEach
  <1> QED BY <1>1, RingInvariant, PTL
=============================================================================
