--------------------------- MODULE CompletionFifo ---------------------------
(***************************************************************************)
(* What a UDMA completion ring promises to the driver above it: an         *)
(* unbounded first-in first-out channel of completion words.  The driver   *)
(* takes either exactly one whole packet (al_udma_cdesc_packet_get) or     *)
(* everything written so far (al_udma_cdesc_get_all), and gives it back    *)
(* with al_udma_cdesc_ack before it takes more.                            *)
(***************************************************************************)
EXTENDS Integers, Sequences

VARIABLES
    whole,  \* TRUE: the driver takes packets, FALSE: everything; never changes
    chan,   \* words written by the device and not taken
    out     \* words in the hands of the driver

fifoVars == <<whole, chan, out>>

Word == [first : BOOLEAN, last : BOOLEAN, err : BOOLEAN]

Init == whole \in BOOLEAN /\ chan = <<>> /\ out = <<>>

(* The device appends a word.  A packet begins where the previous ended. *)
Write(w) ==
    /\ w.err => w.last
    /\ chan' = Append(chan, w)
    /\ chan # <<>> => (w.first <=> chan[Len(chan)].last)
    /\ UNCHANGED <<whole, out>>

IsPacket(n) == chan[n].last /\ \A k \in 1 .. n - 1 : ~chan[k].last

Take(n) ==
    /\ out = <<>>
    /\ whole => IsPacket(n)
    /\ ~whole => n = Len(chan)
    /\ out' = SubSeq(chan, 1, n)
    /\ chan' = SubSeq(chan, n + 1, Len(chan))
    /\ UNCHANGED whole

Ack ==
    /\ out # <<>>
    /\ out' = <<>>
    /\ UNCHANGED <<whole, chan>>

Next ==
    \/ \E w \in Word : Write(w)
    \/ \E n \in 1 .. Len(chan) : Take(n)
    \/ Ack

Spec == Init /\ [][Next]_fifoVars
=============================================================================
