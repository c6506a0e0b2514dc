------------------------------ MODULE BlePackets ------------------------------
(***************************************************************************)
(* Messages over BLE (app/ble/nvr_ble.c): cut into packets of the MTU,     *)
(* put together again without message numbers, dispatched, and answered    *)
(* in packets.  One assembly serves whoever writes to the characteristic;  *)
(* packets get lost, and a phone may leave amid a message.  The phones cut *)
(* their messages the way nvr_ble_frame_encode does.                       *)
(*                                                                         *)
(* A message is its sender, its number and its length: its bytes are told  *)
(* apart by these.                                                         *)
(***************************************************************************)
EXTENDS Integers, Sequences, FiniteSets

CONSTANTS
  Phone,     \* phones that are connected
  Lengths,   \* lengths of messages and of answers
  FirstCap,  \* bytes in a first packet: MTU - BLE_FIRST_HDR
  ContCap,   \* bytes in any other packet: MTU - BLE_CONT_HDR
  MaxMsg,    \* BLE_MAX_MSG
  Modulus    \* the length field has two bytes: 2^16

BleAssumption ==
  /\ {FirstCap, ContCap, MaxMsg, Modulus} \subseteq Nat \ {0} /\ Lengths \subseteq Nat
  /\ MaxMsg < Modulus /\ FirstCap <= MaxMsg

VARIABLES
  phone,  \* the message of each phone, and its packets that are still to be sent
  asm,    \* asm_active, asm_total, asm_buf
  body,   \* the last message that was dispatched
  harm    \* history: a packet was lost that may spoil the message that is put together

bleVars == <<phone, asm, body, harm>>

Byte(m, i) == <<m.by, m.no, i>>
Bytes(m) == [i \in 1 .. m.len |-> Byte(m, i)]
Empty == [active |-> FALSE, total |-> 0, buf |-> <<>>]

\* Packets after the first one.
Conts(len) == IF len <= FirstCap THEN 0 ELSE (len - FirstCap + ContCap - 1) \div ContCap
AtMost(a, b) == IF a < b THEN a ELSE b

\* The first byte of the k-th packet, the first packet being the 0-th.
From(k) == IF k = 0 THEN 1 ELSE FirstCap + (k - 1) * ContCap + 1
Upto(k, len) == AtMost(len, FirstCap + k * ContCap)

\* nvr_ble_frame_encode.
Packets(m) ==
  [k \in 1 .. Conts(m.len) + 1 |->
     [type |-> IF k = 1 THEN "first" ELSE IF k = Conts(m.len) + 1 THEN "last" ELSE "mid",
      total |-> IF k = 1 THEN m.len % Modulus ELSE 0,
      data |-> SubSeq(Bytes(m), From(k - 1), Upto(k - 1, m.len))]]

BleInit ==
  /\ phone = [p \in Phone |-> [msg |-> [by |-> p, no |-> 0, len |-> 0], rest |-> <<>>]]
  /\ asm = Empty /\ body = [is |-> FALSE, bytes |-> <<>>]
  /\ harm = FALSE

-----------------------------------------------------------------------------
(* nvr_ble_on_rx, as a function of the assembly and a packet. *)

Restart(a, total, data) == [active |-> TRUE, total |-> total, buf |-> data]

Added(a, pkt) ==
  IF pkt.type = "first" THEN (IF pkt.total > MaxMsg THEN Empty ELSE Restart(a, pkt.total, pkt.data))
  ELSE IF a.active THEN [a EXCEPT !.buf = @ \o pkt.data] ELSE a

\* bug: the last packet ends a message whatever its length
EndsAny(a, pkt) == a.active /\ (pkt.type = "last" \/ Len(a.buf) >= a.total)

Ends(a, pkt) == a.active /\ Len(a.buf) >= a.total

\* The body of a message is cut to its length.
Body(a) == SubSeq(a.buf, 1, AtMost(Len(a.buf), a.total))

\* A packet that arrives: it is added, and a message that is complete is dispatched.  The answer goes out
\* in Packets of its own, as many of them as notify takes; that changes nothing here.
Arrives(pkt) ==
  LET a == Added(asm, pkt) IN
  IF ~Ends(a, pkt) THEN asm' = a /\ UNCHANGED body
  ELSE asm' = Empty /\ body' = [is |-> TRUE, bytes |-> Body(a)]

-----------------------------------------------------------------------------
Amid(p) == phone[p].rest # <<>>

\* A phone begins a message; two in a row have different numbers.  A peripheral has one central at a time:
\* a phone writes after the other one is done, or is gone.  Nobody begins after harm: a bound, what can
\* be said of messages ends there.
Begin(p, n) ==
  LET m == [by |-> p, no |-> 1 - phone[p].msg.no, len |-> n] IN
  /\ ~harm /\ \A q \in Phone : ~Amid(q)
  /\ phone' = [phone EXCEPT ![p] = [msg |-> m, rest |-> Packets(m)]]
  /\ UNCHANGED <<asm, body, harm>>

Sent(p) == phone' = [phone EXCEPT ![p].rest = Tail(@)]

Transmit(p) == Amid(p) /\ Sent(p) /\ Arrives(Head(phone[p].rest)) /\ UNCHANGED harm

\* While a message is being put together, the loss of the first packet of the next one, or of a packet of
\* one whose length the field does not hold, is not noticed.
Unnoticed(p) == asm.active /\ (Head(phone[p].rest).type = "first" \/ phone[p].msg.len >= Modulus)

Lose(p) == Amid(p) /\ Sent(p) /\ harm' = (harm \/ Unnoticed(p)) /\ UNCHANGED <<asm, body>>

\* The phone goes out of reach.
Leave(p) == Amid(p) /\ phone' = [phone EXCEPT ![p].rest = <<>>] /\ UNCHANGED <<asm, body, harm>>

BleNext == \E p \in Phone : Transmit(p) \/ Lose(p) \/ Leave(p) \/ \E n \in Lengths : Begin(p, n)

BleSpec == BleInit /\ [][BleNext]_bleVars

-----------------------------------------------------------------------------
(* Properties. *)

\* The assembly of nvr_ble.c and the packets on the air.
BleTypeOK ==
  /\ asm.total \in 0 .. MaxMsg /\ (asm.active => Len(asm.buf) < asm.total)
  /\ harm \in BOOLEAN

(***************************************************************************)
(* A message is dispatched whole or not at all: what is dispatched is all  *)
(* the bytes of one message, whatever packets were lost and whoever left   *)
(* before.  Exceptions: a first packet that is lost while a message is     *)
(* unfinished, to which the rest of its own is then added; and a length    *)
(* the field does not hold: such a message is cut to what is left of its   *)
(* length, and may lose a packet before that.                              *)
(***************************************************************************)
WholeOrNothing ==
  body.is /\ ~harm =>
    \E p \in Phone, no \in {0, 1}, n \in Lengths :
      \/ n < Modulus /\ body.bytes = Bytes([by |-> p, no |-> no, len |-> n])
      \/ n >= Modulus /\ body.bytes = SubSeq(Bytes([by |-> p, no |-> no, len |-> n]), 1, n % Modulus)

\* What holds of the assembly at every moment: what is dispatched is one whole message.
BleSafe == BleTypeOK /\ WholeOrNothing
=============================================================================
