------------------------------ MODULE FrameTools ------------------------------
(***************************************************************************)
(* Which messages reach a client and what the tools make of them: the      *)
(* filter of a file, canread.c, and the way of a message from one tool to  *)
(* another through the conversions of FrameCodec.                          *)
(***************************************************************************)
EXTENDS FrameCodec, SequencesExt

Bit(x, b) == (x \div 2 ^ b) % 2 = 1

\* The client is served if its file's filter has every bit of the identifier.
Accepts(f, m) ==
  /\ \A b \in 0 .. 2 : Bit(m.mid.hi, b) => Bit(f.mfilter.hi, b)
  /\ \A b \in 0 .. 28 : Bit(m.mid.id, b) => Bit(f.mfilter.id, b)

\* canread -n size: what it reads in pieces of that size it prints as strings, which end
\* at a byte 0.
canread(bytes, size) ==
  LET Piece(k) == SubSeq(bytes, size * (k - 1) + 1, size * k)
      Zeros(p) == {i \in DOMAIN p : p[i] = 0}
      Printed(p) == IF Zeros(p) = {} THEN p
                    ELSE SubSeq(p, 1, (CHOOSE i \in Zeros(p) : \A j \in Zeros(p) : i <= j) - 1)
      Show(out, k) == out \o Printed(Piece(k))
  IN  FoldLeft(Show, <<>>, [k \in 1 .. Len(bytes) \div size |-> k])

-----------------------------------------------------------------------------

\* The 11 bits of a standard identifier as a filter.
StandardFilter == [hi |-> 0, id |-> 2047 * 2 ^ 18]

\* A message one tool sends another one prints: on the bus, and in the echo with -E.
RoundTrip(id, ext, data) ==
  LET m == cansend(id, ext, data)
      sent == [ext |-> ext, id |-> id, len |-> Len(data), dat |-> Pad(data)]
      got == Received(m, 255)
      Whole2 == SubSeq(data, 1, 2 * (Len(data) \div 2))
  IN  /\ candump(got) = [sent EXCEPT !.id = IF ext THEN id ELSE id % 2048]
      /\ ext \/ id < 2 ^ 14 => candump(netif_rx(netif_tx(m), TRUE, TRUE)) = sent
      /\ netif_rx(netif_tx(m), TRUE, FALSE) = NoMsg
      /\ get_mid(set_mid(File0("tx", ext), m.mid).file).v = m.mid
      /\ write_frame_raw(File0("tx", ext), m).sent = <<m>>
      /\ write_frame_raw(File0("rx", ext), m).sent = <<>>
      /\ Accepts(File0("rx", ext), got)
      /\ canread(data, 1) = SelectSeq(data, LAMBDA b : b # 0)
      /\ canread(data, 2) = Whole2 <=> 0 \notin Range(Whole2)
      /\ ~ext => Accepts(set_mfilter(File0("rx", FALSE), StandardFilter).file, got)
=============================================================================
