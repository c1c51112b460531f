------------------------------ MODULE FrameCodec ------------------------------
(***************************************************************************)
(* What becomes of a message between two clients: the tools (cansend.c,    *)
(* candump.c, commands.h), the settings of a file (io_devctl) and a write  *)
(* to it (io_write), the conversion to a frame (netif_tx) and to registers *)
(* (sja1000_start_xmit), and the way back (sja1000_rx, netif_rx).  The     *)
(* functions are pure.                                                     *)
(*                                                                         *)
(* A 32-bit identifier is [hi, id]: bits 29 to 31, which a can_frame uses  *)
(* as flags (ERR, RTR, EFF), and the 29 bits below.  Data is a sequence of *)
(* 8 bytes.  Milliseconds are counted modulo Wrap.                         *)
(***************************************************************************)
EXTENDS Integers, Sequences

CONSTANTS Ids,       \* identifiers
          Data,      \* data, sequences of up to 8 bytes
          Stamps,    \* milliseconds
          LenWrap,   \* where can_msg.len, of the QNX header can_dcmd.h, starts again: 2 to its width
          Wrap       \* 2^32: where a count of milliseconds starts again

ASSUME LenWrapAssumption == LenWrap \in Nat /\ LenWrap >= 8
ASSUME WrapAssumption == Wrap \in Nat \ {0}

\* 2^k, by which k bits are shifted.
Pow5 == 32
Pow13 == 8192
Pow18 == 262144
Pow21 == 2097152
Pow29 == 536870912

Byte == 0 .. 255
Zero8 == [i \in 1 .. 8 |-> 0]
Pad(data) == [i \in 1 .. 8 |-> IF i <= Len(data) THEN data[i] ELSE 0]

\* x << 18 and x >> 18 in 32 bits.
Shl18(x) == [hi |-> (x \div 2048) % 8, id |-> (x % 2048) * Pow18]
Shr18(x) == x.hi * 2048 + x.id \div Pow18

-----------------------------------------------------------------------------
(* Clients                                                                  *)

\* A standard id is put in bits 18 to 28, whatever its size.
cansend(id, ext, data) ==
  [mid |-> IF ext THEN [hi |-> 0, id |-> id] ELSE Shl18(id), ext |-> ext,
   len |-> Len(data), dat |-> Pad(data)]

candump(m) == [ext |-> m.ext, id |-> IF m.ext THEN m.mid.id ELSE Shr18(m.mid),
               len |-> m.len, dat |-> m.dat]

-----------------------------------------------------------------------------
(* The file: settings that all its clients share, and write()                *)

\* As register_netdev makes it, with -x or ext of -u; kind is "rx" or "tx".
File0(kind, ext) == [kind |-> kind, ext |-> ext, mid |-> [hi |-> 0, id |-> 0], prio |-> 0,
                     latency |-> 0, mfilter |-> [hi |-> 7, id |-> Pow29 - 1]]

Done(f, status, v, sent) == [file |-> f, status |-> status, v |-> v, sent |-> sent]

\* The two commands that send answer EIO on an rx file.
WRITE_CANMSG_EXT(f, m) == IF f.kind = "rx" THEN Done(f, "EIO", m, <<>>) ELSE Done(f, "EOK", m, <<m>>)
TX_FRAME_RAW(f, m) == IF f.kind = "rx" THEN Done(f, "EIO", m, <<>>) ELSE Done(f, "EOK", m, <<m>>)

\* No error is ever recorded, and the debug commands only log.
ERROR(f) == Done(f, "EOK", 0, <<>>)
DEBUG_INFO(f, v) == Done(f, "EOK", v, <<>>)

\* The commands that do not receive: the file, the status, what is returned and the
\* messages put in the tx_queue.  A priority is stored and refused.
io_devctl(f, cmd, v) ==
  CASE cmd = "SET_MID"     -> Done([f EXCEPT !.mid = v], "EOK", v, <<>>)
    [] cmd = "SET_MFILTER" -> Done([f EXCEPT !.mfilter = v], "EOK", v, <<>>)
    [] cmd = "SET_LATENCY" -> Done([f EXCEPT !.latency = v], "EOK", v, <<>>)
    [] cmd = "SET_PRIO"    -> Done([f EXCEPT !.prio = v], "ENOTSUP", v, <<>>)
    [] cmd = "GET_MID"     -> Done(f, "EOK", f.mid, <<>>)
    [] cmd = "GET_MFILTER" -> Done(f, "EOK", f.mfilter, <<>>)
    [] cmd = "GET_PRIO"    -> Done(f, "ENOTSUP", v, <<>>)
    [] cmd = "ERROR"       -> ERROR(f)
    [] cmd \in {"DEBUG_INFO", "DEBUG_INFO2"} -> DEBUG_INFO(f, v)
    [] cmd = "WRITE_CANMSG_EXT" -> WRITE_CANMSG_EXT(f, v)
    [] cmd = "TX_FRAME_RAW" -> TX_FRAME_RAW(f, v)
    [] OTHER               -> Done(f, "ENOSYS", v, <<>>)

\* commands.h
NoMsg == [none |-> TRUE]
write_frame_raw(f, m) == IF m = NoMsg THEN Done(f, "EFAULT", m, <<>>) ELSE io_devctl(f, "TX_FRAME_RAW", m)
set_latency_limit_ms(f, v) == io_devctl(f, "SET_LATENCY", v)
set_mid(f, v) == io_devctl(f, "SET_MID", v)
get_mid(f) == io_devctl(f, "GET_MID", 0)
set_mfilter(f, v) == io_devctl(f, "SET_MFILTER", v)
get_mfilter(f) == io_devctl(f, "GET_MFILTER", 0)

\* Mutant: a last piece that is full is taken for an empty one.
PieceLenModulo(n, i) ==
  LET left == (n - 8 * i) % LenWrap IN IF left > 8 THEN 8 ELSE left % 8

\* The length of the message that starts at byte 8i of n: the bytes left go through
\* len, which is narrower than nbytes, before they are compared with 8.
PieceLen(n, i) == LET left == (n - 8 * i) % LenWrap IN IF left > 8 THEN 8 ELSE left

\* The messages of one write.  (The bytes of dat behind len, left by the message
\* before, are not copied by netif_tx.)
io_write(f, bytes) ==
  IF f.kind = "rx" THEN <<>> ELSE
  [k \in 1 .. ((Len(bytes) + 7) \div 8) |->
     LET len == PieceLen(Len(bytes), k - 1)
     IN  [mid |-> f.mid, ext |-> f.ext, len |-> len,
          dat |-> Pad(SubSeq(bytes, 8 * k - 7, 8 * k - 8 + len))]]

-----------------------------------------------------------------------------
(* To the bus                                                               *)

\* The can_frame: an extended identifier brings its own RTR and ERR bits.  (A client's len
\* above 8, which runs past dat and data, is not modelled.)
netif_tx(m) ==
  [eff |-> m.ext, rtr |-> m.ext /\ (m.mid.hi \div 2) % 2 = 1, err |-> m.ext /\ m.mid.hi % 2 = 1,
   id |-> IF m.ext THEN m.mid.id ELSE Shr18(m.mid), len |-> m.len,
   data |-> Pad(SubSeq(m.dat, 1, m.len))]

\* The transmit buffer: frame information, identifier and data registers.  len8_dlc is
\* not enabled, so the DLC is the length.  (That can_dev_dropped_skb may drop the frame
\* first is TxPath!DroppedSkb.)
sja1000_start_xmit(cf) ==
  [ff |-> cf.eff, rtr |-> cf.rtr, dlc |-> cf.len, data |-> SubSeq(cf.data, 1, cf.len),
   regs |-> IF cf.eff
            THEN <<(cf.id \div Pow21) % 256, (cf.id \div Pow13) % 256, (cf.id \div Pow5) % 256,
                   (cf.id % 32) * 8>>
            ELSE <<(cf.id \div 8) % 256, (cf.id % 8) * 32>>]

\* What the chips do: a remote frame has no data, the registers behind the data of a
\* frame keep what they held.
Bus(r, junk) ==
  [r EXCEPT !.data = [i \in 1 .. 8 |-> IF i <= Len(@) /\ ~r.rtr THEN @[i] ELSE junk]]

-----------------------------------------------------------------------------
(* From the bus                                                             *)

\* Mutant: the last identifier register is not shifted far enough.
sja1000_rx_short(r) ==
  LET len == IF r.dlc > 8 THEN 8 ELSE r.dlc
  IN  [eff |-> r.ff, rtr |-> r.rtr, err |-> FALSE, len |-> len,
       id |-> IF r.ff
              THEN r.regs[1] * Pow21 + r.regs[2] * Pow13 + r.regs[3] * Pow5 + r.regs[4] \div 8
              ELSE r.regs[1] * 8 + r.regs[2] \div 16,
       data |-> IF r.rtr THEN Zero8 ELSE Pad(SubSeq(r.data, 1, len))]

sja1000_rx(r) ==
  LET len == IF r.dlc > 8 THEN 8 ELSE r.dlc
  IN  [eff |-> r.ff, rtr |-> r.rtr, err |-> FALSE, len |-> len,
       id |-> IF r.ff
              THEN r.regs[1] * Pow21 + r.regs[2] * Pow13 + r.regs[3] * Pow5 + r.regs[4] \div 8
              ELSE r.regs[1] * 8 + r.regs[2] \div 32,
       data |-> IF r.rtr THEN Zero8 ELSE Pad(SubSeq(r.data, 1, len))]

\* The message for the clients: none of an error frame, of a remote frame, or of an
\* echo without -E.
netif_rx(cf, echo, optE) ==
  IF cf.err \/ cf.rtr \/ (echo /\ ~optE) THEN NoMsg
  ELSE [mid |-> IF cf.eff THEN [hi |-> 0, id |-> cf.id] ELSE Shl18(cf.id), ext |-> cf.eff,
        len |-> cf.len, dat |-> cf.data]

-----------------------------------------------------------------------------
(* Timestamps                                                               *)

\* user_timestamp and user_timestamp_time
NoTimestamp == [user |-> 0, time |-> 0]

\* CAN_DEVCTL_SET_TIMESTAMP makes two stores, between which the IRQ thread may read.
StoreTimestamp(k, ts) == [k EXCEPT !.user = ts % Wrap]
StoreTime(k, now) == [k EXCEPT !.time = now % Wrap]

\* netif_rx and CAN_DEVCTL_GET_TIMESTAMP: user_timestamp_time is read twice, to test it
\* and to subtract it.
Timestamp(test, user, time, optt, now) ==
  IF optt THEN user ELSE IF test # 0 THEN (user + now - time) % Wrap ELSE now % Wrap

-----------------------------------------------------------------------------

Received(m, junk) == netif_rx(sja1000_rx(Bus(sja1000_start_xmit(netif_tx(m)), junk)), FALSE, FALSE)

\* Timestamp v was set at a, then w at b, while the IRQ thread stamps a frame at now: it
\* reads the time to test it, the timestamp, and the time again, each before or after
\* the store.  The stamp is the one due by the timestamp read, wrong by the time between
\* the two settings if the time read belongs to the other; or the clock's, if the time
\* tested is 0.
Stamped(optt, v, a, w, b, now) ==
  LET old == StoreTime(StoreTimestamp(NoTimestamp, v), a)
      new == StoreTime(StoreTimestamp(old, w), b)
      Seen(after) == IF after THEN new ELSE old
  IN  \A t, u, c \in BOOLEAN :
        LET ts == Timestamp(Seen(t).time, Seen(u).user, Seen(c).time, optt, now)
            due == IF u THEN w + now - b ELSE v + now - a
            late == IF u = c THEN 0 ELSE IF u THEN b - a ELSE a - b
        IN  IF optt THEN ts = (IF u THEN w ELSE v) % Wrap
            ELSE IF (IF t THEN b ELSE a) % Wrap = 0 THEN ts = now % Wrap
            ELSE (ts - due) % Wrap = late % Wrap
=============================================================================
