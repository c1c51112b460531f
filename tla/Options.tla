------------------------------- MODULE Options --------------------------------
(***************************************************************************)
(* The command line (main.c): what each option does to the configuration,  *)
(* and what ends the program.  An option is a record with its letter, o,   *)
(* and its argument; the argument of -u, -b and -m is a sequence of        *)
(* sub-options, records with a key, k, and a value, v, if one was given.   *)
(***************************************************************************)
EXTENDS Integers, SequencesExt

CONSTANT MaxVcan   \* MAX_NO_OF_VCAN_CHANNELS

\* end: "" while parsing, then how the program ended.  optr: how often -r was given.
\* external_clk: -1 for the internal clock of the F81601.
Opt0 == [end |-> "", optr |-> 0, restart_ms |-> 50, optR |-> FALSE, base |-> 0, d |-> {}, e |-> {},
         u |-> <<>>, b |-> <<>>, L |-> FALSE, external_clk |-> -1, flags |-> {}]

Ends(o, how) == [o EXCEPT !.end = how]

\* -r and -R
SetRestart(o, a) == [o EXCEPT !.optr = @ + 1, !.restart_ms = a.n]
SetErrorCount(o, a) == [o EXCEPT !.optR = TRUE]

\* -d with a capability disables only that; -1 stands for the whole device.
DisableDevice(o, a) ==
  [o EXCEPT !.d = @ \cup {[card |-> a.card, cap |-> IF "cap" \in DOMAIN a THEN a.cap ELSE -1]}]
EnableCap(o, a) == [o EXCEPT !.e = @ \cup {[card |-> a.card, cap |-> a.cap]}]

\* -U
SetBase(o, a) == IF a.n < 0 THEN Ends(o, "failure") ELSE [o EXCEPT !.base = a.n]

\* A sub-option that must have a value.
Valued(c, s) == IF "v" \in DOMAIN s THEN [c EXCEPT ![s.k] = s.v] ELSE [c EXCEPT !.ok = FALSE]

Channel0 == [ok |-> TRUE, id |-> -1, rx |-> 1, tx |-> 1, mid |-> -1]

\* One sub-option of -u; unknown ones are skipped, and s and x exclude each other.
ChannelSub(c, s) ==
  IF ~c.ok \/ s.k \notin {"id", "rx", "tx", "s", "x"} THEN c
  ELSE IF s.k \in {"id", "rx", "tx"} THEN Valued(c, s)
  ELSE IF c.mid # -1 THEN [c EXCEPT !.ok = FALSE]
  ELSE [c EXCEPT !.mid = IF s.k = "x" THEN 1 ELSE 0]

Channel(subs) == FoldLeft(ChannelSub, Channel0, subs)

\* -u: the last one given for an id counts.
SetChannel(o, a) ==
  LET c == Channel(a.subs)
  IN  IF c.ok /\ c.id >= 0 THEN [o EXCEPT !.u = (c.id :> c) @@ @] ELSE Ends(o, "failure")

Bitrate0 == [ok |-> TRUE, id |-> -1, freq |-> 0, bprm |-> 0, ts1 |-> 0, ts2 |-> 0, sjw |-> 0,
             btr0 |-> 0, btr1 |-> 0]

\* One sub-option of -b.  The unit of a frequency is what units[] holds when it is
\* tested, which is anything if the argument has none.
BitrateSub(c, s) ==
  IF ~c.ok \/ s.k \notin DOMAIN Bitrate0 \ {"ok"} THEN c
  ELSE IF s.k = "freq" /\ "v" \in DOMAIN s
  THEN [c EXCEPT !.freq = s.v * (CASE s.unit = "k" -> 1000 [] s.unit = "m" -> 1000000
                                   [] s.unit \notin {"k", "m"} -> 1)]
  ELSE Valued(c, s)

BitrateEntry(subs) == FoldLeft(BitrateSub, Bitrate0, subs)

\* -b
SetBitrate(o, a) ==
  LET c == BitrateEntry(a.subs)
  IN  IF c.ok /\ c.id >= 0 THEN [o EXCEPT !.b = (c.id :> c) @@ @] ELSE Ends(o, "failure")

\* -L
SetVirtual(o, a) == IF a.n > MaxVcan THEN Ends(o, "failure") ELSE [o EXCEPT !.L = TRUE]

\* -m
ModuleSub(c, s) == IF ~c.ok \/ s.k # "f81601_ex_clk" THEN c ELSE Valued(c, s)

SetModule(o, a) ==
  LET c == FoldLeft(ModuleSub, [ok |-> TRUE, f81601_ex_clk |-> o.external_clk], a.subs)
  IN  IF c.ok THEN [o EXCEPT !.external_clk = c.f81601_ex_clk] ELSE Ends(o, "failure")

\* The options without an argument: some print and end the program at once.
SetFlag(o, a) ==
  IF a.o \in {"V", "C", "w", "c", "?", "h"} THEN Ends(o, "exit")
  ELSE [o EXCEPT !.flags = @ \cup {a.o}]

\* One turn of the getopt loop.
ApplyOption(o, a) ==
  CASE a.o = "r" -> SetRestart(o, a)
    [] a.o = "R" -> SetErrorCount(o, a)
    [] a.o = "d" -> DisableDevice(o, a)
    [] a.o = "e" -> EnableCap(o, a)
    [] a.o = "U" -> SetBase(o, a)
    [] a.o = "u" -> SetChannel(o, a)
    [] a.o = "b" -> SetBitrate(o, a)
    [] a.o = "L" -> SetVirtual(o, a)
    [] a.o = "m" -> SetModule(o, a)
    [] a.o \notin {"r", "R", "d", "e", "U", "u", "b", "L", "m"} -> SetFlag(o, a)

\* After the loop: -i ends the program; a repeated -r and ids below the base are
\* refused, though the probes still run.
StartAllowed(o) ==
  o.optr <= 1 /\ \A id \in DOMAIN o.u \cup DOMAIN o.b : id >= o.base
=============================================================================
