----------------------------- MODULE AdsbDecoder -----------------------------
(* The decoder of rtl_adsb (rtl_adsb.c): one buffer of magnitudes, counted   *)
(* from 0, is turned in place into marks and bits and read for messages.     *)
EXTENDS Integers, SequencesExt, FiniteSetsExt

CONSTANTS Short, Long,   \* short_frame and long_frame, 56 and 112 in the code
          AllowedErrors  \* allowed_errors

ASSUME AdsbAssumption ==
  Short \in 10 .. Long /\ Long \in Nat /\ AllowedErrors \in Nat \ {0}

PreambleLen == 16
High == {0, 2, 7, 9}
MESSAGEGO == 253
OVERWRITE == 254
BADSAMPLE == 255

(* single_manchester: a pair of samples is a bit, believed when it agrees    *)
(* with the pair before it as far as the quality demands.                    *)
SingleManchester(q, a, b, c, d) ==
  LET bit == c > d  before == a > b
      ok == CASE q = 0 -> TRUE
              [] q = 5 -> ~(bit /\ before /\ b > c) /\ ~(~bit /\ ~before /\ b < c)
              [] q = 10 -> CASE bit /\ before   -> c > b
                             [] bit /\ ~before  -> d < b
                             [] ~bit /\ before  -> d > b
                             [] OTHER           -> c < b
              [] OTHER -> CASE bit /\ before  -> c > b /\ d < a
                            [] bit /\ ~before -> c > a /\ d < b
                            [] ~bit /\ before -> c < a /\ d > b
                            [] OTHER          -> c < b /\ d > a
  IN  IF ~ok THEN BADSAMPLE ELSE IF bit THEN 1 ELSE 0

(* preamble(): each sample is weighed against the last one of the other kind.*)
Preamble(buf, i) ==
  \A k \in 0 .. PreambleLen - 1 :
    LET high == {j \in High : j <= k}
        low == {j \in 0 .. k : j \notin High}
        last(s) == CHOOSE j \in s : \A n \in s : n <= j
    IN  buf[i + last(high)] > IF low = {} THEN 0 ELSE buf[i + last(low)]

(* manchester(), one turn of its loops at a time: the search for a preamble  *)
(* (which the last samples of the buffer skip), then pairs of samples until  *)
(* the encoding breaks.  i2 is where the next bit goes.                      *)
Start(buf) ==
  [buf |-> buf, i |-> 0, i2 |-> 0, a |-> 0, b |-> 0, errors |-> 0, seek |-> TRUE]

SeekStep(s, len) ==
  LET found == {j \in s.i .. len - PreambleLen - 1 : Preamble(s.buf, j)}
      first == Min(found)
      from == IF found # {} THEN first + PreambleLen
              ELSE Max({s.i, len - PreambleLen})
      next == [s EXCEPT !.i = from, !.i2 = from, !.errors = 0, !.seek = FALSE]
  IN  IF found = {} THEN next
      ELSE [next EXCEPT !.a = s.buf[first], !.b = s.buf[first + 1],
                        !.buf = [k \in DOMAIN @ |-> IF k \in first .. from - 1
                                                    THEN MESSAGEGO ELSE @[k]]]

(* Mutant: the bit is written before the samples are overwritten.            *)
Marked_Swapped(s, value) ==
  [s.buf EXCEPT ![s.i2] = value, ![s.i] = OVERWRITE, ![s.i + 1] = OVERWRITE]

Marked(s, value) ==
  [[s.buf EXCEPT ![s.i] = OVERWRITE, ![s.i + 1] = OVERWRITE] EXCEPT ![s.i2] = value]

BitStep(s, q) ==
  LET bit == SingleManchester(q, s.a, s.b, s.buf[s.i], s.buf[s.i + 1])
      a == s.buf[s.i]  b == s.buf[s.i + 1]
      bad == bit = BADSAMPLE
      value == IF ~bad THEN bit ELSE IF a > b THEN 1 ELSE 0
  IN  IF bad /\ s.errors >= AllowedErrors
      THEN [s EXCEPT !.buf[s.i2] = BADSAMPLE, !.a = a, !.b = b,
                     !.errors = @ + 1, !.seek = TRUE]
      ELSE [s EXCEPT !.buf = Marked(s, value), !.i = @ + 2, !.i2 = @ + 1,
                     !.a = IF bad THEN 0 ELSE a, !.b = IF bad THEN 65535 ELSE b,
                     !.errors = IF bad THEN @ + 1 ELSE @]

Manchester(buf, len, q) ==
  LET run[n \in 0 .. len] ==
        IF n = 0 THEN Start(buf)
        ELSE LET s == run[n - 1]
             IN  IF s.seek /\ s.i < len - 1 THEN SeekStep(s, len)
                 ELSE IF ~s.seek /\ s.i < len - 1 THEN BitStep(s, q) ELSE s
  IN  run[len].buf

(* messages(): what is not above 1 is a bit.  The first eight tell whether   *)
(* the frame is a long one; eight zeros are none.                            *)
Messages(buf, len) ==
  LET bits(i, n) == {k \in i .. i + n - 1 : k >= len \/ buf[k] > 1} = {}
      take(i, n) == CHOOSE k \in 0 .. n : bits(i, k) /\ (k = n \/ ~bits(i, k + 1))
      frames[i \in 0 .. 2 * len] ==
        IF i >= len THEN <<>>
        ELSE IF buf[i] > 1 THEN frames[i + 1]
        ELSE LET head == take(i, 8)
                 none == head = 8 /\ \A k \in i .. i + 7 : buf[k] = 0
                 size == IF head = 8 /\ buf[i] = 0 THEN Short ELSE Long
                 data_i == IF none THEN 7 ELSE take(i, size)
                 bit(k) == IF k <= data_i THEN buf[i + k - 1] ELSE 0
                 shown == IF data_i < size - 1 THEN <<>>
                          ELSE <<[k \in 1 .. size |-> bit(k)]>>
             IN  shown \o frames[i + data_i + 1]
  IN  frames[0]

(* display(): the short frames only when asked for; without any quality only *)
(* the formats that carry a position.                                        *)
Format(frame) == 16 * frame[1] + 8 * frame[2] + 4 * frame[3] + 2 * frame[4] + frame[5]
Displayed(frame, q, short) ==
  /\ short \/ Len(frame) > Short
  /\ q = 0 => Format(frame) \in {11, 17, 18, 19}

Decoded(buf, len, q, short) ==
  SelectSeq(Messages(Manchester(buf, len, q), len), LAMBDA f : Displayed(f, q, short))
==============================================================================
