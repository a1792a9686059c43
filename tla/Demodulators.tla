---------------------------- MODULE Demodulators -----------------------------
(* The signal path of rtl_fm (rtl_fm.c) as callback and full_demod run it on *)
(* one block after another, with what each filter keeps from block to block: *)
(* rotate_90, low_pass, the demodulators, deemph_filter, low_pass_real.  A   *)
(* sample is a pair <<i, q>>; a block a sequence of them.  The mode of the   *)
(* demodulator is a linear one, "raw", or for FM the way to find an angle.   *)
EXTENDS Integers, SequencesExt

(* The quotient and the shift of C: towards zero, and 16 bits of it.         *)
Magnitude(x) == IF x < 0 THEN -x ELSE x
Trunc(x, y) ==
  LET q == Magnitude(x) \div Magnitude(y)
  IN  IF (x < 0) = (y < 0) THEN q ELSE -q
Int16(x) == ((x + 32768) % 65536) - 32768

(* rotate_90, on bytes: four samples at a time.                              *)
Rotate90(block) ==
  [n \in DOMAIN block |->
     LET s == block[n]
     IN  CASE n % 4 = 1 -> s
           [] n % 4 = 2 -> <<255 - s[2], s[1]>>
           [] n % 4 = 3 -> <<255 - s[1], 255 - s[2]>>
           [] OTHER     -> <<s[2], 255 - s[1]>>]

Centred(block) == [n \in DOMAIN block |-> <<block[n][1] - 127, block[n][2] - 127>>]

(* low_pass: sums of downsample samples; the last sum may wait for the next  *)
(* block.                                                                    *)
LowPass(d, block) ==
  FoldLeft(LAMBDA s, x :
             LET r == s.now_r + x[1]  j == s.now_j + x[2]
             IN  IF s.prev_index + 1 < d.downsample
                 THEN [s EXCEPT !.now_r = r, !.now_j = j, !.prev_index = @ + 1]
                 ELSE [s EXCEPT !.now_r = 0, !.now_j = 0, !.prev_index = 0,
                                !.out = Append(@, <<Int16(r), Int16(j)>>)],
           [d EXCEPT !.out = <<>>], block)

(* multiply by the conjugate: the turn from the sample before to this one.   *)
Turn(now, then) == [r |-> now[1] * then[1] + now[2] * then[2],
                    j |-> now[2] * then[1] - now[1] * then[2]]

(* polar_disc_fast; 2^14 is half a turn.                                     *)
FastAtan2(y, x) ==
  LET yabs == Magnitude(y)
      angle == IF x >= 0 THEN 4096 - Trunc(4096 * (x - yabs), x + yabs)
               ELSE 12288 - Trunc(4096 * (x + yabs), yabs - x)
  IN  IF x = 0 /\ y = 0 THEN 0 ELSE IF y < 0 THEN -angle ELSE angle

(* polar_disc_lut, its table only where it is exact: the eighths of a turn.  *)
LutAtan2(y, x) ==
  LET ratio == Trunc(y * 256, x)
      lut(n) == IF n = 0 THEN 0 ELSE 4096
  IN  IF x = 0 \/ y = 0
      THEN IF y > 0 THEN 8192 ELSE IF y < 0 THEN -8192
           ELSE IF x < 0 THEN 16384 ELSE 0
      ELSE IF ratio > 0 THEN IF y > 0 THEN lut(ratio) ELSE lut(ratio) - 16384
      ELSE IF y > 0 THEN 16384 - lut(-ratio) ELSE -lut(-ratio)

(* polar_discriminant: the angle itself, for eighths of a turn.              *)
ExactAtan2(y, x) ==
  IF y = 0 THEN IF x < 0 THEN 16384 ELSE 0
  ELSE IF x = 0 THEN IF y > 0 THEN 8192 ELSE -8192
  ELSE (IF x > 0 THEN 4096 ELSE 12288) * (IF y > 0 THEN 1 ELSE -1)

(* The root of a power, cut to an integer, as far as an int16_t holds it.    *)
Root(n) ==
  FoldLeft(LAMBDA r, bit : IF (r + bit) * (r + bit) <= n THEN r + bit ELSE r,
           0, [k \in 1 .. 15 |-> 2 ^ (15 - k)])

(* am_demod, usb_demod and lsb_demod; with raw_demod full_demod ends.        *)
Linear == {"am", "usb", "lsb"}
LinearDemod(d, lp) ==
  LET pcm(z) == CASE d.mode = "usb" -> z[1] + z[2] [] d.mode = "lsb" -> z[1] - z[2]
                  [] OTHER -> Root(z[1] * z[1] + z[2] * z[2])
  IN  [d EXCEPT !.out = [n \in DOMAIN lp |-> Int16(Int16(pcm(lp[n])) * d.output_scale)]]

(* fm_demod: whatever custom_atan says, the first of a block is compared     *)
(* with the last of the block before by polar_discriminant.                  *)
Angles(d, lp) ==
  LET before(n) == IF n = 1 THEN d.pre ELSE lp[n - 1]
      angle(n) ==
        LET t == Turn(lp[n], before(n))
        IN  IF n = 1 \/ d.mode = "exact" THEN ExactAtan2(t.j, t.r)
            ELSE IF d.mode = "fast" THEN FastAtan2(t.j, t.r)
            ELSE LutAtan2(t.j, t.r)
  IN  [n \in DOMAIN lp |-> Int16(angle(n))]

(* Mutant: the sample the next block is compared with is not kept.           *)
FmDemod_Forgets(d, lp) == [d EXCEPT !.out = Angles(d, lp), !.pre = <<0, 0>>]

FmDemod(d, lp) == [d EXCEPT !.out = Angles(d, lp), !.pre = Last(lp)]

(* deemph_filter; avg is a static of the function.                           *)
Deemph(s, result) ==
  FoldLeft(LAMBDA d, x :
             LET e == x - d.avg
                 half == d.deemph_a \div 2
                 avg == d.avg + Trunc(IF e > 0 THEN e + half ELSE e - half, d.deemph_a)
             IN  [d EXCEPT !.avg = avg, !.out = Append(@, Int16(avg))],
           [s EXCEPT !.out = <<>>], result)

(* low_pass_real: from rate_out down to rate_out2.                           *)
LowPassReal(s, result) ==
  FoldLeft(LAMBDA d, x :
             LET sum == d.now_lpr + x
                 index == d.prev_lpr_index + d.slow
             IN  IF index < d.fast
                 THEN [d EXCEPT !.now_lpr = sum, !.prev_lpr_index = index]
                 ELSE [d EXCEPT !.now_lpr = 0, !.prev_lpr_index = index - d.fast,
                                !.out = Append(@, Int16(Trunc(sum, d.fast \div
                                                                   d.slow)))],
           [s EXCEPT !.out = <<>>], result)

(* full_demod on one block, without squelch.                                 *)
FullDemod(d, block) ==
  LET low == LowPass(d, block)
      sound == IF d.mode \in Linear THEN LinearDemod(low, low.out)
               ELSE FmDemod(low, low.out)
      de  == IF d.mode \in Linear THEN sound ELSE Deemph(sound, sound.out)
  IN  IF d.mode = "raw" THEN low ELSE LowPassReal(de, de.out)
==============================================================================
