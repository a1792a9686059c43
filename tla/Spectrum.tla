------------------------------ MODULE Spectrum -------------------------------
(* What rtl_power makes of the samples of a hop (rtl_power.c 244-340 and     *)
(* 556-760): decimation, the removal of the mean, the transform in 16-bit    *)
(* fixed point, and the columns of the row.  h is a hop of HopPlan with the  *)
(* options boxcar, fir (comp_fir_size is 9) and peak_hold; the window is the *)
(* rectangle.                                                                *)
EXTENDS HopPlan, Demodulators

(* The sequence itself; TLC then computes its members once.                  *)
Stored(x) == x \o <<>>

(* Sinewave of n points, for n up to 16.                                     *)
Sinewave(n, i) ==
  LET half == <<0, 12539, 23170, 30273, 32767, 30273, 23170, 12539>>
      k    == ((16 \div n) * i) % 16
  IN  IF k < 8 THEN half[k + 1] ELSE -half[k - 7]

FixMpy(a, b) == LET c == (a * b) \div 16384 IN Int16((c \div 2) + (c % 2))

Times(w, x) == <<Int16(FixMpy(w[1], x[1]) - FixMpy(w[2], x[2])),
                 Int16(FixMpy(w[1], x[2]) + FixMpy(w[2], x[1]))>>

(* One pass of butterflies over pairs that are l apart; all is halved.       *)
Butterflies(iq, l) ==
  LET n == Len(iq)
      twiddle(m) == LET j == m * (n \div (2 * l))
                    IN  <<Sinewave(n, j + (n \div 4)) \div 2, (-Sinewave(n, j)) \div 2>>
  IN  Stored([p \in 1 .. n |->
         LET first == ((p - 1) \div l) % 2 = 0
             q == IF first THEN p ELSE p - l
             t == Times(twiddle((p - 1) % l), iq[q + l])
             out(c) == Int16((iq[q][c] \div 2) + (IF first THEN t[c] ELSE -t[c]))
         IN  <<out(1), out(2)>>])

(* Counting with the bits in reverse.                                        *)
Reversed(m) ==
  FoldLeft(LAMBDA r, s : [k \in DOMAIN r |-> 2 * r[k]] \o [k \in DOMAIN r |-> 2 * r[k] + 1],
           <<0>>, [s \in 1 .. m |-> s])

FixFft(iq, m) ==
  FoldLeft(LAMBDA x, s : Butterflies(x, 2 ^ (s - 1)),
           [k \in DOMAIN iq |-> iq[Reversed(m)[k] + 1]], [s \in 1 .. m |-> s])

------------------------------------------------------------------------------
(* The real or the imaginary parts of a hop's samples.                       *)
Sum(x) == FoldLeft(LAMBDA s, a : s + a, 0, x)
Boxcar(x, ds) ==
  [k \in 1 .. Len(x) \div ds |-> Int16(Sum(SubSeq(x, ds * (k - 1) + 1, ds * k)))]

(* The window of six starts with the first samples and takes the sixth of    *)
(* them twice.                                                               *)
FifthOrder(x) ==
  LET at(k) == CASE k = 3 -> <<2, 3, 4, 5, 5, 6>> [] k = 4 -> <<4, 5, 5, 6, 7, 8>>
                 [] k < 3 -> <<0, 1, 2, 3, 4, 5>>
                 [] OTHER -> [n \in 1 .. 6 |-> 2 * k - 6 + n]
      weight(k) == CASE k = 0 -> <<10, 10, 5, 6, 0, 1>> [] k = 1 -> <<5, 10, 10, 5, 1, 1>>
                     [] OTHER -> <<1, 5, 10, 10, 5, 1>>
  IN  Stored([n \in 1 .. Len(x) \div 2 |->
         Int16(Sum([i \in 1 .. 6 |-> weight(n - 1)[i] * x[at(n - 1)[i] + 1]]) \div 16)])

(* The droop of one and of two passes; the first nine samples stay, the      *)
(* others are made of the nine before them.                                  *)
Cic9 == <<<<-156, -97, 2798, -15489, 61019>>, <<-128, -568, 5593, -24125, 74126>>>>
GenericFir(x, fir) ==
  [n \in DOMAIN x |->
     IF n <= 9 THEN x[n]
     ELSE Int16(Sum([i \in 1 .. 9 |-> x[n - 10 + i] * fir[IF i <= 5 THEN i ELSE 10 - i]])
                  \div 32768)]

Decimated(h, x) ==
  LET passes == Log2(h.downsample)
      y == FoldLeft(LAMBDA z, s : FifthOrder(z), x, [s \in 1 .. passes |-> s])
  IN  IF h.boxcar THEN Boxcar(x, h.downsample)
      ELSE IF h.fir /\ passes > 0 THEN GenericFir(y, Cic9[passes]) ELSE y

(* The mean is that of twice as many samples: what is taken off is half.     *)
RemoveDc(x, length) ==
  LET ave == Trunc(Sum(x), length)
  IN  Stored([k \in DOMAIN x |-> Int16(x[k] - ave)])

Prepared(h, block) ==
  LET length == (2 * Len(block)) \div h.downsample
      part(c) == Stored(Decimated(h, Stored([k \in DOMAIN block |-> block[k][c] - 127])))
      re == RemoveDc(part(1), length)
      im == RemoveDc(part(2), length - 1)
  IN  [k \in DOMAIN re |-> <<Int16(256 * re[k]), Int16(256 * im[k])>>]

RealConj(z) == z[1] * z[1] + z[2] * z[2]

(* avg, after one visit of a hop that had none before.                       *)
Averages(h, block) ==
  LET len  == 2 ^ h.bin_e
      data == Prepared(h, block)
      bins == [t \in 1 .. Len(data) \div len |->
                 FixFft(SubSeq(data, len * (t - 1) + 1, len * t), h.bin_e)]
      gather(avg, fft) ==
        Stored([k \in 1 .. len |->
          LET p == RealConj(fft[k])
          IN  IF h.peak_hold THEN Max({avg[k], p}) ELSE avg[k] + p])
  IN  FoldLeft(gather, [k \in 1 .. len |-> 0], bins)

(* The columns csv_dbm writes: the lowest frequency comes first, its         *)
(* neighbour stands for the mean, and the last is written twice.             *)
Columns(h, avg) ==
  LET len   == 2 ^ h.bin_e    cut == (len * h.crop) \div 200
      fixed == [avg EXCEPT ![1] = avg[2]]
      row   == SubSeq([k \in 1 .. len |-> fixed[((k - 1 + (len \div 2)) % len) + 1]],
                      1 + cut, len - cut)
  IN  Append(row, Last(row))
==============================================================================
