------------------------------ MODULE Resampler ------------------------------
(* The arithmetic of rtlsdr_set_sample_rate (librtlsdr.c 1089-1139).         *)
EXTENDS LongDivision

Xtal == 28800000   \* DEF_RTL_XTAL_FREQ

(* a * 2^22 / c, by eleven digits of two bits; a and c are below 2^29.       *)
Scaled(a, c) ==
  LET whole == [q |-> a \div c, r |-> a % c]
  IN  Digit(TwoDigits(FourDigits(FourDigits(whole, c), c), c), c)

(* The rates rtlsdr_set_sample_rate accepts.                                 *)
Supported(rate) ==
  \/ rate > 225000 /\ rate <= 300000
  \/ rate > 900000 /\ rate <= 3200000

(* rsamp_ratio, of which the register takes bits 2 to 27.                    *)
Register(ratio) == 4 * ((ratio % 268435456) \div 4)

RsampRatio(xtal, rate) == Register(Scaled(xtal, rate).q)

(* Mutant: the demodulator's use of bit 27 is forgotten.                     *)
RealRatio_Plain(ratio) == ratio

(* real_rsamp_ratio: the demodulator extends bit 27 into bit 28.             *)
RealRatio(ratio) == IF ratio < 134217728 THEN ratio ELSE ratio + 268435456

(* dev->rate.                                                                *)
RealRate(xtal, rate) == Scaled(xtal, RealRatio(RsampRatio(xtal, rate))).q
==============================================================================
