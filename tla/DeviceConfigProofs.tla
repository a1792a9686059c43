---------------------------- MODULE DeviceConfigProofs ----------------------------
(***************************************************************************)
(* Theorems about DeviceConfig for any frequencies, rates and crystals and *)
(* any number of failing transfers.  First the resampler: what a digit of  *)
(* a long division keeps true, and the rate that is computed back.  Then   *)
(* what each call of a driver leaves alone, and the invariants for the     *)
(* shadow register, the rate and the offset.  Last the tuning: what the    *)
(* tuner was told, with which clock and correction, through every setter.  *)
(***************************************************************************)
EXTENDS DeviceConfig, TLAPS

(* What a long division keeps true: quotient, rest and what was divided.    *)
Divides(d, c, n) ==
  /\ d \in [q : Nat, r : Nat]
  /\ d.r < c
  /\ d.q * c + d.r = n

LEMMA Division ==
  ASSUME NEW a \in Nat, NEW c \in Nat \ {0}
  PROVE  /\ a \div c \in Nat /\ a % c \in Nat /\ a % c < c
         /\ (a \div c) * c + (a % c) = a
OBVIOUS

(* A quotient is determined by what is divided.                             *)
LEMMA QuotientUnique ==
  ASSUME NEW c \in Nat \ {0}, NEW p \in Nat, NEW q \in Nat,
         NEW r \in 0 .. c - 1, NEW s \in 0 .. c - 1,
         p * c + r = q * c + s
  PROVE  p = q
<1>1. (p - q) * c < c /\ (q - p) * c < c
  OBVIOUS
<1>2. p - q < 1
  <2>1. ASSUME p - q >= 1 PROVE (p - q) * c >= c
    BY <2>1
  <2> QED BY <1>1, <2>1
<1>3. q - p < 1
  <2>1. ASSUME q - p >= 1 PROVE (q - p) * c >= c
    BY <2>1
  <2> QED BY <1>1, <2>1
<1> QED BY <1>2, <1>3

(* One more digit of the quotient.                                          *)
LEMMA OneDigit ==
  ASSUME NEW c \in Nat \ {0}, NEW n \in Nat, NEW q \in Nat, NEW r \in Nat,
         q * c + r = n, NEW k \in Nat, NEW m \in Nat, k * c + m = 4 * r
  PROVE  (4 * q + k) * c + m = 4 * n
<1>1. (4 * q + k) * c = 4 * (q * c) + k * c
  OBVIOUS
<1> QED BY <1>1

LEMMA DigitDivides ==
  ASSUME NEW c \in Nat \ {0}, NEW d, NEW n \in Nat, Divides(d, c, n)
  PROVE  Divides(Digit(d, c), c, 4 * n)
<1>1. d.q \in Nat /\ d.r \in Nat /\ 4 * d.r \in Nat /\ d.q * c + d.r = n
  BY DEF Divides
<1> DEFINE k == (4 * d.r) \div c
           m == (4 * d.r) % c
<1>2. k \in Nat /\ m \in Nat /\ m < c /\ k * c + m = 4 * d.r
  BY <1>1, Division
<1>3. Digit(d, c) = [q |-> 4 * d.q + k, r |-> m]
  BY DEF Digit
<1> HIDE DEF k, m
<1>4. (4 * d.q + k) * c + m = 4 * n
  BY <1>1, <1>2, OneDigit
<1> QED BY <1>1, <1>2, <1>3, <1>4 DEF Divides

------------------------------------------------------------------------------
LEMMA TwoDigitsDivide ==
  ASSUME NEW c \in Nat \ {0}, NEW d, NEW n \in Nat, Divides(d, c, n)
  PROVE  Divides(TwoDigits(d, c), c, 16 * n)
<1>1. Divides(Digit(d, c), c, 4 * n) /\ 4 * n \in Nat
  BY DigitDivides
<1>2. Divides(Digit(Digit(d, c), c), c, 4 * (4 * n))
  BY <1>1, DigitDivides
<1> QED BY <1>2 DEF TwoDigits

LEMMA FourDigitsDivide ==
  ASSUME NEW c \in Nat \ {0}, NEW d, NEW n \in Nat, Divides(d, c, n)
  PROVE  Divides(FourDigits(d, c), c, 256 * n)
<1>1. Divides(TwoDigits(d, c), c, 16 * n) /\ 16 * n \in Nat
  BY TwoDigitsDivide
<1>2. Divides(TwoDigits(TwoDigits(d, c), c), c, 16 * (16 * n))
  BY <1>1, TwoDigitsDivide
<1> QED BY <1>2 DEF FourDigits

(* Eleven digits of two bits: a * 2^22 / c.                                 *)
LEMMA ScaledDivides ==
  ASSUME NEW a \in Nat, NEW c \in Nat \ {0}
  PROVE  Divides(Scaled(a, c), c, 4194304 * a)
<1> DEFINE whole == [q |-> a \div c, r |-> a % c]
           four  == FourDigits(whole, c)
           eight == FourDigits(four, c)
           ten   == TwoDigits(eight, c)
<1>1. Divides(whole, c, a)
  BY Division DEF Divides
<1>2. Scaled(a, c) = Digit(ten, c)
  BY DEF Scaled
<1> HIDE DEF whole
<1>3. Divides(four, c, 256 * a)
  BY <1>1, FourDigitsDivide
<1> HIDE DEF four
<1>4. Divides(eight, c, 256 * (256 * a))
  BY <1>3, FourDigitsDivide
<1> HIDE DEF eight
<1>5. Divides(ten, c, 16 * (256 * (256 * a)))
  BY <1>4, TwoDigitsDivide
<1> HIDE DEF ten
<1>6. Divides(Digit(ten, c), c, 4 * (16 * (256 * (256 * a))))
  BY <1>5, DigitDivides
<1> QED BY <1>2, <1>6

(* The rates a crystal can be resampled to; with the nominal one these are   *)
(* the limits rtlsdr_set_sample_rate checks.  The register lacks bit 28, so   *)
(* the whole ratio must have bits 27 and 28 equal.                            *)
Fits(xtal, rate) ==
  /\ rate <= 3200000
  /\ \/ 128 * rate > xtal /\ 96 * rate <= xtal
     \/ 32 * rate > xtal

LEMMA NominalFits ==
  ASSUME NEW rate \in Nat, Supported(rate) PROVE Fits(Xtal, rate)
BY DEF Supported, Fits, Xtal

(* The ratio the demodulator works with is the whole one but for its lowest *)
(* two bits.                                                                *)
LEMMA RatioKept ==
  ASSUME NEW xtal \in Nat, xtal >= MinRtlXtal, NEW rate \in Nat, Fits(xtal, rate)
  PROVE  /\ RealRatio(RsampRatio(xtal, rate)) =
                Scaled(xtal, rate).q - (Scaled(xtal, rate).q % 4)
         /\ Scaled(xtal, rate).q \in Nat
         /\ Scaled(xtal, rate).q >= 37000000
<1> DEFINE ratio == Scaled(xtal, rate).q
           rest  == Scaled(xtal, rate).r
<1>x. xtal \in Nat /\ xtal >= 28799000
  BY DEF MinRtlXtal
<1>1. rate \in Nat \ {0} /\ rate <= 3200000
  BY <1>x DEF Fits
<1>2. Divides(Scaled(xtal, rate), rate, 4194304 * xtal)
  BY <1>1, <1>x, ScaledDivides
<1>3. /\ ratio \in Nat /\ rest \in Nat /\ rest < rate
      /\ ratio * rate + rest = 4194304 * xtal
  BY <1>2, <1>x DEF Divides
<1>r. RsampRatio(xtal, rate) = 4 * ((ratio % 268435456) \div 4)
  BY DEF RsampRatio, Register
<1> HIDE DEF ratio, rest
<1>4. CASE 32 * rate > xtal
  <2>1. ratio < 134217728
    <3>1. ASSUME ratio >= 134217728 PROVE FALSE
      <4>1. ratio * rate >= 134217728 * rate
        BY <1>1, <1>3, <3>1
      <4> QED BY <4>1, <1>1, <1>3, <1>4, <1>x
    <3> QED BY <3>1, <1>3
  <2>2. ratio >= 37000000
    <3>1. ASSUME ratio < 37000000 PROVE FALSE
      <4>1. ratio * rate <= 37000000 * rate
        BY <1>1, <1>3, <3>1
      <4> QED BY <4>1, <1>1, <1>3, <1>x
    <3> QED BY <3>1, <1>3
  <2> QED BY <1>r, <1>3, <2>1, <2>2 DEF RealRatio, ratio
<1>5. CASE 128 * rate > xtal /\ 96 * rate <= xtal
  <2>1. ratio < 536870912
    <3>1. ASSUME ratio >= 536870912 PROVE FALSE
      <4>1. ratio * rate >= 536870912 * rate
        BY <1>1, <1>3, <3>1
      <4> QED BY <4>1, <1>1, <1>3, <1>5, <1>x
    <3> QED BY <3>1, <1>3
  <2>2. ratio >= 402653184
    <3>1. ASSUME ratio <= 402653183 PROVE FALSE
      <4>1. ratio * rate <= 402653183 * rate
        BY <1>1, <1>3, <3>1
      <4>2. ratio * rate + rest < 402653184 * rate
        BY <1>1, <1>3, <4>1
      <4> QED BY <4>2, <1>1, <1>3, <1>5, <1>x
    <3> QED BY <3>1, <1>3
  <2> QED BY <1>r, <1>3, <2>1, <2>2 DEF RealRatio, ratio
<1> QED BY <1>4, <1>5 DEF Fits, ratio

(* The rate the library keeps is the rate asked for, and it is what the      *)
(* register makes of the crystal.                                            *)
THEOREM RateExact ==
  ASSUME NEW xtal \in Nat, xtal >= MinRtlXtal, NEW rate \in Nat, Fits(xtal, rate)
  PROVE  RealRate(xtal, rate) = rate
<1>a. /\ RealRatio(RsampRatio(xtal, rate)) =
              Scaled(xtal, rate).q - (Scaled(xtal, rate).q % 4)
      /\ Scaled(xtal, rate).q >= 37000000
  BY RatioKept
<1> DEFINE ratio == Scaled(xtal, rate).q
           rest  == Scaled(xtal, rate).r
           real  == RealRatio(RsampRatio(xtal, rate))
           back  == Scaled(xtal, real)
<1>x. xtal \in Nat /\ xtal >= 28799000
  BY DEF MinRtlXtal
<1>1. rate \in Nat \ {0} /\ rate <= 3200000
  BY <1>x DEF Fits
<1>d. Divides(Scaled(xtal, rate), rate, 4194304 * xtal)
  BY <1>1, <1>x, ScaledDivides
<1>2. /\ ratio \in Nat /\ rest \in Nat /\ rest < rate
      /\ ratio * rate + rest = 4194304 * xtal
  BY <1>d, <1>x DEF Divides
<1>3. real = ratio - (ratio % 4) /\ ratio >= 37000000
  BY <1>a
<1>4. RealRate(xtal, rate) = back.q
  BY DEF RealRate
<1>b. real \in Nat \ {0} => Divides(back, real, 4194304 * xtal)
  BY <1>x, ScaledDivides
<1> HIDE DEF ratio, rest, real, back
<1>5. PICK t \in 0 .. 3 : ratio = real + t
  BY <1>2, <1>3
<1>6. real \in Nat /\ real >= 36999997
  BY <1>2, <1>3
<1>7. /\ back.q \in Nat /\ back.r \in 0 .. real - 1
      /\ back.q * real + back.r = 4194304 * xtal
  BY <1>6, <1>b, <1>x DEF Divides
<1>8. rate * real + (t * rate + rest) = 4194304 * xtal
  <2>1. ratio * rate = real * rate + t * rate
    BY <1>1, <1>5, <1>6
  <2> QED BY <2>1, <1>1, <1>2, <1>5, <1>6, <1>x
<1>9. t * rate + rest \in 0 .. real - 1
  <2>1. t * rate <= 3 * rate /\ t * rate \in Nat
    BY <1>1, <1>5
  <2> QED BY <2>1, <1>1, <1>2, <1>6
<1>10. back.q = rate
  <2> DEFINE p == back.q
             r == back.r
             s == t * rate + rest
  <2>1. /\ p \in Nat /\ rate \in Nat /\ real \in Nat \ {0}
        /\ r \in 0 .. real - 1 /\ s \in 0 .. real - 1
        /\ p * real + r = rate * real + s
    BY <1>1, <1>6, <1>7, <1>8, <1>9
  <2> HIDE DEF p, r, s
  <2>2. p = rate
    BY <2>1, QuotientUnique
  <2> QED BY <2>2 DEF p
<1> QED BY <1>4, <1>10

------------------------------------------------------------------------------
(* The fields of a device record, and those no driver writes.               *)
Fields == {"tuner_type", "rate", "freq", "bw", "offs_freq", "corr", "gain",
           "direct_sampling", "rtl_xtal", "tun_xtal", "ddc", "ratio", "path",
           "chip", "shadow", "int_freq", "input", "has_lock", "init_done",
           "failures", "unlocks"}
Steady == {"tuner_type", "rate", "offs_freq", "direct_sampling", "rtl_xtal", "ratio"}

Shaped(d) ==
  /\ DOMAIN d = Fields /\ d.failures \in Nat /\ d.tuner_type \in Kinds
  /\ DOMAIN d.chip = Groups /\ DOMAIN d.shadow = Groups

Same(d, e) == \A f \in Steady : e[f] = d[f]

(* The driver's shadow of a chip to which every transfer was sent.          *)
Told(d) ==
  d.failures = 0 =>
    \A g \in Groups : \/ d.shadow[g] = d.chip[g]
                      \/ g = "pll" /\ d.shadow[g] = Boosted

(* What a call may make of a record: failures are not forgotten, and the    *)
(* R82xx driver keeps its shadow.                                           *)
Moves(d, e) ==
  /\ Shaped(e) /\ Same(d, e)
  /\ e.failures = 0 => d.failures = 0
  /\ IsR82xx(d) /\ Told(d) => Told(e)

LEMMA IgnoreTells ==
  ASSUME NEW S, NEW t \in Ignore(S)
  PROVE  t.ok /\ \E q \in S : t.d = q.d
BY DEF Ignore

LEMMA OnlyTells ==
  ASSUME NEW d, NEW o, o \in Done(d) \/ o \in Refused(d)
  PROVE  o.d = d
BY DEF Done, Refused

LEMMA MovesBoth ==
  ASSUME NEW c, NEW d, NEW e, Moves(c, d), Moves(d, e) PROVE Moves(c, e)
<1>1. IsR82xx(d) <=> IsR82xx(c)
  BY DEF Moves, Same, Steady, IsR82xx
<1> QED BY <1>1 DEF Moves, Same

LEMMA MovesNone == ASSUME NEW d, Shaped(d) PROVE Moves(d, d)
BY DEF Moves, Same

LEMMA BrokenMoves ==
  ASSUME NEW d, Shaped(d), NEW o \in Broken(d)
  PROVE  Shaped(o.d) /\ Same(d, o.d) /\ o.d.failures # 0
<1>1. o.d = [d EXCEPT !.failures = @ + 1]
  BY DEF Broken, Refused
<1> QED BY <1>1 DEF Shaped, Same, Fields, Steady

(* A failed transfer settles nothing but the frame.                         *)
LEMMA FailedMoves ==
  ASSUME NEW c, NEW d, Shaped(d), Same(c, d), NEW o \in Broken(d) PROVE Moves(c, o.d)
<1>1. Shaped(o.d) /\ Same(d, o.d) /\ o.d.failures # 0
  BY BrokenMoves
<1> QED BY <1>1 DEF Moves, Same, Told

LEMMA WriteMoves ==
  ASSUME NEW d, Shaped(d), NEW g \in Groups, NEW v, NEW o \in R82Write(d, g, v)
  PROVE  Moves(d, o.d)
<1> DEFINE e == [d EXCEPT !.shadow[g] = v]
           sent == [e EXCEPT !.chip[g] = v]
           lost == [e EXCEPT !.chip[g] = Unknown]
<1>1. \/ o.d = d \/ o.d = sent \/ o \in Broken(lost)
  BY DEF R82Write, Done
<1>2. Moves(d, d)
  BY MovesNone
<1>3. Moves(d, sent)
  <2>1. Shaped(sent) /\ Same(d, sent) /\ sent.failures = d.failures
    BY DEF Shaped, Same, Fields, Steady
  <2>2. /\ sent.chip = [d.chip EXCEPT ![g] = v]
        /\ sent.shadow = [d.shadow EXCEPT ![g] = v]
    BY DEF Shaped, Fields
  <2>3. Told(d) => Told(sent)
    BY <2>1, <2>2 DEF Told, Shaped
  <2> QED BY <2>1, <2>3 DEF Moves
<1>4. Shaped(lost) /\ Same(d, lost)
  BY DEF Shaped, Same, Fields, Steady
<1> HIDE DEF e, sent, lost
<1> QED BY <1>1, <1>2, <1>3, <1>4, FailedMoves

(* Fields the invariants do not look at.                                     *)
LEMMA MovesAside ==
  ASSUME NEW d, Shaped(d), NEW f \in {"freq", "bw", "corr", "gain", "tun_xtal", "ddc",
                                      "path", "int_freq", "input", "has_lock",
                                      "init_done", "unlocks"}, NEW v
  PROVE  Moves(d, [d EXCEPT ![f] = v])
BY DEF Moves, Shaped, Same, Told, Fields, Steady

LEMMA PllMoves ==
  ASSUME NEW d, Shaped(d), NEW lo, NEW o \in R82SetPll(d, lo)
  PROVE  Moves(d, o.d)
<1>1. CASE o \in Broken(d)
  <2>1. Same(d, d)
    BY DEF Same
  <2> QED BY <1>1, <2>1, FailedMoves
<1>2. CASE o \notin Broken(d)
  <2> DEFINE Locked(e) == [e EXCEPT !.has_lock = TRUE]
             Boost(e) == [e EXCEPT !.has_lock = FALSE, !.unlocks = @ + 1,
                                   !.shadow["pll"] = Boosted]
  <2> DEFINE written == R82Write(d, "pll", <<lo, d.tun_xtal, d.corr>>)
             Lock(e) == Done(Locked(e)) \cup Broken(e)
                        \cup (IF e.failures + e.unlocks < MaxFaults
                              THEN Done(Boost(e)) ELSE {})
  <2>a. R82SetPll(d, lo) = Broken(d) \cup IfOk(written, Lock)
    BY DEF R82SetPll
  <2>1. PICK p \in written :
          \/ o = p
          \/ o.d = Locked(p.d) \/ o \in Broken(p.d) \/ o.d = Boost(p.d)
    <3> HIDE DEF written, Locked, Boost
    <3>1. PICK p \in written : o = p \/ o \in Lock(p.d)
      <4> HIDE DEF Lock
      <4> QED BY <1>2, <2>a DEF IfOk
    <3> QED BY <3>1 DEF Done
  <2> DEFINE e == p.d
  <2>2. Moves(d, e) /\ Shaped(e)
    BY WriteMoves DEF Moves, Groups
  <2> HIDE DEF e
  <2>3. Moves(d, Locked(e))
    BY <2>2, MovesAside, MovesBoth
  <2>4. o \in Broken(e) => Moves(d, o.d)
    BY <2>2, FailedMoves DEF Moves
  <2>5. Moves(d, Boost(e))
    <3>1. /\ Shaped(Boost(e)) /\ Same(e, Boost(e)) /\ Boost(e).failures = e.failures
          /\ Boost(e).chip = e.chip
          /\ Boost(e).shadow = [e.shadow EXCEPT !["pll"] = Boosted]
      BY <2>2 DEF Shaped, Same, Fields, Steady
    <3>2. Told(e) => Told(Boost(e))
      BY <2>2, <3>1 DEF Told, Shaped
    <3> HIDE DEF Boost
    <3>3. Moves(e, Boost(e))
      BY <3>1, <3>2 DEF Moves
    <3> QED BY <2>2, <3>3, MovesBoth
  <2> QED BY <2>1, <2>2, <2>3, <2>4, <2>5 DEF e
<1> QED BY <1>1, <1>2

LEMMA OtherMoves ==
  ASSUME NEW d, Shaped(d), NEW o,
         \/ o \in Done(d) \/ o \in Broken(d)
         \/ o \in Ignore(Broken(d)) \/ o \in Refused(d)
  PROVE  Moves(d, o.d)
<1>1. o.d = d \/ \E p \in Broken(d) : o.d = p.d
  BY DEF Done, Refused, Ignore
<1>2. Same(d, d)
  BY DEF Same
<1> QED BY <1>1, <1>2, FailedMoves, MovesNone

LEMMA R828dMoves ==
  ASSUME NEW d, Shaped(d), NEW freq, NEW o \in R828dSetInput(d, freq)
  PROVE  Moves(d, o.d)
<1> DEFINE in == R828dInput(freq)
           e == [d EXCEPT !.input = in]
<1>1. o.d = d \/ o \in R82Write(e, "input", in)
  BY DEF R828dSetInput, Done
<1>2. Moves(d, e) /\ Shaped(e)
  BY MovesAside DEF Moves
<1>3. o \in R82Write(e, "input", in) => Moves(e, o.d)
  <2> HIDE DEF e
  <2> QED BY <1>2, WriteMoves DEF Groups
<1> QED BY <1>1, <1>2, <1>3, MovesBoth, MovesNone

(* The switch of the Blog V4: cable 2, the GPIO, and the two other inputs.   *)
InBand(d, band) == [d EXCEPT !.input = band]
V4Switched(d, band, o) ==
  \E p \in R82Write(InBand(d, band), "cable2", V4Cable2(band)) :
    \/ o.d = p.d
    \/ \E f : /\ f \in Done(p.d) \/ f \in Ignore(Broken(p.d))
             /\ \E r \in R82Write(f.d, "input", V4Input(band)) : o.d = r.d

LEMMA V4Steps ==
  ASSUME NEW d, NEW freq, NEW o \in V4SetInput(d, freq)
  PROVE  \E p \in R82Write(d, "notch", V4Notch(freq)) :
           o.d = p.d \/ V4Switched(p.d, V4Band(freq), o)
<1> DEFINE band == V4Band(freq)
           notch == V4Notch(freq)
           Inputs(g) == R82Write(g, "input", V4Input(band))
           Gpio(f) == Then(Done(f) \cup Ignore(Broken(f)), Inputs)
           Switch(e) == IfOk(R82Write(InBand(e, band), "cable2", V4Cable2(band)), Gpio)
           Choose(e) == IF e.input = band THEN Done(e) ELSE Switch(e)
<1>1. V4SetInput(d, freq) = IfOk(R82Write(d, "notch", notch), Choose)
  BY DEF V4SetInput, InBand
<1> HIDE DEF band, notch
<1>2. PICK p \in R82Write(d, "notch", notch) : o = p \/ o \in Choose(p.d)
  <2> HIDE DEF Choose
  <2> QED BY <1>1 DEF IfOk
<1>3. o = p \/ o.d = p.d \/ o \in Switch(p.d)
  <2> HIDE DEF Switch
  <2> QED BY <1>2 DEF Done
<1>4. ASSUME o \in Switch(p.d) PROVE V4Switched(p.d, band, o)
  <2>1. PICK q \in R82Write(InBand(p.d, band), "cable2", V4Cable2(band)) :
          o = q \/ o \in Gpio(q.d)
    <3> HIDE DEF Gpio
    <3> QED BY <1>4 DEF IfOk
  <2>2. ASSUME o \in Gpio(q.d)
        PROVE  \E f : /\ f \in Done(q.d) \/ f \in Ignore(Broken(q.d))
                     /\ \E r \in Inputs(f.d) : o.d = r.d
    <3> HIDE DEF Inputs
    <3> QED BY <2>2 DEF Then
  <2> QED BY <2>1, <2>2 DEF V4Switched
<1> QED BY <1>2, <1>3, <1>4 DEF band, notch

LEMMA V4Moves ==
  ASSUME NEW d, Shaped(d), NEW freq, NEW o \in V4SetInput(d, freq)
  PROVE  Moves(d, o.d)
<1> DEFINE band == V4Band(freq)
<1>1. PICK p \in R82Write(d, "notch", V4Notch(freq)) : o.d = p.d \/ V4Switched(p.d, band, o)
  BY V4Steps
<1>2. Moves(d, p.d) /\ Shaped(p.d)
  BY WriteMoves DEF Groups, Moves
<1> HIDE DEF band
<1>3. ASSUME V4Switched(p.d, band, o) PROVE Moves(p.d, o.d)
  <2> DEFINE e == InBand(p.d, band)
  <2>1. Moves(p.d, e) /\ Shaped(e)
    BY <1>2, MovesAside DEF Moves, InBand
  <2>2. PICK q \in R82Write(e, "cable2", V4Cable2(band)) :
          \/ o.d = q.d
          \/ \E f : /\ f \in Done(q.d) \/ f \in Ignore(Broken(q.d))
                   /\ \E r \in R82Write(f.d, "input", V4Input(band)) : o.d = r.d
    BY <1>3 DEF V4Switched
  <2> HIDE DEF e
  <2>3. Moves(e, q.d) /\ Shaped(q.d)
    BY <2>1, WriteMoves DEF Groups, Moves
  <2>4. ASSUME NEW f, f \in Done(q.d) \/ f \in Ignore(Broken(q.d)),
               NEW r \in R82Write(f.d, "input", V4Input(band)), o.d = r.d
        PROVE  Moves(q.d, o.d)
    <3>1. Moves(q.d, f.d) /\ Shaped(f.d)
      BY <2>3, <2>4, OtherMoves DEF Moves
    <3>2. Moves(f.d, r.d)
      BY <3>1, WriteMoves DEF Groups
    <3> QED BY <2>4, <3>1, <3>2, MovesBoth
  <2>5. Moves(e, o.d)
    BY <2>2, <2>3, <2>4, MovesBoth
  <2> QED BY <2>1, <2>5, MovesBoth
<1> QED BY <1>1, <1>2, <1>3, MovesBoth

LEMMA InputMoves ==
  ASSUME NEW d, Shaped(d), NEW freq, NEW o \in R82SetInput(d, freq)
  PROVE  Moves(d, o.d)
BY V4Moves, R828dMoves DEF R82SetInput

LEMMA MuxMoves ==
  ASSUME NEW d, Shaped(d), NEW lo, NEW o \in R82SetMux(d, lo)
  PROVE  Moves(d, o.d)
<1> DEFINE drain == <<OpenDrain(lo)>>
           mux == <<Band(lo)>>
<1>1. PICK p \in R82Write(d, "notch", drain) : o = p \/ o \in R82Write(p.d, "mux", mux)
  BY DEF R82SetMux, IfOk
<1> HIDE DEF drain, mux
<1>2. Moves(d, p.d) /\ Shaped(p.d)
  BY WriteMoves DEF Groups, Moves
<1>3. o \in R82Write(p.d, "mux", mux) => Moves(p.d, o.d)
  BY <1>2, WriteMoves DEF Groups
<1> QED BY <1>1, <1>2, <1>3, MovesBoth

LEMMA R82FreqMoves ==
  ASSUME NEW d, Shaped(d), NEW freq, NEW o \in R82SetFreq(d, freq)
  PROVE  Moves(d, o.d)
<1> DEFINE lo == Upconverted(d, freq) + d.int_freq
<1>1. PICK p \in R82SetMux(d, lo) :
        \/ o = p
        \/ \E q \in R82SetPll(p.d, lo) :
             \/ o = q \/ o.d = q.d \/ o \in R82SetInput(q.d, freq)
  BY DEF R82SetFreq, IfOk, Done
<1>2. Moves(d, p.d) /\ Shaped(p.d)
  BY MuxMoves DEF Moves
<1>3. ASSUME NEW q \in R82SetPll(p.d, lo),
             o = q \/ o.d = q.d \/ o \in R82SetInput(q.d, freq)
      PROVE  Moves(d, o.d)
  <2>1. Moves(p.d, q.d) /\ Shaped(q.d)
    BY <1>2, PllMoves DEF Moves
  <2>2. Moves(d, q.d)
    BY <1>2, <2>1, MovesBoth
  <2>3. o \in R82SetInput(q.d, freq) => Moves(q.d, o.d)
    BY <2>1, InputMoves
  <2> QED BY <1>3, <2>2, <2>3, MovesBoth
<1> QED BY <1>1, <1>2, <1>3

LEMMA R82BandwidthMoves ==
  ASSUME NEW d, Shaped(d), NEW bw, NEW o \in R82SetBandwidth(d, bw)
  PROVE  Moves(d, o.d)
<1> DEFINE f == FilterFor(bw)
           e == [d EXCEPT !.int_freq = f.int]
<1>1. o \in R82Write(e, "filter", <<f.width>>)
  BY DEF R82SetBandwidth
<1>2. Moves(d, e) /\ Shaped(e)
  BY MovesAside DEF Moves
<1> HIDE DEF e, f
<1>3. Moves(e, o.d)
  BY <1>1, <1>2, WriteMoves DEF Groups
<1> QED BY <1>2, <1>3, MovesBoth

LEMMA StandbySteps ==
  ASSUME NEW d, NEW o \in R82Standby(d)
  PROVE  \/ o.d = d
         \/ o.d = [d EXCEPT !.chip = All(Standby), !.shadow = All(Standby)]
         \/ \E chip, shadow : /\ DOMAIN chip = Groups /\ DOMAIN shadow = Groups
                              /\ o \in Broken([d EXCEPT !.shadow = shadow, !.chip = chip])
<1> DEFINE quiet == [d EXCEPT !.chip = All(Standby), !.shadow = All(Standby)]
           Off(r, k) == [g \in Groups |->
             IF g \in {StandbyOrder[i] : i \in 1 .. k} THEN Standby ELSE r[g]]
           Chip(k) == [Off(d.chip, k) EXCEPT ![StandbyOrder[k]] = Unknown]
<1>1. \/ o.d = d \/ o.d = quiet
      \/ \E k \in 1 .. Len(StandbyOrder) :
           o \in Broken([d EXCEPT !.shadow = Off(d.shadow, k), !.chip = Chip(k)])
  <2> DEFINE Lost(k) == Broken([d EXCEPT !.shadow = Off(d.shadow, k), !.chip = Chip(k)])
  <2>1. R82Standby(d) = IF ~d.init_done THEN Done(d)
          ELSE Done(quiet) \cup UNION {Lost(k) : k \in 1 .. Len(StandbyOrder)}
    BY DEF R82Standby
  <2> HIDE DEF Lost, quiet, Off, Chip
  <2>2. \/ o \in Done(d) \/ o \in Done(quiet)
        \/ \E k \in 1 .. Len(StandbyOrder) : o \in Lost(k)
    BY <2>1
  <2>3. /\ o \in Done(d) => o.d = d
        /\ o \in Done(quiet) => o.d = quiet
    BY DEF Done
  <2> QED BY <2>2, <2>3 DEF Lost
<1>2. \A k : DOMAIN Off(d.shadow, k) = Groups /\ DOMAIN Chip(k) = Groups
  OBVIOUS
<1>3. \/ o.d = d \/ o.d = quiet
      \/ \E chip, shadow : /\ DOMAIN chip = Groups /\ DOMAIN shadow = Groups
                           /\ o \in Broken([d EXCEPT !.shadow = shadow, !.chip = chip])
  <2> HIDE DEF Off, Chip, quiet
  <2> QED BY <1>1, <1>2
<1> QED BY <1>3

LEMMA R82StandbyMoves ==
  ASSUME NEW d, Shaped(d), NEW o \in R82Standby(d)
  PROVE  Moves(d, o.d)
<1> DEFINE quiet == [d EXCEPT !.chip = All(Standby), !.shadow = All(Standby)]
<1>1. \/ o.d = d \/ o.d = quiet
      \/ \E chip, shadow : /\ DOMAIN chip = Groups /\ DOMAIN shadow = Groups
                           /\ o \in Broken([d EXCEPT !.shadow = shadow, !.chip = chip])
  BY StandbySteps
<1>2. Moves(d, quiet)
  <2>1. /\ Shaped(quiet) /\ Same(d, quiet) /\ quiet.failures = d.failures
        /\ quiet.chip = All(Standby) /\ quiet.shadow = All(Standby)
    BY DEF Shaped, Same, Fields, Steady, All
  <2>2. Told(quiet)
    BY <2>1 DEF Told, All
  <2> HIDE DEF quiet
  <2> QED BY <2>1, <2>2 DEF Moves
<1>3. ASSUME NEW chip, NEW shadow, DOMAIN chip = Groups, DOMAIN shadow = Groups,
             o \in Broken([d EXCEPT !.shadow = shadow, !.chip = chip])
      PROVE  Moves(d, o.d)
  <2> DEFINE e == [d EXCEPT !.shadow = shadow, !.chip = chip]
  <2>1. Shaped(e) /\ Same(d, e)
    BY <1>3 DEF Shaped, Same, Fields, Steady
  <2> HIDE DEF e
  <2> QED BY <1>3, <2>1, FailedMoves DEF e
<1> QED BY <1>1, <1>2, <1>3, MovesNone

(* The array r82xx_init sends: the chip has it, or a transfer has failed.    *)
Primed(d, e) ==
  /\ Shaped(e) /\ Same(d, e)
  /\ e.failures = 0 => d.failures = 0 /\ e.chip = All(Reset)

LEMMA ResetPrimes ==
  ASSUME NEW d, Shaped(d), NEW o \in ResetAll(d) PROVE Primed(d, o.d)
<1> DEFINE sent == [d EXCEPT !.chip = All(Reset)]
           lost == [d EXCEPT !.chip = All(Unknown)]
<1>1. o.d = sent \/ \E p \in Broken(lost) : o.d = p.d
  BY DEF ResetAll, Done, Ignore
<1>2. Shaped(lost) /\ Same(d, lost)
  BY DEF Shaped, Same, Fields, Steady, All
<1>3. Primed(d, sent)
  BY DEF Primed, Shaped, Same, Fields, Steady, All
<1> HIDE DEF sent, lost
<1>4. ASSUME NEW p \in Broken(lost) PROVE Primed(d, p.d)
  <2>1. Shaped(p.d) /\ Same(lost, p.d) /\ p.d.failures # 0
    BY <1>2, BrokenMoves
  <2> QED BY <1>2, <2>1 DEF Primed, Same
<1> QED BY <1>1, <1>3, <1>4

LEMMA TvStandardMoves ==
  ASSUME NEW d, NEW e, Primed(d, e), NEW o \in R82SetTvStandard(e)
  PROVE  Moves(d, o.d)
<1> DEFINE f == [e EXCEPT !.int_freq = 3570000, !.shadow = All(Reset)]
<1>1. PICK p \in R82SetPll(f, 56000000) :
        o = p \/ o.d = p.d \/ o \in R82Write(p.d, "filter", <<6000000>>)
  BY DEF R82SetTvStandard, IfOk, Done
<1>2. Moves(d, f) /\ Shaped(f)
  <2>1. /\ Shaped(f) /\ Same(e, f) /\ f.failures = e.failures
        /\ f.chip = e.chip /\ f.shadow = All(Reset)
    BY DEF Primed, Shaped, Same, Fields, Steady, All
  <2>2. Told(f)
    BY <2>1 DEF Told, Primed, All
  <2> HIDE DEF f
  <2> QED BY <2>1, <2>2 DEF Moves, Primed, Same
<1> HIDE DEF f
<1>3. Moves(f, p.d) /\ Shaped(p.d)
  BY <1>2, PllMoves DEF Moves
<1>4. Moves(d, p.d)
  BY <1>2, <1>3, MovesBoth
<1>5. o \in R82Write(p.d, "filter", <<6000000>>) => Moves(p.d, o.d)
  BY <1>3, WriteMoves DEF Groups
<1> QED BY <1>1, <1>4, <1>5, MovesBoth

LEMMA SysfreqMoves ==
  ASSUME NEW d, Shaped(d), NEW o \in R82SysfreqSel(d) PROVE Moves(d, o.d)
<1>1. PICK p \in R82Write(d, "gain", Agc) :
        o = p \/ o.d = [p.d EXCEPT !.input = <<0>>]
  BY DEF R82SysfreqSel, IfOk, Done
<1>2. Moves(d, p.d) /\ Shaped(p.d)
  BY WriteMoves DEF Groups, Moves
<1>3. Moves(p.d, [p.d EXCEPT !.input = <<0>>])
  BY <1>2, MovesAside
<1> QED BY <1>1, <1>2, <1>3, MovesBoth

(* r82xx_init, call by call; the result of the first one is never seen.      *)
Prepared(d) == [d EXCEPT !.init_done = TRUE]
Finished(d, o) == o.d = d \/ \E r \in R82SysfreqSel(d) : o.d = Prepared(r.d)

LEMMA R82InitSteps ==
  ASSUME NEW d, NEW o \in R82Init(d)
  PROVE  \E p \in ResetAll(d) : \E q \in R82SetTvStandard(p.d) : Finished(q.d, o)
<1> DEFINE Final(f) == Storing(R82SysfreqSel(f), LAMBDA r : Prepared(r.d))
           Rest(e) == IfOk(R82SetTvStandard(e), Final)
<1>1. R82Init(d) = IfOk(ResetAll(d), Rest)
  BY DEF R82Init, Prepared
<1>2. PICK p \in ResetAll(d) : (o = p /\ ~p.ok) \/ o \in Rest(p.d)
  <2> HIDE DEF Rest
  <2> QED BY <1>1 DEF IfOk
<1>3. o \in Rest(p.d) => \E q \in R82SetTvStandard(p.d) : o = q \/ o \in Final(q.d)
  <2> HIDE DEF Final
  <2> QED BY DEF IfOk
<1>4. \A q : o \in Final(q.d) => \E r \in R82SysfreqSel(q.d) : o.d = Prepared(r.d)
  BY DEF Storing
<1>5. p.ok
  BY DEF ResetAll, Done, Ignore
<1> HIDE DEF Rest, Final
<1>6. PICK q \in R82SetTvStandard(p.d) : o = q \/ o \in Final(q.d)
  BY <1>2, <1>3, <1>5
<1>7. Finished(q.d, o)
  BY <1>4, <1>6 DEF Finished
<1> QED BY <1>7

LEMMA R82InitMoves ==
  ASSUME NEW d, Shaped(d), NEW o \in R82Init(d) PROVE Moves(d, o.d)
<1>1. PICK p \in ResetAll(d) : \E q \in R82SetTvStandard(p.d) : Finished(q.d, o)
  BY R82InitSteps
<1>2. Primed(d, p.d)
  BY ResetPrimes
<1>3. PICK q \in R82SetTvStandard(p.d) : Finished(q.d, o)
  BY <1>1
<1>4. Moves(d, q.d) /\ Shaped(q.d)
  BY <1>2, TvStandardMoves DEF Moves
<1>5. ASSUME NEW r \in R82SysfreqSel(q.d) PROVE Moves(d, Prepared(r.d))
  <2>1. Moves(q.d, r.d) /\ Shaped(r.d)
    BY <1>4, SysfreqMoves DEF Moves
  <2>2. Moves(r.d, Prepared(r.d))
    BY <2>1, MovesAside DEF Prepared
  <2>3. Moves(d, r.d)
    BY <1>4, <2>1, MovesBoth
  <2> QED BY <2>2, <2>3, MovesBoth
<1> QED BY <1>3, <1>4, <1>5 DEF Finished

------------------------------------------------------------------------------
(* The other tuners, which have no shadow to keep.                           *)
LEMMA SendMoves ==
  ASSUME NEW d, Shaped(d), ~IsR82xx(d), NEW g \in Groups, NEW v, NEW o \in Send(d, g, v)
  PROVE  Moves(d, o.d)
<1> DEFINE e(w) == [d EXCEPT !.chip[g] = w]
<1>1. o.d = e(v) \/ o \in Broken(e(Unknown))
  BY DEF Send, Done
<1>2. \A w : Shaped(e(w)) /\ Same(d, e(w)) /\ e(w).failures = d.failures
  BY DEF Shaped, Same, Fields, Steady
<1> HIDE DEF e
<1> QED BY <1>1, <1>2, FailedMoves DEF Moves

LEMMA SendArraySteps ==
  ASSUME NEW d, NEW order, NEW o \in SendArray(d, order)
  PROVE  \E chip : /\ DOMAIN chip = Groups
                   /\ \/ o.d = [d EXCEPT !.chip = chip]
                      \/ o \in Broken([d EXCEPT !.chip = chip])
<1> DEFINE e(chip) == [d EXCEPT !.chip = chip]
           After(k) == [g \in Groups |->
                   IF \E i \in 1 .. Len(order) : i < k /\ order[i] = g
                   THEN Reset ELSE d.chip[g]]
           Lost(k) == [After(k) EXCEPT ![order[k]] = Unknown]
<1>1. \/ o.d = e(After(Len(order) + 1))
      \/ \E k \in 1 .. Len(order) : o \in Broken(e(Lost(k)))
  BY DEF SendArray, Done
<1>2. \A k : DOMAIN After(k) = Groups /\ DOMAIN Lost(k) = Groups
  OBVIOUS
<1>3. \E chip : DOMAIN chip = Groups /\ (o.d = e(chip) \/ o \in Broken(e(chip)))
  <2> HIDE DEF After, Lost, e
  <2> QED BY <1>1, <1>2
<1> QED BY <1>3

LEMMA SendArrayMoves ==
  ASSUME NEW d, Shaped(d), ~IsR82xx(d), NEW order, NEW o \in SendArray(d, order)
  PROVE  Moves(d, o.d)
<1> DEFINE e(chip) == [d EXCEPT !.chip = chip]
<1>1. \E chip : DOMAIN chip = Groups /\ (o.d = e(chip) \/ o \in Broken(e(chip)))
  BY SendArraySteps
<1>2. \A chip : DOMAIN chip = Groups =>
        Shaped(e(chip)) /\ Same(d, e(chip)) /\ e(chip).failures = d.failures
  BY DEF Shaped, Same, Fields, Steady
<1> HIDE DEF e
<1> QED BY <1>1, <1>2, FailedMoves DEF Moves

LEMMA SendAfter ==
  ASSUME NEW d, NEW e, Moves(d, e), ~IsR82xx(d),
         NEW g \in Groups, NEW v, NEW o \in Send(e, g, v)
  PROVE  Moves(d, o.d)
<1>1. Shaped(e) /\ ~IsR82xx(e)
  BY DEF Moves, Same, Steady, IsR82xx
<1>2. Moves(e, o.d)
  BY <1>1, SendMoves
<1> QED BY <1>2, MovesBoth

LEMMA Fc001xMoves ==
  ASSUME NEW d, Shaped(d), ~IsR82xx(d), NEW freq, NEW pll, NEW o,
         o \in Fc0012SetParams(d, freq, pll) \/ o \in Fc0013SetParams(d, freq, pll)
  PROVE  Moves(d, o.d)
<1>1. \E w : \E p \in Send(d, "mux", w) :
        o.d = p.d \/ \E q \in Send(p.d, "pll", pll) : o.d = q.d
  BY DEF Fc0012SetParams, Fc0013SetParams, IfOk, Ignore
<1> QED BY <1>1, SendMoves, SendAfter DEF Groups

LEMMA LnaGainMoves ==
  ASSUME NEW d, Shaped(d), ~IsR82xx(d), NEW gain, NEW o \in Fc0013SetLnaGain(d, gain)
  PROVE  Moves(d, o.d)
<1> DEFINE set  == [d EXCEPT !.chip["gain"] = <<gain>>]
           lost == [d EXCEPT !.chip["gain"] = Unknown, !.chip["mux"] = Unknown]
<1>1. o.d = set \/ o \in Broken(lost)
  BY DEF Fc0013SetLnaGain, Done
<1>2. Shaped(set) /\ Same(d, set) /\ set.failures = d.failures
  BY DEF Shaped, Same, Fields, Steady
<1>3. Shaped(lost) /\ Same(d, lost)
  BY DEF Shaped, Same, Fields, Steady
<1> HIDE DEF set, lost
<1> QED BY <1>1, <1>2, <1>3, FailedMoves DEF Moves

LEMMA Fc2580Moves ==
  ASSUME NEW d, Shaped(d), ~IsR82xx(d), NEW freq, NEW o,
         o \in Fc2580Init(d) \/ o \in Fc2580SetFreq(d, freq)
  PROVE  Moves(d, o.d)
<1>1. \E g, h, i \in Groups : \E u, v, w :
        \E p \in Send(d, g, u) : \E q \in Send(p.d, h, v) : \E r \in Send(q.d, i, w) :
          o.d = r.d
  <2>1. o \in Fc2580Init(d) =>
          \E p \in Send(d, "gain", Agc) : \E q \in Send(p.d, "pll", Reset) :
            \E r \in Send(q.d, "filter", <<8>>) : o.d = r.d
    BY DEF Fc2580Init, Fc2580SetFilter, Then
  <2>2. o \in Fc2580SetFreq(d, freq) =>
          \E u, v, w : \E p \in Send(d, "mux", u) : \E q \in Send(p.d, "filter", v) :
            \E r \in Send(q.d, "pll", w) : o.d = r.d
    BY DEF Fc2580SetFreq, Fc2580SetFilter, Then
  <2> QED BY <2>1, <2>2 DEF Groups
<1>2. ASSUME NEW g \in Groups, NEW h \in Groups, NEW i \in Groups, NEW u, NEW v, NEW w,
             NEW p \in Send(d, g, u), NEW q \in Send(p.d, h, v), NEW r \in Send(q.d, i, w)
      PROVE  Moves(d, r.d)
  <2>1. Moves(d, p.d)
    BY SendMoves
  <2>2. Moves(d, q.d)
    BY <2>1, SendAfter
  <2> QED BY <2>2, SendAfter
<1> QED BY <1>1, <1>2

LEMMA E4kTuneMoves ==
  ASSUME NEW d, Shaped(d), ~IsR82xx(d), NEW freq, NEW pll, NEW o \in E4kTune(d, freq, pll)
  PROVE  Moves(d, o.d)
<1> DEFINE Unlocked(e) == [e EXCEPT !.unlocks = @ + 1]
<1>1. PICK p, q :
        /\ p \in Send(d, "pll", pll) /\ q \in Send(p.d, "mux", E4kFront(freq))
        /\ \/ o.d = q.d \/ \E r \in Broken(q.d) : o.d = r.d
           \/ o.d = Unlocked(q.d)
  <2> DEFINE tuned == Then(Ignore(Send(d, "pll", pll)),
                           LAMBDA e : Ignore(Send(e, "mux", E4kFront(freq))))
             Lock(e) == Done(e) \cup Ignore(Broken(e))
                        \cup (IF e.failures + e.unlocks < MaxFaults
                              THEN Refused(Unlocked(e)) ELSE {})
  <2>a. E4kTune(d, freq, pll) = Then(tuned, Lock)
    BY DEF E4kTune
  <2> HIDE DEF Unlocked
  <2>1. PICK s \in tuned :
          \/ o.d = s.d \/ \E r \in Broken(s.d) : o.d = r.d
          \/ o.d = Unlocked(s.d)
    <3> HIDE DEF tuned
    <3>1. PICK s \in tuned : \E r \in Lock(s.d) : o.d = r.d
      <4> HIDE DEF Lock
      <4> QED BY <2>a DEF Then
    <3> QED BY <3>1 DEF Done, Ignore, Refused
  <2>2. PICK p, q : /\ p \in Send(d, "pll", pll) /\ q \in Send(p.d, "mux", E4kFront(freq))
                    /\ s.d = q.d
    BY DEF Then, Ignore
  <2> QED BY <2>1, <2>2
<1>2. Moves(d, p.d)
  BY <1>1, SendMoves DEF Groups
<1>3. Moves(d, q.d) /\ Shaped(q.d) /\ Same(d, q.d)
  BY <1>1, <1>2, SendAfter DEF Groups, Moves
<1>4. Moves(q.d, Unlocked(q.d))
  BY <1>3, MovesAside
<1> QED BY <1>1, <1>3, <1>4, MovesBoth, FailedMoves

LEMMA ResetMoves ==
  ASSUME NEW d, Shaped(d), ~IsR82xx(d), NEW o \in ResetAll(d) PROVE Moves(d, o.d)
BY ResetPrimes DEF Primed, Moves

------------------------------------------------------------------------------
(* The calls of the table of tuners, and what librtlsdr makes of them.       *)
LEMMA TunerInitMoves ==
  ASSUME NEW d, Shaped(d), NEW o \in TunerInit(d) PROVE Moves(d, o.d)
<1>1. CASE IsR82xx(d)
  BY <1>1, R82InitMoves DEF TunerInit, IsR82xx
<1>2. CASE ~IsR82xx(d)
  <2>1. \/ o \in ResetAll(d) \/ o \in Fc2580Init(d) \/ o \in Done(d)
        \/ \E order : o \in SendArray(d, order)
    BY <1>2 DEF TunerInit, Shaped, Kinds, IsR82xx, E4kInit, Fc0012Init, Fc0013Init
  <2> QED BY <1>2, <2>1, ResetMoves, Fc2580Moves, OtherMoves, SendArrayMoves
<1> QED BY <1>1, <1>2

LEMMA TunerExitMoves ==
  ASSUME NEW d, Shaped(d), NEW o \in TunerExit(d) PROVE Moves(d, o.d)
<1>1. \/ o \in R82Standby(d) \/ o \in Done(d) \/ o \in Ignore(Broken(d))
  BY DEF TunerExit, E4kStandby
<1> QED BY <1>1, R82StandbyMoves, OtherMoves

LEMMA TunerFreqMoves ==
  ASSUME NEW d, Shaped(d), NEW freq, NEW o \in TunerSetFreq(d, freq) PROVE Moves(d, o.d)
<1>1. CASE IsR82xx(d)
  BY <1>1, R82FreqMoves DEF TunerSetFreq, IsR82xx
<1>2. CASE ~IsR82xx(d)
  <2>1. \/ o \in E4kTune(d, freq, PllFor(d, freq))
        \/ o \in Fc0012SetParams(d, freq, PllFor(d, freq))
        \/ o \in Fc0013SetParams(d, freq, PllFor(d, freq))
        \/ o \in Fc2580SetFreq(d, freq) \/ o \in Refused(d)
    BY <1>2 DEF TunerSetFreq, Shaped, Kinds, IsR82xx
  <2> QED BY <1>2, <2>1, E4kTuneMoves, Fc001xMoves, Fc2580Moves, OtherMoves
<1> QED BY <1>1, <1>2

(* The DDC and the path; the ratio is looked at below.                       *)
LEMMA DemodMoves ==
  ASSUME NEW d, Shaped(d), NEW f \in {"ddc", "path"}, NEW v, NEW o \in Demod(d, f, v)
  PROVE  Moves(d, o.d)
<1> DEFINE e(w) == [d EXCEPT ![f] = w]
<1>a. Demod(d, f, v) = Done(e(v)) \cup Broken(e(Unknown))
  BY DEF Demod
<1>1. o.d = e(v) \/ o \in Broken(e(Unknown))
  <2> HIDE DEF e
  <2> QED BY <1>a DEF Done
<1>2. \A w : Moves(d, e(w)) /\ Shaped(e(w)) /\ Same(d, e(w))
  BY MovesAside DEF Moves
<1> HIDE DEF e
<1> QED BY <1>1, <1>2, FailedMoves

LEMMA SetIfMoves ==
  ASSUME NEW d, Shaped(d), NEW freq, NEW o \in SetIf(d, freq) PROVE Moves(d, o.d)
BY DemodMoves DEF SetIf

(* rtlsdr_set_center_freq, call by call.                                     *)
Stored(p, v) == [p.d EXCEPT !.freq = v]

FreqSetBy(d, freq, p, o) ==
  /\ o.d = Stored(p, IF p.ok THEN freq ELSE 0)
  /\ \/ d.direct_sampling # 0 /\ p \in SetIf(d, freq)
     \/ d.direct_sampling = 0 /\ p \in TunerSetFreq(d, freq - d.offs_freq)

LEMMA CenterFreqSteps ==
  ASSUME NEW d, NEW freq, NEW o \in SetCenterFreq(d, freq)
  PROVE  \E p : FreqSetBy(d, freq, p, o)
<1> DEFINE tried == IF d.direct_sampling # 0 THEN SetIf(d, freq)
                    ELSE TunerSetFreq(d, freq - d.offs_freq)
           Kept(p) == [p.d EXCEPT !.freq = IF p.ok THEN freq ELSE 0]
<1>1. SetCenterFreq(d, freq) = Storing(tried, Kept)
  BY DEF SetCenterFreq
<1>2. PICK p \in tried : o.d = Kept(p)
  <2> HIDE DEF tried, Kept
  <2> QED BY <1>1 DEF Storing
<1>3. Kept(p) = Stored(p, IF p.ok THEN freq ELSE 0)
  BY DEF Stored
<1> HIDE DEF Kept
<1> QED BY <1>2, <1>3 DEF FreqSetBy

LEMMA CenterFreqMoves ==
  ASSUME NEW d, Shaped(d), NEW freq, NEW o \in SetCenterFreq(d, freq) PROVE Moves(d, o.d)
<1>1. PICK p : FreqSetBy(d, freq, p, o)
  BY CenterFreqSteps
<1>2. Moves(d, p.d)
  BY <1>1, SetIfMoves, TunerFreqMoves DEF FreqSetBy
<1>3. \A v : Moves(p.d, Stored(p, v))
  BY <1>2, MovesAside DEF Moves, Stored
<1> QED BY <1>1, <1>2, <1>3, MovesBoth DEF FreqSetBy

(* The set_bw of the R82xx, call by call.                                    *)
BwSetBy(p, o) ==
  \/ o = p /\ ~p.ok
  \/ \E q \in SetIf(p.d, p.d.int_freq) :
       (o = q /\ ~q.ok) \/ (q.ok /\ o \in SetCenterFreq(q.d, q.d.freq))

LEMMA TunerBwSteps ==
  ASSUME NEW d, IsR82xx(d), NEW bw, NEW o \in TunerSetBw(d, bw)
  PROVE  \E p \in R82SetBandwidth(d, bw) : BwSetBy(p, o)
<1> DEFINE Tune(f) == SetCenterFreq(f, f.freq)
           Shift(e) == IfOk(SetIf(e, e.int_freq), Tune)
<1>1. TunerSetBw(d, bw) = IfOk(R82SetBandwidth(d, bw), Shift)
  BY DEF TunerSetBw, IsR82xx
<1>2. \A e : o \in Shift(e) =>
        \E q \in SetIf(e, e.int_freq) : (o = q /\ ~q.ok) \/ (q.ok /\ o \in Tune(q.d))
  <2> HIDE DEF Tune
  <2> QED BY DEF IfOk
<1> HIDE DEF Shift
<1>3. PICK p \in R82SetBandwidth(d, bw) : (o = p /\ ~p.ok) \/ o \in Shift(p.d)
  BY <1>1 DEF IfOk
<1> QED BY <1>2, <1>3 DEF BwSetBy

LEMMA TunerBwMoves ==
  ASSUME NEW d, Shaped(d), NEW bw, NEW o \in TunerSetBw(d, bw) PROVE Moves(d, o.d)
<1>1. CASE IsR82xx(d)
  <2>1. PICK p \in R82SetBandwidth(d, bw) : BwSetBy(p, o)
    BY <1>1, TunerBwSteps
  <2>2. Moves(d, p.d) /\ Shaped(p.d)
    BY R82BandwidthMoves DEF Moves
  <2>3. ASSUME NEW q \in SetIf(p.d, p.d.int_freq)
        PROVE  Moves(d, q.d) /\ Shaped(q.d)
    BY <2>2, SetIfMoves, MovesBoth DEF Moves
  <2> QED BY <2>1, <2>2, <2>3, CenterFreqMoves, MovesBoth DEF BwSetBy
<1>2. CASE ~IsR82xx(d)
  <2>1. o \in Done(d) \/ \E v : o \in Send(d, "filter", v)
    BY <1>2 DEF TunerSetBw, Fc2580SetFilter
  <2> QED BY <1>2, <2>1, OtherMoves, SendMoves DEF Groups
<1> QED BY <1>1, <1>2

LEMMA BandwidthMoves ==
  ASSUME NEW d, Shaped(d), NEW bw, NEW o \in SetTunerBandwidth(d, bw) PROVE Moves(d, o.d)
<1>1. PICK p \in TunerSetBw(d, IF bw > 0 THEN bw ELSE d.rate) :
        o = p \/ o.d = [p.d EXCEPT !.bw = bw]
  BY DEF SetTunerBandwidth, IfOk, Done
<1>2. Moves(d, p.d) /\ Shaped(p.d)
  BY TunerBwMoves DEF Moves
<1>3. Moves(p.d, [p.d EXCEPT !.bw = bw])
  BY <1>2, MovesAside
<1> QED BY <1>1, <1>2, <1>3, MovesBoth

LEMMA GainMoves ==
  ASSUME NEW d, Shaped(d), NEW gain, NEW o \in SetTunerGain(d, gain) PROVE Moves(d, o.d)
<1> DEFINE Set(p, v) == [p.d EXCEPT !.gain = v]
           w == <<gain>>
<1>1. \E p, v : /\ o.d = Set(p, v)
                /\ \/ p \in R82Write(d, "gain", w)
                   \/ /\ ~IsR82xx(d)
                      /\ \/ p \in Send(d, "gain", w)
                         \/ \E q \in Send(d, "gain", w) : p.d = q.d
                         \/ p \in Fc0013SetLnaGain(d, gain)
                         \/ p \in Done(d) \/ p \in Refused(d)
  <2> DEFINE tried == CASE IsR82xx(d) -> R82SetGain(d, gain)
                        [] d.tuner_type = "E4000"  -> E4kSetGain(d, gain)
                        [] d.tuner_type = "FC0012" -> Send(d, "gain", <<gain>>)
                        [] d.tuner_type = "FC0013" -> Fc0013SetLnaGain(d, gain)
                        [] OTHER -> Done(d)
             Kept(p) == [p.d EXCEPT !.gain = IF p.ok THEN gain ELSE 0]
  <2>1. SetTunerGain(d, gain) = Storing(tried, Kept)
    BY DEF SetTunerGain
  <2>2. \E p \in tried : o.d = Kept(p)
    <3> HIDE DEF tried, Kept
    <3> QED BY <2>1 DEF Storing
  <2>3. \/ IsR82xx(d) /\ tried = R82Write(d, "gain", <<gain>>)
        \/ /\ ~IsR82xx(d)
           /\ \/ tried = E4kSetGain(d, gain) \/ tried = Send(d, "gain", <<gain>>)
              \/ tried = Fc0013SetLnaGain(d, gain) \/ tried = Done(d) \/ tried = Refused(d)
    BY DEF R82SetGain, IsR82xx
  <2>4. \A p \in E4kSetGain(d, gain) :
          p \in Refused(d) \/ \E q \in Send(d, "gain", <<gain>>) : p.d = q.d
    BY DEF E4kSetGain, Ignore
  <2> HIDE DEF tried
  <2> QED BY <2>2, <2>3, <2>4
<1>2. ASSUME NEW p, NEW v, Moves(d, p.d) PROVE Moves(d, Set(p, v))
  <2>1. Moves(p.d, Set(p, v))
    BY <1>2, MovesAside DEF Moves
  <2> QED BY <1>2, <2>1, MovesBoth
<1> HIDE DEF w
<1>3. \A p : /\ p \in R82Write(d, "gain", w) => Moves(d, p.d)
             /\ ~IsR82xx(d) /\ p \in Send(d, "gain", w) => Moves(d, p.d)
             /\ ~IsR82xx(d) /\ p \in Fc0013SetLnaGain(d, gain) => Moves(d, p.d)
             /\ p \in Done(d) \/ p \in Refused(d) => Moves(d, p.d)
  BY WriteMoves, SendMoves, LnaGainMoves, OtherMoves DEF Groups
<1> HIDE DEF Set
<1>4. PICK p, v : /\ o.d = Set(p, v)
                  /\ \/ p \in R82Write(d, "gain", w)
                     \/ /\ ~IsR82xx(d)
                        /\ \/ p \in Send(d, "gain", w)
                           \/ \E q \in Send(d, "gain", w) : p.d = q.d
                           \/ p \in Fc0013SetLnaGain(d, gain)
                           \/ p \in Done(d) \/ p \in Refused(d)
  BY <1>1
<1>5. Moves(d, p.d)
  BY <1>3, <1>4
<1> QED BY <1>2, <1>4, <1>5

LEMMA GainModeMoves ==
  ASSUME NEW d, Shaped(d), NEW manual, NEW o \in SetTunerGainMode(d, manual)
  PROVE  Moves(d, o.d)
<1>1. \/ \E v : o \in R82Write(d, "gain", v)
      \/ o \in Done(d) \/ o \in Broken(d) \/ o \in Ignore(Broken(d))
  BY DEF SetTunerGainMode, R82SetGain, E4kEnableManualGain, Fc0013SetGainMode
<1> QED BY <1>1, WriteMoves, OtherMoves DEF Groups

------------------------------------------------------------------------------
(* The crystals the device may come to run on.                              *)
Crystals == {Xtal} \cup {x \in RtlXtals : ~(x < MinRtlXtal \/ x > MaxRtlXtal)}

(* Every rate that is accepted is one those crystals can be resampled to.    *)
RatesFit ==
  /\ Rates \subseteq Nat /\ RtlXtals \subseteq Nat
  /\ \A r \in Rates, x \in Crystals : Supported(r) => Fits(x, r)

LEMMA CrystalKnown ==
  ASSUME RatesFit, NEW x \in Crystals PROVE x \in Nat /\ x >= MinRtlXtal
BY DEF Crystals, RatesFit, Xtal, MinRtlXtal

(* What holds of an open device inside a call as well: the shadow is kept,   *)
(* and there is no offset where there is no IF to shift.                     *)
Apart(d) == d.offs_freq # 0 => d.direct_sampling = 0 /\ ~IsR82xx(d)

Settled(d) ==
  /\ Shaped(d) /\ d.rtl_xtal \in Crystals
  /\ IsR82xx(d) => Told(d)
  /\ Careful => Apart(d)

RateTrue(d) ==
  /\ d.rate \in {0} \cup {r \in Rates : Supported(r)}
  /\ d.failures = 0 /\ d.rate # 0 => d.ratio = <<RsampRatio(d.rtl_xtal, d.rate)>>

OffsetTrue(d) == d.offs_freq \in {0, OffsetFor(d.rate)}

Sound(d) ==
  /\ Settled(d)
  /\ RatesFit => RateTrue(d)
  /\ Careful => OffsetTrue(d)

LEMMA MovesSettled ==
  ASSUME NEW d, NEW e, Settled(d), Moves(d, e)
  PROVE  /\ Settled(e)
         /\ RateTrue(d) => RateTrue(e)
         /\ OffsetTrue(d) => OffsetTrue(e)
<1>1. /\ e.tuner_type = d.tuner_type /\ e.rate = d.rate /\ e.offs_freq = d.offs_freq
      /\ e.direct_sampling = d.direct_sampling
      /\ e.rtl_xtal = d.rtl_xtal /\ e.ratio = d.ratio
  BY DEF Moves, Same, Steady
<1>2. IsR82xx(e) <=> IsR82xx(d)
  BY <1>1 DEF IsR82xx
<1> QED BY <1>1, <1>2 DEF Moves, Settled, RateTrue, OffsetTrue, Apart

LEMMA MovesSound ==
  ASSUME NEW d, NEW e, Sound(d), Moves(d, e) PROVE Sound(e)
BY MovesSettled DEF Sound

(* The resampler's part of rtlsdr_set_sample_rate, call by call.              *)
AtRate(d, rate) == [d EXCEPT !.rate = RealRate(d.rtl_xtal, rate)]
RatioFor(d, rate) == <<RsampRatio(d.rtl_xtal, rate)>>

ResampledBy(d, rate, p, o) ==
  /\ \E bw : p \in TunerSetBw(AtRate(d, rate), bw)
  /\ \E q \in Demod(p.d, "ratio", RatioFor(p.d, rate)) : o.d = q.d

LEMMA ResampleSteps ==
  ASSUME NEW d, NEW rate, NEW o \in Resample(d, rate)
  PROVE  \E p : ResampledBy(d, rate, p, o)
<1> DEFINE e == AtRate(d, rate)
           wide == IF e.bw > 0 THEN e.bw ELSE e.rate
           Filtered == Ignore(TunerSetBw(e, wide))
           Written(x) == Demod(x, "ratio", RatioFor(x, rate))
<1>1. Resample(d, rate) = Then(Filtered, Written)
  BY DEF Resample, AtRate, RatioFor
<1>2. PICK p \in TunerSetBw(e, wide) : \E q \in Written(p.d) : o.d = q.d
  <2> HIDE DEF Written, e, wide
  <2> QED BY <1>1 DEF Then, Ignore
<1> HIDE DEF e, wide
<1> QED BY <1>2 DEF ResampledBy, e

(* It is given the rate and its ratio, or a transfer has failed.             *)
LEMMA ResampleTrue ==
  ASSUME NEW d, Settled(d), NEW rate, NEW o \in Resample(d, rate)
  PROVE  /\ Settled(o.d)
         /\ RatesFit /\ rate \in Rates /\ Supported(rate) => RateTrue(o.d)
<1> DEFINE kept == RealRate(d.rtl_xtal, rate)
           fit == RatesFit /\ rate \in Rates /\ Supported(rate)
           e == AtRate(d, rate)
           Set(x, v) == [x EXCEPT !.ratio = v]
<1>1. PICK p, q, bw :
        /\ p \in TunerSetBw(e, bw)
        /\ o.d = q.d /\ q \in Demod(p.d, "ratio", RatioFor(p.d, rate))
  BY ResampleSteps DEF ResampledBy
<1>2. fit => kept = rate /\ rate # 0
  <2> SUFFICES ASSUME fit PROVE kept = rate /\ rate # 0
    OBVIOUS
  <2>1. d.rtl_xtal \in Crystals /\ d.rtl_xtal \in Nat /\ d.rtl_xtal >= MinRtlXtal
    BY CrystalKnown DEF Settled
  <2>2. rate \in Nat /\ Fits(d.rtl_xtal, rate)
    BY <2>1 DEF RatesFit
  <2> QED BY <2>1, <2>2, RateExact DEF Supported
<1> HIDE DEF kept, fit
<1>3. Settled(e) /\ e.rate = kept
  <2>1. /\ Shaped(e) /\ e.rate = kept /\ e.rtl_xtal = d.rtl_xtal
        /\ e.tuner_type = d.tuner_type /\ e.offs_freq = d.offs_freq
        /\ e.direct_sampling = d.direct_sampling /\ e.failures = d.failures
        /\ e.chip = d.chip /\ e.shadow = d.shadow
    BY DEF Settled, Shaped, Fields, AtRate, kept
  <2> HIDE DEF e
  <2> QED BY <2>1 DEF Settled, Told, Apart, IsR82xx
<1> HIDE DEF e
<1>4. Moves(e, p.d)
  BY <1>1, <1>3, TunerBwMoves DEF Settled
<1>5. Settled(p.d) /\ p.d.rate = kept
  BY <1>3, <1>4, MovesSettled DEF Moves, Same, Steady
<1>6. o.d = Set(p.d, RatioFor(p.d, rate)) \/ q \in Broken(Set(p.d, Unknown))
  <2> DEFINE w == RatioFor(p.d, rate)
  <2>1. Demod(p.d, "ratio", w) = Done(Set(p.d, w)) \cup Broken(Set(p.d, Unknown))
    BY DEF Demod
  <2> HIDE DEF w, Set
  <2> QED BY <1>1, <2>1 DEF Done, w
<1>7. \A v : LET x == Set(p.d, v) IN
        /\ Settled(x) /\ x.rate = kept /\ x.ratio = v /\ x.rtl_xtal = p.d.rtl_xtal
  <2> SUFFICES ASSUME NEW v PROVE LET x == Set(p.d, v) IN
        /\ Settled(x) /\ x.rate = kept /\ x.ratio = v /\ x.rtl_xtal = p.d.rtl_xtal
    OBVIOUS
  <2> DEFINE x == Set(p.d, v)
  <2>1. /\ Shaped(x) /\ x.rate = p.d.rate /\ x.rtl_xtal = p.d.rtl_xtal
        /\ x.tuner_type = p.d.tuner_type /\ x.offs_freq = p.d.offs_freq
        /\ x.direct_sampling = p.d.direct_sampling /\ x.failures = p.d.failures
        /\ x.chip = p.d.chip /\ x.shadow = p.d.shadow /\ x.ratio = v
    BY <1>5 DEF Settled, Shaped, Fields
  <2> HIDE DEF x
  <2>2. Settled(x)
    BY <1>5, <2>1 DEF Settled, Told, Apart, IsR82xx
  <2> QED BY <1>5, <2>1, <2>2 DEF x
<1> HIDE DEF Set
<1>8. CASE o.d = Set(p.d, RatioFor(p.d, rate))
  BY <1>2, <1>7, <1>8 DEF RateTrue, RatioFor, fit
<1>9. CASE q \in Broken(Set(p.d, Unknown))
  <2> DEFINE x == Set(p.d, Unknown)
  <2>1. Settled(x) /\ x.rate = kept
    BY <1>7
  <2>2. Shaped(q.d) /\ Same(x, q.d) /\ q.d.failures # 0
    BY <1>9, <2>1, BrokenMoves DEF Settled
  <2>3. Moves(x, q.d)
    BY <2>2 DEF Moves, Told
  <2>4. Settled(q.d) /\ q.d.rate = kept
    BY <2>1, <2>2, <2>3, MovesSettled DEF Same, Steady
  <2> QED BY <1>1, <1>2, <2>2, <2>4 DEF RateTrue, fit
<1> QED BY <1>6, <1>8, <1>9 DEF fit

(* rtlsdr_set_offset_tuning, call by call, where it is not refused.          *)
Offset(d, on) == IF on THEN OffsetFor(d.rate) ELSE 0
Shifted(d, on) == [d EXCEPT !.offs_freq = Offset(d, on)]

OffsetSetBy(d, on, p, q, o) ==
  /\ p \in SetIf(Shifted(d, on), Offset(d, on))
  /\ \E bw : q \in TunerSetBw(p.d, bw)
  /\ \/ o.d = q.d /\ ~(q.d.freq > q.d.offs_freq)
     \/ \E r \in SetCenterFreq(q.d, q.d.freq) : o.d = r.d

LEMMA OffsetSteps ==
  ASSUME NEW d, ~(IsR82xx(d) \/ d.direct_sampling # 0), NEW on \in BOOLEAN,
         NEW o \in SetOffsetTuning(d, on)
  PROVE  \E p, q : OffsetSetBy(d, on, p, q, o)
<1> DEFINE offs == Offset(d, on)
           bw   == CASE on -> 2 * offs [] ~on /\ d.bw > 0 -> d.bw
                     [] OTHER -> d.rate
           e == Shifted(d, on)
<1>1. PICK s \in Then(SetIf(e, offs), LAMBDA x : Ignore(TunerSetBw(x, bw))) :
        \/ o.d = s.d /\ ~(s.d.freq > s.d.offs_freq)
        \/ \E r \in SetCenterFreq(s.d, s.d.freq) : o.d = r.d
  BY DEF SetOffsetTuning, Then, Done, Offset, Shifted
<1> HIDE DEF e, bw, offs
<1>2. PICK p, q : p \in SetIf(e, offs) /\ q \in TunerSetBw(p.d, bw) /\ s.d = q.d
  BY DEF Then, Ignore
<1>3. OffsetSetBy(d, on, p, q, o)
  BY <1>1, <1>2 DEF OffsetSetBy, e, offs
<1> QED BY <1>3

(* The offset is taken from the rate whenever it is not refused.             *)
LEMMA OffsetSound ==
  ASSUME NEW d, Settled(d), RatesFit => RateTrue(d), NEW on \in BOOLEAN,
         Careful /\ (IsR82xx(d) \/ d.direct_sampling # 0) => OffsetTrue(d),
         NEW o \in SetOffsetTuning(d, on)
  PROVE  Sound(o.d)
<1>1. CASE IsR82xx(d) \/ d.direct_sampling # 0
  <2>1. o.d = d
    BY <1>1 DEF SetOffsetTuning, Refused
  <2> QED BY <1>1, <2>1 DEF Sound
<1>2. CASE ~(IsR82xx(d) \/ d.direct_sampling # 0)
  <2> DEFINE offs == Offset(d, on)
             e == Shifted(d, on)
  <2>1. PICK p, q, bw :
          /\ p \in SetIf(e, offs) /\ q \in TunerSetBw(p.d, bw)
          /\ o.d = q.d \/ \E r \in SetCenterFreq(q.d, q.d.freq) : o.d = r.d
    BY <1>2, OffsetSteps DEF OffsetSetBy
  <2>2. Sound(e)
    <3>1. /\ Shaped(e) /\ e.rate = d.rate /\ e.rtl_xtal = d.rtl_xtal
          /\ e.tuner_type = d.tuner_type /\ e.offs_freq = offs
          /\ e.direct_sampling = d.direct_sampling /\ e.failures = d.failures
          /\ e.chip = d.chip /\ e.shadow = d.shadow /\ e.ratio = d.ratio
      BY DEF Settled, Shaped, Fields, Shifted
    <3>2. offs \in {0, OffsetFor(d.rate)}
      BY DEF Offset
    <3> HIDE DEF e, offs
    <3> QED BY <1>2, <3>1, <3>2
            DEF Sound, Settled, RateTrue, OffsetTrue, Told, Apart, IsR82xx
  <2> HIDE DEF e, offs
  <2>3. Sound(p.d)
    BY <2>1, <2>2, SetIfMoves, MovesSound DEF Sound, Settled
  <2>4. Sound(q.d)
    BY <2>1, <2>3, TunerBwMoves, MovesSound DEF Sound, Settled
  <2> QED BY <2>1, <2>4, CenterFreqMoves, MovesSound DEF Sound, Settled
<1> QED BY <1>1, <1>2

(* rtlsdr_set_sample_rate, call by call: the offset follows when there is one. *)
Followed(d, o) ==
  \/ d.offs_freq = 0 /\ o.d = d
  \/ d.offs_freq # 0 /\ \E q \in SetOffsetTuning(d, TRUE) : o.d = q.d

LEMMA SampleRateSteps ==
  ASSUME NEW d, NEW rate, Supported(rate), NEW o \in SetSampleRate(d, rate)
  PROVE  \E p \in Resample(d, rate) : Followed(p.d, o)
<1> DEFINE Follow(e) == IF e.offs_freq = 0 THEN Done(e)
                        ELSE Ignore(SetOffsetTuning(e, TRUE))
<1>1. SetSampleRate(d, rate) = Then(Resample(d, rate), Follow)
  BY DEF SetSampleRate
<1>2. PICK p \in Resample(d, rate) : \E r \in Follow(p.d) : o.d = r.d
  <2> HIDE DEF Follow
  <2> QED BY <1>1 DEF Then
<1>3. PICK r \in Follow(p.d) : o.d = r.d
  BY <1>2
<1>4. p.d.offs_freq = 0 => r.d = p.d
  BY <1>3 DEF Done
<1>5. p.d.offs_freq # 0 => r \in Ignore(SetOffsetTuning(p.d, TRUE))
  BY <1>3
<1>6. r \in Ignore(SetOffsetTuning(p.d, TRUE))
      => \E q \in SetOffsetTuning(p.d, TRUE) : r.d = q.d
  <2> DEFINE tuned == SetOffsetTuning(p.d, TRUE)
  <2> HIDE DEF tuned
  <2>1. r \in Ignore(tuned) => \E q \in tuned : r.d = q.d
    BY DEF Ignore
  <2> QED BY <2>1 DEF tuned
<1> HIDE DEF Follow
<1> QED BY <1>2, <1>3, <1>4, <1>5, <1>6 DEF Followed

(* Whatever the rate was before: on a crystal that changed it is set again.  *)
LEMMA SampleRateSound ==
  ASSUME NEW d, Settled(d), NEW rate, RatesFit => rate \in Rates,
         ~Supported(rate) => Sound(d), NEW o \in SetSampleRate(d, rate)
  PROVE  Sound(o.d)
<1>0. CASE ~Supported(rate)
  BY <1>0 DEF SetSampleRate, Refused
<1> SUFFICES ASSUME Supported(rate) PROVE Sound(o.d)
  BY <1>0
<1>a. PICK p \in Resample(d, rate) : Followed(p.d, o)
  BY SampleRateSteps
<1>1. \/ p.d.offs_freq = 0 /\ o.d = p.d
      \/ p.d.offs_freq # 0 /\ \E q \in SetOffsetTuning(p.d, TRUE) : o.d = q.d
  BY <1>a DEF Followed
<1>2. Settled(p.d) /\ (RatesFit => RateTrue(p.d))
  BY ResampleTrue
<1>3. CASE p.d.offs_freq = 0
  BY <1>1, <1>2, <1>3 DEF Sound, OffsetTrue
<1>4. ASSUME p.d.offs_freq # 0, NEW q \in SetOffsetTuning(p.d, TRUE)
      PROVE  Sound(q.d)
  <2>1. Careful => ~(IsR82xx(p.d) \/ p.d.direct_sampling # 0)
    BY <1>2, <1>4 DEF Settled, Apart
  <2> QED BY <1>2, <1>4, <2>1, OffsetSound
<1> QED BY <1>1, <1>3, <1>4

LEMMA RetuneMoves ==
  ASSUME NEW d, Shaped(d), NEW o \in Retune(d) PROVE Moves(d, o.d)
<1>1. o \in Done(d) \/ o \in SetCenterFreq(d, d.freq)
  BY DEF Retune
<1> QED BY <1>1, OtherMoves, CenterFreqMoves

LEMMA CorrectionMoves ==
  ASSUME NEW d, Shaped(d), NEW ppm, NEW o \in SetFreqCorrection(d, ppm)
  PROVE  Moves(d, o.d)
<1> DEFINE e == [d EXCEPT !.corr = ppm]
<1>1. \/ o.d = d
      \/ \E p, q : /\ p \in Done(e) \/ p \in Broken(e)
                   /\ q \in Retune(p.d) /\ o.d = q.d
  BY DEF SetFreqCorrection, Refused, Then
<1>2. Moves(d, e) /\ Shaped(e)
  BY MovesAside DEF Moves
<1> HIDE DEF e
<1>3. ASSUME NEW p, p \in Done(e) \/ p \in Broken(e)
      PROVE  Moves(d, p.d) /\ Shaped(p.d)
  BY <1>2, <1>3, OtherMoves, MovesBoth DEF Moves
<1> QED BY <1>1, <1>3, RetuneMoves, MovesBoth, MovesNone

(* rtlsdr_set_xtal_freq: the rate on the new crystal, then the tuner's clock. *)
Reclocked(d, rtl, p) ==
  LET e == [d EXCEPT !.rtl_xtal = rtl]
  IN  \/ p.d = d
      \/ rtl # 0 /\ d.rate = 0 /\ p.d = e
      \/ rtl # 0 /\ d.rate # 0 /\ p \in SetSampleRate(e, e.rate)

Clocked(d, tuner) == [d EXCEPT !.tun_xtal = IF tuner = 0 THEN d.rtl_xtal ELSE tuner]

Rejoined(d, tuner, o) ==
  \/ o.d = d
  \/ o.d = Clocked(d, tuner) /\ d.freq = 0
  \/ o \in Retune(Clocked(d, tuner))

LEMMA XtalFreqSteps ==
  ASSUME NEW d, NEW rtl, NEW tuner, ~(rtl # 0 /\ (rtl < MinRtlXtal \/ rtl > MaxRtlXtal)),
         NEW o \in SetXtalFreq(d, rtl, tuner)
  PROVE  \E p : Reclocked(d, rtl, p) /\ Rejoined(p.d, tuner, o)
<1> DEFINE e == [d EXCEPT !.rtl_xtal = rtl]
           Tuner(p) == [p.d EXCEPT !.tun_xtal = IF tuner = 0 THEN p.d.rtl_xtal ELSE tuner]
           clocked == IF rtl \in {0, d.rtl_xtal} THEN Done(d)
                 ELSE IF d.rate = 0 THEN Done(e) ELSE SetSampleRate(e, e.rate)
<1>1. PICK p \in clocked : o = p \/ (o.d = Tuner(p) /\ p.d.freq = 0) \/ o \in Retune(Tuner(p))
  <2> HIDE DEF clocked
  <2>1. PICK p \in clocked :
          o \in IF p.d.tun_xtal = tuner THEN {p}
                ELSE IF p.d.freq = 0 THEN Storing({p}, Tuner) ELSE Retune(Tuner(p))
    BY DEF SetXtalFreq, clocked
  <2> HIDE DEF Tuner
  <2> QED BY <2>1 DEF Storing
<1>2. \/ p.d = d
      \/ rtl # 0 /\ d.rate = 0 /\ p.d = e
      \/ rtl # 0 /\ d.rate # 0 /\ p \in SetSampleRate(e, e.rate)
  BY DEF Done
<1>3. Rejoined(p.d, tuner, o)
  BY <1>1 DEF Rejoined, Clocked
<1>4. Reclocked(d, rtl, p)
  BY <1>2 DEF Reclocked
<1> QED BY <1>3, <1>4

LEMMA XtalSettled ==
  ASSUME NEW d, Settled(d), NEW rtl \in RtlXtals, ~(rtl < MinRtlXtal \/ rtl > MaxRtlXtal)
  PROVE  Settled([d EXCEPT !.rtl_xtal = rtl])
<1> DEFINE e == [d EXCEPT !.rtl_xtal = rtl]
<1>1. /\ Shaped(e) /\ e.rtl_xtal = rtl
      /\ e.tuner_type = d.tuner_type /\ e.offs_freq = d.offs_freq
      /\ e.direct_sampling = d.direct_sampling /\ e.failures = d.failures
      /\ e.chip = d.chip /\ e.shadow = d.shadow
  BY DEF Settled, Shaped, Fields
<1>2. rtl \in Crystals
  BY DEF Crystals
<1> HIDE DEF e
<1>3. Settled(e)
  BY <1>1, <1>2 DEF Settled, Told, Apart, IsR82xx
<1> QED BY <1>3 DEF e

LEMMA XtalFreqSound ==
  ASSUME NEW d, Sound(d), NEW rtl \in RtlXtals, NEW tuner,
         NEW o \in SetXtalFreq(d, rtl, tuner)
  PROVE  Sound(o.d)
<1> DEFINE e == [d EXCEPT !.rtl_xtal = rtl]
<1>1. CASE rtl # 0 /\ (rtl < MinRtlXtal \/ rtl > MaxRtlXtal)
  BY <1>1 DEF SetXtalFreq, Refused
<1>2. CASE ~(rtl # 0 /\ (rtl < MinRtlXtal \/ rtl > MaxRtlXtal))
  <2>a. PICK p : Reclocked(d, rtl, p) /\ Rejoined(p.d, tuner, o)
    BY <1>2, XtalFreqSteps
  <2>1. \/ p.d = d
        \/ rtl # 0 /\ d.rate = 0 /\ p.d = e
        \/ rtl # 0 /\ d.rate # 0 /\ p \in SetSampleRate(e, e.rate)
    BY <2>a DEF Reclocked
  <2>2. rtl # 0 => /\ Settled(e) /\ e.rate = d.rate
                   /\ OffsetTrue(d) => OffsetTrue(e)
    <3> SUFFICES ASSUME rtl # 0 PROVE /\ Settled(e) /\ e.rate = d.rate
                                      /\ OffsetTrue(d) => OffsetTrue(e)
      OBVIOUS
    <3>1. Settled(e)
      BY <1>2, XtalSettled DEF Sound
    <3>2. e.rate = d.rate /\ e.offs_freq = d.offs_freq
      BY DEF Sound, Settled, Shaped, Fields
    <3> HIDE DEF e
    <3> QED BY <3>1, <3>2 DEF OffsetTrue
  <2> HIDE DEF e
  <2>3. Sound(p.d)
    <3>1. CASE p.d = d
      BY <3>1
    <3>2. CASE rtl # 0 /\ d.rate = 0 /\ p.d = e
      BY <2>2, <3>2 DEF Sound, RateTrue
    <3>3. CASE rtl # 0 /\ d.rate # 0 /\ p \in SetSampleRate(e, e.rate)
      <4>1. /\ RatesFit => e.rate \in Rates
            /\ ~Supported(e.rate) => Sound(e)
        BY <2>2, <3>3 DEF Sound, RateTrue
      <4> QED BY <2>2, <3>3, <4>1, SampleRateSound
    <3> QED BY <2>1, <3>1, <3>2, <3>3
  <2>4. Sound(Clocked(p.d, tuner))
    BY <2>3, MovesAside, MovesSound DEF Sound, Settled, Clocked
  <2> QED BY <2>a, <2>3, <2>4, RetuneMoves, MovesSound DEF Sound, Settled, Rejoined
<1> QED BY <1>1, <1>2

(* rtlsdr_set_direct_sampling: the tuner sleeps or wakes, with the DDC set for *)
(* it; then the ADC inputs are switched and the frequency is set.            *)
Woken(d, on, p) ==
  \/ on # 0 /\ p \in TunerExit(d)
  \/ on = 0 /\ \E s \in TunerInit(d) :
                 \E t \in SetIf(s.d, IF IsR82xx(s.d) THEN R82xxIf ELSE 0) :
                   p.d = t.d

Sampling(d, on) == [d EXCEPT !.direct_sampling = on]

Switched(d, on, o) == \E r \in SetCenterFreq(Sampling(d, on), d.freq) : o.d = r.d

LEMMA DirectSteps ==
  ASSUME NEW d, NEW on, NEW o \in SetDirectSampling(d, on)
  PROVE  \E p : Woken(d, on, p) /\ \E q \in Demod(p.d, "path", <<on>>) : Switched(q.d, on, o)
<1> DEFINE Store(e) == [e EXCEPT !.direct_sampling = on]
           Tune(f) == SetCenterFreq(Store(f), f.freq)
           Switch(e) == Then(Demod(e, "path", <<on>>), Tune)
           Zero(e) == SetIf(e, IF IsR82xx(e) THEN R82xxIf ELSE 0)
           awake == Then(TunerInit(d), Zero)
<1>1. SetDirectSampling(d, on) = IF on # 0 THEN Then(TunerExit(d), Switch)
                                 ELSE Then(awake, Switch)
  BY DEF SetDirectSampling
<1>2. PICK p : /\ (on # 0 /\ p \in TunerExit(d)) \/ (on = 0 /\ p \in awake)
               /\ \E t \in Switch(p.d) : o.d = t.d
  <2> HIDE DEF Switch, awake
  <2> QED BY <1>1 DEF Then
<1>3. PICK q \in Demod(p.d, "path", <<on>>) : \E r \in Tune(q.d) : o.d = r.d
  <2>1. \A t \in Switch(p.d) : \E q \in Demod(p.d, "path", <<on>>) :
          \E r \in Tune(q.d) : t.d = r.d
    <3> HIDE DEF Tune
    <3> QED BY DEF Then
  <2> HIDE DEF Switch, Tune
  <2> QED BY <1>2, <2>1
<1>4. p \in awake => \E s \in TunerInit(d) : \E t \in Zero(s.d) : p.d = t.d
  <2> HIDE DEF Zero
  <2> QED BY DEF Then
<1>5. \A e : Zero(e) = SetIf(e, IF IsR82xx(e) THEN R82xxIf ELSE 0)
  OBVIOUS
<1>6. Woken(d, on, p)
  <2> HIDE DEF Switch, Zero, awake
  <2> QED BY <1>2, <1>4, <1>5 DEF Woken
<1>7. Switched(q.d, on, o)
  BY <1>3 DEF Switched, Sampling
<1> HIDE DEF Tune, Switch
<1> QED BY <1>6, <1>7

(* There is nothing to take back when the sampling mode changes.             *)
LEMMA DirectSound ==
  ASSUME NEW d, Sound(d), Careful => d.offs_freq = 0, NEW on,
         NEW o \in SetDirectSampling(d, on)
  PROVE  Sound(o.d)
<1>1. PICK p : Woken(d, on, p) /\ \E q \in Demod(p.d, "path", <<on>>) : Switched(q.d, on, o)
  BY DirectSteps
<1>2. PICK q \in Demod(p.d, "path", <<on>>) : Switched(q.d, on, o)
  BY <1>1
<1>3. Moves(d, p.d) /\ Shaped(p.d)
  <2>1. Shaped(d)
    BY DEF Sound, Settled
  <2>2. ASSUME NEW s \in TunerInit(d), NEW v, NEW t \in SetIf(s.d, v)
        PROVE  Moves(d, t.d)
    <3>1. Moves(d, s.d) /\ Shaped(s.d)
      BY <2>1, TunerInitMoves DEF Moves
    <3>2. Moves(s.d, t.d)
      BY <3>1, SetIfMoves
    <3> QED BY <3>1, <3>2, MovesBoth
  <2>3. p \in TunerExit(d) => Moves(d, p.d)
    BY <2>1, TunerExitMoves
  <2>4. Moves(d, p.d)
    BY <1>1, <2>2, <2>3 DEF Woken
  <2> QED BY <2>4 DEF Moves
<1>4. Moves(d, q.d)
  BY <1>3, DemodMoves, MovesBoth
<1>5. Sound(q.d) /\ (Careful => q.d.offs_freq = 0)
  BY <1>4, MovesSound DEF Moves, Same, Steady
<1> DEFINE x == Sampling(q.d, on)
<1>6. /\ Shaped(x) /\ x.rate = q.d.rate /\ x.rtl_xtal = q.d.rtl_xtal
      /\ x.tuner_type = q.d.tuner_type /\ x.offs_freq = q.d.offs_freq
      /\ x.ratio = q.d.ratio /\ x.failures = q.d.failures
      /\ x.chip = q.d.chip /\ x.shadow = q.d.shadow
  BY <1>5 DEF Sound, Settled, Shaped, Fields, Sampling
<1> HIDE DEF x
<1>7. Sound(x)
  BY <1>5, <1>6 DEF Sound, Settled, Told, Apart, IsR82xx, RateTrue, OffsetTrue
<1>8. \A r \in SetCenterFreq(x, q.d.freq) : Moves(x, r.d)
  BY <1>7, CenterFreqMoves DEF Sound, Settled
<1> QED BY <1>2, <1>7, <1>8, MovesSound DEF Switched, x

(* rtlsdr_open: what precedes the tuner's init, whose result nobody sees.     *)
Begun(kind, p) ==
  LET d == Fresh(kind)
  IN  \/ IsR82xx(d) /\ \E t \in SetIf(d, R82xxIf) : p.d = t.d
      \/ kind = "UNKNOWN" /\ \E t \in SetDirectSampling(d, 1) : p.d = t.d
      \/ ~IsR82xx(d) /\ p.d = d

LEMMA OpenedSteps ==
  ASSUME NEW kind \in Kinds, NEW o \in Opened(kind)
  PROVE  \E p, q : Begun(kind, p) /\ q \in TunerInit(p.d) /\ o.d = q.d
<1> DEFINE d == Fresh(kind)
           prepared == CASE IsR82xx(d) -> Ignore(SetIf(d, R82xxIf))
                         [] kind = "UNKNOWN" -> Ignore(SetDirectSampling(d, 1))
                         [] OTHER -> Done(d)
           Started(e) == Ignore(TunerInit(e))
<1>1. Opened(kind) = Then(prepared, Started)
  BY DEF Opened
<1>2. d.tuner_type = kind
  BY DEF Fresh
<1>3. \/ IsR82xx(d) /\ prepared = Ignore(SetIf(d, R82xxIf))
      \/ kind = "UNKNOWN" /\ prepared = Ignore(SetDirectSampling(d, 1))
      \/ ~IsR82xx(d) /\ prepared = Done(d)
  <2> HIDE DEF d
  <2>1. kind = "UNKNOWN" => ~IsR82xx(d)
    BY <1>2 DEF IsR82xx
  <2> QED BY <2>1
<1> HIDE DEF d, prepared
<1>4. PICK p \in prepared : \E t \in Started(p.d) : o.d = t.d
  <2> HIDE DEF Started
  <2> QED BY <1>1 DEF Then
<1>5. PICK q \in TunerInit(p.d) : o.d = q.d
  BY <1>4, IgnoreTells
<1>6. Begun(kind, p)
  <2>1. CASE IsR82xx(d) /\ prepared = Ignore(SetIf(d, R82xxIf))
    <3>1. p \in Ignore(SetIf(d, R82xxIf))
      BY <1>4, <2>1
    <3> QED BY <2>1, <3>1, IgnoreTells DEF Begun, d
  <2>2. CASE kind = "UNKNOWN" /\ prepared = Ignore(SetDirectSampling(d, 1))
    <3>1. p \in Ignore(SetDirectSampling(d, 1))
      BY <1>4, <2>2
    <3> QED BY <2>2, <3>1, IgnoreTells DEF Begun, d
  <2>3. CASE ~IsR82xx(d) /\ prepared = Done(d)
    BY <1>4, <2>3, OnlyTells DEF Begun, d
  <2> QED BY <1>3, <2>1, <2>2, <2>3
<1> QED BY <1>5, <1>6

(* A device that has just been opened has no rate and no offset yet.         *)
LEMMA OpenedSound ==
  ASSUME NEW kind \in Kinds, NEW o \in Opened(kind) PROVE Sound(o.d)
<1> DEFINE d == Fresh(kind)
<1>1. Sound(d)
  <2>1. Shaped(d)
    BY DEF Fresh, Shaped, Fields, All
  <2>2. /\ d.rtl_xtal = Xtal /\ d.rate = 0 /\ d.offs_freq = 0
        /\ d.chip = All(Unknown) /\ d.shadow = All(Unknown)
    BY DEF Fresh, Xtal
  <2> HIDE DEF d
  <2> QED BY <2>1, <2>2 DEF Sound, Settled, RateTrue, OffsetTrue, Told, Apart, Crystals, All
<1>2. d.offs_freq = 0
  BY DEF Fresh
<1> HIDE DEF d
<1>3. PICK p, q : Begun(kind, p) /\ q \in TunerInit(p.d) /\ o.d = q.d
  BY OpenedSteps
<1>4. Sound(p.d)
  <2>1. ASSUME NEW t \in SetIf(d, R82xxIf), p.d = t.d PROVE Sound(p.d)
    <3> DEFINE if == R82xxIf
    <3> HIDE DEF if
    <3>1. Moves(d, t.d)
      BY <1>1, SetIfMoves DEF Sound, Settled
    <3> QED BY <1>1, <2>1, <3>1, MovesSound
  <2>2. ASSUME NEW t \in SetDirectSampling(d, 1), p.d = t.d PROVE Sound(p.d)
    BY <1>1, <1>2, <2>2, DirectSound
  <2> QED BY <1>1, <1>3, <2>1, <2>2 DEF Begun, d
<1>5. Moves(p.d, q.d)
  BY <1>3, <1>4, TunerInitMoves DEF Sound, Settled
<1> QED BY <1>3, <1>4, <1>5, MovesSound

------------------------------------------------------------------------------
(* Tuning.  The fields that say where the device is tuned, and what a call   *)
(* that does not tune leaves alone.                                          *)
Tuning == {"tuner_type", "freq", "offs_freq", "direct_sampling", "tun_xtal",
           "corr", "int_freq", "ddc"}

FcTuners == {"FC0012", "FC0013", "FC2580"}

(* The tuner has been told osc.                                              *)
Heard(d, osc) ==
  /\ d.tuner_type \in FcTuners \/ d.failures = 0 => d.chip["pll"] = PllFor(d, osc)
  /\ d.failures = 0 => d.chip["mux"] = FrontEnd(d.tuner_type, osc)

Tuned(d) == d.freq # 0 /\ d.direct_sampling = 0 => Heard(d, Oscillator(d))

(* What is in the band is brought to zero.                                   *)
Level(d) ==
  d.failures = 0 =>
    /\ d.direct_sampling = 0 => d.ddc[1] = IF IsR82xx(d) THEN d.int_freq ELSE d.offs_freq
    /\ d.direct_sampling # 0 /\ d.freq # 0 => d.ddc[1] = d.freq /\ d.ddc[3] = d.corr

(* What a change of frequency needs: through the tuner, an IF that is right  *)
(* already.                                                                  *)
Poised(d) == d.direct_sampling = 0 => Level(d)

Stays(d, e) ==
  /\ \A f \in Tuning : e[f] = d[f]
  /\ e.failures = 0 => d.failures = 0
  /\ e.chip["pll"] = d.chip["pll"]
  /\ e.failures = 0 => e.chip["mux"] = d.chip["mux"]

LEMMA StaysBoth ==
  ASSUME NEW c, NEW d, NEW e, Stays(c, d), Stays(d, e) PROVE Stays(c, e)
BY DEF Stays

LEMMA StaysNone == ASSUME NEW d PROVE Stays(d, d)
BY DEF Stays

LEMMA StaysTuned ==
  ASSUME NEW d, NEW e, Stays(d, e)
  PROVE  /\ e.freq = d.freq
         /\ Tuned(d) => Tuned(e)
         /\ Level(d) => Level(e)
<1>1. /\ e.tuner_type = d.tuner_type /\ e.freq = d.freq /\ e.offs_freq = d.offs_freq
      /\ e.direct_sampling = d.direct_sampling /\ e.tun_xtal = d.tun_xtal
      /\ e.corr = d.corr /\ e.int_freq = d.int_freq /\ e.ddc = d.ddc
  BY DEF Stays, Tuning
<1>2. IsR82xx(e) <=> IsR82xx(d)
  BY <1>1 DEF IsR82xx
<1>3. Oscillator(e) = Oscillator(d)
  BY <1>1, <1>2 DEF Oscillator, Upconverted, IsBlogV4
<1>4. \A x : PllFor(e, x) = PllFor(d, x)
  BY <1>1 DEF PllFor
<1> QED BY <1>1, <1>2, <1>3, <1>4 DEF Stays, Tuned, Heard, Level

LEMMA BrokenStays ==
  ASSUME NEW d, Shaped(d), NEW o \in Broken(d) PROVE Stays(d, o.d) /\ o.d.failures # 0
<1>1. o.d = [d EXCEPT !.failures = @ + 1]
  BY DEF Broken, Refused
<1> QED BY <1>1 DEF Shaped, Stays, Fields, Tuning

LEMMA StaysAside ==
  ASSUME NEW d, Shaped(d), NEW f \in {"rate", "bw", "gain", "rtl_xtal", "ratio", "path",
                                      "shadow", "input", "has_lock", "init_done",
                                      "unlocks"}, NEW v
  PROVE  Stays(d, [d EXCEPT ![f] = v])
BY DEF Stays, Shaped, Fields, Tuning

LEMMA ChipStays ==
  ASSUME NEW d, Shaped(d), NEW g \in Groups \ {"pll", "mux"}, NEW v
  PROVE  Stays(d, [d EXCEPT !.chip[g] = v])
BY DEF Stays, Shaped, Fields, Tuning, Groups

LEMMA OtherStays ==
  ASSUME NEW d, Shaped(d), NEW o,
         \/ o \in Done(d) \/ o \in Broken(d)
         \/ o \in Ignore(Broken(d)) \/ o \in Refused(d)
  PROVE  Stays(d, o.d)
<1>1. o.d = d \/ \E p \in Broken(d) : o.d = p.d
  BY DEF Done, Refused, Ignore
<1> QED BY <1>1, BrokenStays, StaysNone

(* The registers of an R82xx: a write leaves its own group told, whatever    *)
(* the shadow had, and the others alone.                                     *)
LEMMA WriteTells ==
  ASSUME NEW d, Shaped(d), Told(d), NEW g \in Groups, NEW v, g = "pll" => v # Boosted,
         NEW o \in R82Write(d, g, v)
  PROVE  /\ \A f \in Tuning : o.d[f] = d[f]
         /\ o.d.failures = 0 => /\ d.failures = 0 /\ o.d.chip[g] = v
         /\ \A h \in Groups \ {g} : o.d.chip[h] = d.chip[h]
         /\ ~o.ok => o.d.failures # 0
<1> DEFINE e == [d EXCEPT !.shadow[g] = v]
           sent == [e EXCEPT !.chip[g] = v]
           lost == [e EXCEPT !.chip[g] = Unknown]
<1>1. \/ o.d = d /\ o.ok /\ d.shadow[g] = v
      \/ o.d = sent /\ o.ok
      \/ o \in Broken(lost)
  BY DEF R82Write, Done
<1>2. CASE o.d = d /\ o.ok /\ d.shadow[g] = v
  BY <1>2 DEF Told
<1>3. CASE o.d = sent /\ o.ok
  <2>1. /\ \A f \in Tuning : sent[f] = d[f]
        /\ sent.failures = d.failures
        /\ sent.chip = [d.chip EXCEPT ![g] = v]
    BY DEF Shaped, Fields, Tuning
  <2> HIDE DEF sent
  <2> QED BY <1>3, <2>1 DEF Shaped
<1>4. CASE o \in Broken(lost)
  <2>1. /\ Shaped(lost)
        /\ \A f \in Tuning : lost[f] = d[f]
        /\ lost.chip = [d.chip EXCEPT ![g] = Unknown]
    BY DEF Shaped, Fields, Tuning
  <2> HIDE DEF lost
  <2>2. o.d = [lost EXCEPT !.failures = @ + 1]
    BY <1>4 DEF Broken, Refused
  <2>3. /\ \A f \in Tuning : o.d[f] = lost[f]
        /\ o.d.chip = lost.chip /\ o.d.failures # 0
    BY <2>1, <2>2 DEF Shaped, Fields, Tuning
  <2> QED BY <2>1, <2>3 DEF Shaped
<1> HIDE DEF sent, lost
<1> QED BY <1>1, <1>2, <1>3, <1>4

LEMMA PllTells ==
  ASSUME NEW d, Shaped(d), Told(d), NEW lo, NEW o \in R82SetPll(d, lo)
  PROVE  /\ \A f \in Tuning : o.d[f] = d[f]
         /\ o.d.failures = 0 => /\ d.failures = 0
                                /\ o.d.chip["pll"] = <<lo, d.tun_xtal, d.corr>>
         /\ \A h \in Groups \ {"pll"} : o.d.chip[h] = d.chip[h]
<1> DEFINE v == <<lo, d.tun_xtal, d.corr>>
           written == R82Write(d, "pll", v)
           Locked(e) == [e EXCEPT !.has_lock = TRUE]
           Boost(e) == [e EXCEPT !.has_lock = FALSE, !.unlocks = @ + 1,
                                 !.shadow["pll"] = Boosted]
           Lock(e) == Done(Locked(e)) \cup Broken(e)
                      \cup (IF e.failures + e.unlocks < MaxFaults
                            THEN Done(Boost(e)) ELSE {})
<1>a. R82SetPll(d, lo) = Broken(d) \cup IfOk(written, Lock)
  BY DEF R82SetPll
<1>b. v # Boosted
  BY DEF Boosted
<1> HIDE DEF v
<1>1. \/ o \in Broken(d)
      \/ \E p \in written : \/ o = p
                            \/ o.d = Locked(p.d) \/ o \in Broken(p.d) \/ o.d = Boost(p.d)
  <2> HIDE DEF written, Locked, Boost
  <2>1. o \in Broken(d) \/ \E p \in written : o = p \/ o \in Lock(p.d)
    <3> HIDE DEF Lock
    <3> QED BY <1>a DEF IfOk
  <2> QED BY <2>1 DEF Done
<1>2. \A x : Shaped(x) => \A q \in Broken(x) :
        /\ \A f \in Tuning : q.d[f] = x[f]
        /\ q.d.failures # 0 /\ q.d.chip = x.chip
  <2> SUFFICES ASSUME NEW x, Shaped(x), NEW q \in Broken(x)
               PROVE  /\ \A f \in Tuning : q.d[f] = x[f]
                      /\ q.d.failures # 0 /\ q.d.chip = x.chip
    OBVIOUS
  <2>1. q.d = [x EXCEPT !.failures = @ + 1]
    BY DEF Broken, Refused
  <2> QED BY <2>1 DEF Shaped, Fields, Tuning
<1>3. CASE o \in Broken(d)
  BY <1>2, <1>3
<1>4. ASSUME NEW p \in written,
             \/ o = p \/ o.d = Locked(p.d) \/ o \in Broken(p.d) \/ o.d = Boost(p.d)
      PROVE  /\ \A f \in Tuning : o.d[f] = p.d[f]
             /\ o.d.failures = 0 => p.d.failures = 0
             /\ o.d.chip = p.d.chip
  <2>1. Shaped(p.d)
    BY WriteMoves DEF Groups, Moves
  <2>2. \A e : Shaped(e) =>
          /\ \A f \in Tuning : Locked(e)[f] = e[f] /\ Boost(e)[f] = e[f]
          /\ Locked(e).failures = e.failures /\ Boost(e).failures = e.failures
          /\ Locked(e).chip = e.chip /\ Boost(e).chip = e.chip
    BY DEF Shaped, Fields, Tuning
  <2> HIDE DEF Locked, Boost
  <2> QED BY <1>2, <1>4, <2>1, <2>2
<1>5. \A p \in written :
        /\ \A f \in Tuning : p.d[f] = d[f]
        /\ p.d.failures = 0 => d.failures = 0 /\ p.d.chip["pll"] = v
        /\ \A h \in Groups \ {"pll"} : p.d.chip[h] = d.chip[h]
  BY <1>b, WriteTells DEF Groups
<1> HIDE DEF written, Locked, Boost
<1>6. CASE \E p \in written : \/ o = p
                              \/ o.d = Locked(p.d) \/ o \in Broken(p.d) \/ o.d = Boost(p.d)
  BY <1>4, <1>5, <1>6 DEF v
<1> QED BY <1>1, <1>3, <1>6

LEMMA SideStays ==
  ASSUME NEW d, Shaped(d), IsR82xx(d), Told(d), NEW g \in Groups \ {"pll", "mux"}, NEW v,
         NEW o \in R82Write(d, g, v)
  PROVE  Stays(d, o.d) /\ Shaped(o.d) /\ IsR82xx(o.d) /\ Told(o.d)
<1>1. Moves(d, o.d)
  BY WriteMoves
<1>2. Stays(d, o.d)
  BY WriteTells DEF Groups, Stays
<1> QED BY <1>1, <1>2 DEF Moves, Same, Steady, IsR82xx

LEMMA InputStays ==
  ASSUME NEW d, Shaped(d), IsR82xx(d), Told(d), NEW in
  PROVE  LET e == [d EXCEPT !.input = in]
         IN  Stays(d, e) /\ Shaped(e) /\ IsR82xx(e) /\ Told(e)
<1> DEFINE e == [d EXCEPT !.input = in]
<1>1. Stays(d, e) /\ Moves(d, e)
  BY StaysAside, MovesAside
<1> HIDE DEF e
<1>2. Stays(d, e) /\ Shaped(e) /\ IsR82xx(e) /\ Told(e)
  BY <1>1 DEF Moves, Same, Steady, IsR82xx
<1> QED BY <1>2 DEF e

LEMMA V4Tells ==
  ASSUME NEW d, Shaped(d), IsR82xx(d), Told(d), NEW freq, NEW o \in V4SetInput(d, freq)
  PROVE  Stays(d, o.d)
<1> DEFINE band == V4Band(freq)
<1>1. PICK p \in R82Write(d, "notch", V4Notch(freq)) : o.d = p.d \/ V4Switched(p.d, band, o)
  BY V4Steps
<1>2. Stays(d, p.d) /\ Shaped(p.d) /\ IsR82xx(p.d) /\ Told(p.d)
  BY SideStays DEF Groups
<1> HIDE DEF band
<1>3. ASSUME V4Switched(p.d, band, o) PROVE Stays(p.d, o.d)
  <2> DEFINE e == InBand(p.d, band)
  <2>1. Stays(p.d, e) /\ Shaped(e) /\ IsR82xx(e) /\ Told(e)
    BY <1>2, InputStays DEF InBand
  <2>2. PICK q \in R82Write(e, "cable2", V4Cable2(band)) :
          \/ o.d = q.d
          \/ \E f : /\ f \in Done(q.d) \/ f \in Ignore(Broken(q.d))
                   /\ \E r \in R82Write(f.d, "input", V4Input(band)) : o.d = r.d
    BY <1>3 DEF V4Switched
  <2> HIDE DEF e
  <2>3. Stays(e, q.d) /\ Shaped(q.d) /\ IsR82xx(q.d) /\ Told(q.d)
    BY <2>1, SideStays DEF Groups
  <2>4. ASSUME NEW f, f \in Done(q.d) \/ f \in Ignore(Broken(q.d)),
               NEW r \in R82Write(f.d, "input", V4Input(band)), o.d = r.d
        PROVE  Stays(q.d, o.d)
    <3>1. Stays(q.d, f.d) /\ Moves(q.d, f.d)
      BY <2>3, <2>4, OtherStays, OtherMoves
    <3>2. Shaped(f.d) /\ IsR82xx(f.d) /\ Told(f.d)
      BY <2>3, <3>1 DEF Moves, Same, Steady, IsR82xx
    <3>3. Stays(f.d, r.d)
      BY <3>2, SideStays DEF Groups
    <3> QED BY <2>4, <3>1, <3>3, StaysBoth
  <2>5. Stays(e, o.d)
    BY <2>2, <2>3, <2>4, StaysBoth
  <2> QED BY <2>1, <2>5, StaysBoth
<1> QED BY <1>1, <1>2, <1>3, StaysBoth

LEMMA InputTells ==
  ASSUME NEW d, Shaped(d), IsR82xx(d), Told(d), NEW freq, NEW o \in R82SetInput(d, freq)
  PROVE  Stays(d, o.d)
<1>1. CASE o \in V4SetInput(d, freq)
  BY <1>1, V4Tells
<1>2. CASE o \in R828dSetInput(d, freq)
  <2> DEFINE in == R828dInput(freq)
             e == [d EXCEPT !.input = in]
  <2>1. o.d = d \/ o \in R82Write(e, "input", in)
    BY <1>2 DEF R828dSetInput, Done
  <2> HIDE DEF in
  <2>2. Stays(d, e) /\ Shaped(e) /\ IsR82xx(e) /\ Told(e)
    BY InputStays
  <2> HIDE DEF e
  <2>3. o \in R82Write(e, "input", in) => Stays(e, o.d)
    BY <2>2, SideStays DEF Groups
  <2> QED BY <2>1, <2>2, <2>3, StaysBoth, StaysNone
<1> QED BY <1>1, <1>2 DEF R82SetInput

LEMMA MuxTells ==
  ASSUME NEW d, Shaped(d), IsR82xx(d), Told(d), NEW lo, NEW o \in R82SetMux(d, lo)
  PROVE  /\ \A f \in Tuning : o.d[f] = d[f]
         /\ o.d.failures = 0 => o.d.chip["mux"] = <<Band(lo)>> \/ ~o.ok
<1> DEFINE drain == <<OpenDrain(lo)>>
           mux == <<Band(lo)>>
<1>1. PICK p \in R82Write(d, "notch", drain) :
        (o = p /\ ~p.ok) \/ o \in R82Write(p.d, "mux", mux)
  BY DEF R82SetMux, IfOk
<1> HIDE DEF drain, mux
<1>2. Stays(d, p.d) /\ Shaped(p.d) /\ Told(p.d)
  BY SideStays DEF Groups
<1>3. ASSUME o \in R82Write(p.d, "mux", mux)
      PROVE  /\ \A f \in Tuning : o.d[f] = p.d[f]
             /\ o.d.failures = 0 => o.d.chip["mux"] = mux
  <2>1. "mux" # "pll"
    OBVIOUS
  <2> QED BY <1>2, <1>3, <2>1, WriteTells DEF Groups
<1> QED BY <1>1, <1>2, <1>3 DEF Stays, mux

(* r82xx_set_freq: where it returns 0 and nothing has failed, mux and PLL    *)
(* are those of the frequency, with or without a lock.                       *)
LEMMA R82FreqTells ==
  ASSUME NEW d, Shaped(d), IsR82xx(d), Told(d), NEW freq, NEW o \in R82SetFreq(d, freq)
  PROVE  /\ \A f \in Tuning : o.d[f] = d[f]
         /\ o.ok => Heard(o.d, Upconverted(d, freq) + d.int_freq)
<1> DEFINE lo == Upconverted(d, freq) + d.int_freq
           Input(e) == IF e.has_lock THEN R82SetInput(e, freq) ELSE Done(e)
           Lock(e) == IfOk(R82SetPll(e, lo), Input)
<1>a. R82SetFreq(d, freq) = IfOk(R82SetMux(d, lo), Lock)
  BY DEF R82SetFreq
<1>1. PICK p \in R82SetMux(d, lo) : (o = p /\ ~p.ok) \/ (p.ok /\ o \in Lock(p.d))
  <2> HIDE DEF Lock
  <2> QED BY <1>a DEF IfOk
<1>2. o \in Lock(p.d) => \E q \in R82SetPll(p.d, lo) : (o = q /\ ~q.ok) \/ o \in Input(q.d)
  <2> HIDE DEF Input
  <2> QED BY DEF IfOk
<1> HIDE DEF Lock
<1>3. /\ Moves(d, p.d) /\ Shaped(p.d) /\ Told(p.d)
      /\ \A f \in Tuning : p.d[f] = d[f]
      /\ p.d.failures = 0 => p.d.chip["mux"] = <<Band(lo)>> \/ ~p.ok
  <2> HIDE DEF lo
  <2> QED BY MuxMoves, MuxTells DEF Moves
<1>4. ASSUME p.ok, NEW q \in R82SetPll(p.d, lo)
      PROVE  /\ Moves(p.d, q.d) /\ Shaped(q.d) /\ Told(q.d)
             /\ \A f \in Tuning : q.d[f] = d[f]
             /\ q.d.failures = 0 => /\ q.d.chip["mux"] = <<Band(lo)>>
                                    /\ q.d.chip["pll"] = <<lo, d.tun_xtal, d.corr>>
  <2> HIDE DEF lo
  <2>1. IsR82xx(p.d) /\ p.d.tun_xtal = d.tun_xtal /\ p.d.corr = d.corr
    BY <1>3 DEF Tuning, IsR82xx
  <2>2. Moves(p.d, q.d) /\ Shaped(q.d) /\ Told(q.d)
    BY <1>3, <2>1, PllMoves DEF Moves
  <2> QED BY <1>3, <1>4, <2>1, <2>2, PllTells DEF Groups
<1>5. CASE o = p /\ ~p.ok
  BY <1>3, <1>5
<1>6. ASSUME p.ok, NEW q \in R82SetPll(p.d, lo), (o = q /\ ~q.ok) \/ o \in Input(q.d)
      PROVE  /\ \A f \in Tuning : o.d[f] = d[f]
             /\ o.ok => Heard(o.d, lo)
  <2>q. Shaped(q.d) /\ Told(q.d) /\ IsR82xx(q.d)
    BY <1>4, <1>6 DEF Tuning, IsR82xx
  <2>1. CASE o = q /\ ~q.ok
    BY <1>4, <1>6, <2>1
  <2>2. CASE o \in Input(q.d)
    <3> HIDE DEF lo
    <3>1. Stays(q.d, o.d)
      BY <2>q, <2>2, InputTells, StaysNone DEF Done
    <3>2. /\ \A f \in Tuning : o.d[f] = d[f]
          /\ o.d.failures = 0 => /\ o.d.chip["mux"] = <<Band(lo)>>
                                 /\ o.d.chip["pll"] = <<lo, d.tun_xtal, d.corr>>
      BY <1>4, <1>6, <3>1 DEF Stays
    <3>3. /\ o.d.tuner_type \in {"R820T", "R828D", "Blog V4"}
          /\ o.d.tun_xtal = d.tun_xtal /\ o.d.corr = d.corr
      BY <3>2 DEF IsR82xx, Tuning
    <3>4. /\ PllFor(o.d, lo) = <<lo, d.tun_xtal, d.corr>>
          /\ FrontEnd(o.d.tuner_type, lo) = <<Band(lo)>>
      BY <3>3 DEF PllFor, FrontEnd
    <3> QED BY <3>2, <3>3, <3>4 DEF Heard, FcTuners
  <2> QED BY <1>6, <2>1, <2>2
<1> QED BY <1>1, <1>2, <1>5, <1>6

(* The other tuners.                                                         *)
Sends(d, g, v, o) ==
  /\ Shaped(o.d) /\ \A f \in Tuning : o.d[f] = d[f]
  /\ o.d.failures = 0 => d.failures = 0 /\ o.d.chip[g] = v
  /\ o.ok => o.d.chip[g] = v
  /\ \A h \in Groups \ {g} : o.d.chip[h] = d.chip[h]

LEMMA SendTells ==
  ASSUME NEW d, Shaped(d), NEW g \in Groups, NEW v, NEW o \in Send(d, g, v)
  PROVE  Sends(d, g, v, o)
<1> DEFINE e(w) == [d EXCEPT !.chip[g] = w]
<1>1. o.d = e(v) \/ (o \in Broken(e(Unknown)) /\ ~o.ok)
  BY DEF Send, Done, Broken, Refused
<1>2. \A w : /\ Shaped(e(w)) /\ \A f \in Tuning : e(w)[f] = d[f]
             /\ e(w).failures = d.failures /\ e(w).chip = [d.chip EXCEPT ![g] = w]
  BY DEF Shaped, Fields, Tuning
<1> HIDE DEF e
<1>a. \A w : /\ e(w).chip[g] = w
             /\ \A h \in Groups \ {g} : e(w).chip[h] = d.chip[h]
  <2>1. DOMAIN d.chip = Groups
    BY DEF Shaped
  <2> QED BY <1>2, <2>1
<1>3. CASE o.d = e(v)
  <2> DEFINE x == e(v)
  <2>1. /\ Shaped(x) /\ \A f \in Tuning : x[f] = d[f]
        /\ x.failures = d.failures /\ x.chip[g] = v
        /\ \A h \in Groups \ {g} : x.chip[h] = d.chip[h]
    BY <1>2, <1>a
  <2> HIDE DEF x
  <2>2. o.d = x
    BY <1>3 DEF x
  <2> QED BY <2>1, <2>2 DEF Sends
<1>4. CASE o \in Broken(e(Unknown)) /\ ~o.ok
  <2>1. Shaped(o.d) /\ o.d.failures # 0
    BY <1>2, <1>4, BrokenMoves
  <2>2. o.d = [e(Unknown) EXCEPT !.failures = @ + 1]
    BY <1>4 DEF Broken, Refused
  <2>3. /\ \A f \in Tuning : o.d[f] = e(Unknown)[f]
        /\ o.d.chip = e(Unknown).chip
    <3> DEFINE x == e(Unknown)
    <3>1. Shaped(x)
      BY <1>2
    <3>2. o.d = [x EXCEPT !.failures = @ + 1]
      BY <2>2
    <3> HIDE DEF x
    <3>3. (\A f \in Tuning : o.d[f] = x[f]) /\ o.d.chip = x.chip
      BY <3>1, <3>2 DEF Shaped, Fields, Tuning
    <3> QED BY <3>3 DEF x
  <2>4. \A f \in Tuning : o.d[f] = d[f]
    BY <1>2, <2>3
  <2>5. \A h \in Groups \ {g} : o.d.chip[h] = d.chip[h]
    BY <1>a, <2>3
  <2> QED BY <1>4, <2>1, <2>4, <2>5 DEF Sends
<1> QED BY <1>1, <1>3, <1>4

(* The drivers of the FC tuners answer for their PLL even after a failure.    *)
LEMMA FcHeard ==
  ASSUME NEW d, NEW o, NEW osc, \A f \in Tuning : o.d[f] = d[f],
         d.tuner_type \in FcTuners,
         o.ok => o.d.chip["pll"] = PllFor(d, osc),
         o.d.failures = 0 => o.d.chip["mux"] = FrontEnd(d.tuner_type, osc)
  PROVE  o.ok => Heard(o.d, osc)
<1>1. /\ o.d.tuner_type = d.tuner_type /\ o.d.tun_xtal = d.tun_xtal /\ o.d.corr = d.corr
  BY DEF Tuning
<1>2. PllFor(o.d, osc) = PllFor(d, osc)
  BY <1>1 DEF PllFor
<1> QED BY <1>1, <1>2 DEF Heard

LEMMA Fc001xTells ==
  ASSUME NEW d, Shaped(d), NEW freq, NEW o,
         \/ d.tuner_type = "FC0012" /\ o \in Fc0012SetParams(d, freq, PllFor(d, freq))
         \/ d.tuner_type = "FC0013" /\ o \in Fc0013SetParams(d, freq, PllFor(d, freq))
  PROVE  /\ \A f \in Tuning : o.d[f] = d[f]
         /\ o.ok => Heard(o.d, freq)
<1> DEFINE pll == PllFor(d, freq)
           front == FrontEnd(d.tuner_type, freq)
           Rest(e) == Send(e, "pll", pll)
<1>a. \/ o \in IfOk(Ignore(Send(d, "mux", front)), Rest)
      \/ o \in IfOk(Send(d, "mux", front), Rest)
  BY DEF Fc0012SetParams, Fc0013SetParams, FrontEnd
<1> HIDE DEF front, pll
<1>1. PICK p \in Send(d, "mux", front) : (o.d = p.d /\ ~o.ok) \/ o \in Send(p.d, "pll", pll)
  BY <1>a DEF IfOk, Ignore
<1>2. Sends(d, "mux", front, p)
  BY SendTells DEF Groups
<1>3. CASE o.d = p.d /\ ~o.ok
  BY <1>2, <1>3 DEF Sends
<1>4. CASE o \in Send(p.d, "pll", pll)
  <2>1. Sends(p.d, "pll", pll, o)
    BY <1>2, <1>4, SendTells DEF Groups, Sends
  <2>2. /\ \A f \in Tuning : o.d[f] = d[f]
        /\ o.ok => o.d.chip["pll"] = pll
        /\ o.d.failures = 0 => o.d.chip["mux"] = front
    BY <1>2, <2>1 DEF Sends, Groups
  <2> QED BY <2>2, FcHeard DEF front, pll, FcTuners
<1> QED BY <1>1, <1>3, <1>4

LEMMA Fc2580Tells ==
  ASSUME NEW d, Shaped(d), d.tuner_type = "FC2580", NEW freq, NEW o \in Fc2580SetFreq(d, freq)
  PROVE  /\ \A f \in Tuning : o.d[f] = d[f]
         /\ o.ok => Heard(o.d, freq)
<1> DEFINE pll == PllFor(d, freq)
           band == Fc2580Band(Fc2580Khz(freq))
           front == FrontEnd(d.tuner_type, freq)
           wide == <<Fc2580Filter(band)>>
           Rest(e) == Send(e, "pll", pll)
           Wide(e) == Send(e, "filter", wide)
<1>a. o \in Then(Then(Send(d, "mux", front), Wide), Rest)
  BY DEF Fc2580SetFreq, Fc2580SetFilter, FrontEnd, PllFor
<1> HIDE DEF pll, front, wide
<1>1. PICK s \in Then(Send(d, "mux", front), Wide) :
        \E r \in Rest(s.d) : o.d = r.d /\ (o.ok => r.ok)
  <2> DEFINE first == Then(Send(d, "mux", front), Wide)
  <2> HIDE DEF first, Rest
  <2>1. \E s \in first : \E r \in Rest(s.d) : o = [d |-> r.d, ok |-> r.ok /\ s.ok]
    BY <1>a DEF Then, first
  <2>2. PICK s \in first : \E r \in Rest(s.d) : o = [d |-> r.d, ok |-> r.ok /\ s.ok]
    BY <2>1
  <2>3. PICK r \in Rest(s.d) : o = [d |-> r.d, ok |-> r.ok /\ s.ok]
    BY <2>2
  <2>4. o.d = r.d /\ (o.ok => r.ok)
    BY <2>3, Zenon
  <2> QED BY <2>4 DEF first
<1>2. PICK p \in Send(d, "mux", front) : \E q \in Wide(p.d) : s.d = q.d
  <2> HIDE DEF Wide
  <2> QED BY DEF Then
<1>3. Sends(d, "mux", front, p)
  BY SendTells DEF Groups
<1>4. /\ Shaped(s.d) /\ \A f \in Tuning : s.d[f] = d[f]
      /\ s.d.failures = 0 => s.d.chip["mux"] = front
  <2>1. PICK q \in Send(p.d, "filter", wide) : s.d = q.d
    BY <1>2
  <2>2. Sends(p.d, "filter", wide, q)
    BY <1>3, SendTells DEF Groups, Sends
  <2> QED BY <1>3, <2>1, <2>2 DEF Sends, Groups
<1>5. /\ \A f \in Tuning : o.d[f] = d[f]
      /\ o.ok => o.d.chip["pll"] = pll
      /\ o.d.failures = 0 => o.d.chip["mux"] = front
  <2>1. PICK r \in Send(s.d, "pll", pll) : o.d = r.d /\ (o.ok => r.ok)
    BY <1>1
  <2>2. Sends(s.d, "pll", pll, r)
    BY <1>4, SendTells DEF Groups
  <2> QED BY <1>4, <2>1, <2>2 DEF Sends, Groups
<1> QED BY <1>5, FcHeard DEF front, pll, FcTuners

LEMMA E4kTells ==
  ASSUME NEW d, Shaped(d), d.tuner_type = "E4000", NEW freq,
         NEW o \in E4kTune(d, freq, PllFor(d, freq))
  PROVE  /\ \A f \in Tuning : o.d[f] = d[f]
         /\ o.ok => Heard(o.d, freq)
<1> DEFINE pll == PllFor(d, freq)
           front == E4kFront(freq)
           Unlocked(e) == [e EXCEPT !.unlocks = @ + 1]
           FrontSent(e) == Ignore(Send(e, "mux", front))
           tuned == Then(Ignore(Send(d, "pll", pll)), FrontSent)
           Lock(e) == Done(e) \cup Ignore(Broken(e))
                      \cup (IF e.failures + e.unlocks < MaxFaults
                            THEN Refused(Unlocked(e)) ELSE {})
<1>a. E4kTune(d, freq, pll) = Then(tuned, Lock)
  BY DEF E4kTune
<1> HIDE DEF pll, front, Unlocked
<1>1. PICK s \in tuned : \E r \in Lock(s.d) : o.d = r.d
  <2> HIDE DEF tuned, Lock
  <2> QED BY <1>a DEF Then, pll
<1>2. PICK p \in Send(d, "pll", pll) : \E q \in FrontSent(p.d) : s.d = q.d
  <2>1. PICK p \in Ignore(Send(d, "pll", pll)) : \E q \in FrontSent(p.d) : s.d = q.d
    <3> HIDE DEF FrontSent
    <3> QED BY DEF Then
  <2> HIDE DEF FrontSent
  <2> QED BY <2>1 DEF Ignore
<1>3. PICK q \in Send(p.d, "mux", front) : s.d = q.d
  <2>1. PICK t \in Ignore(Send(p.d, "mux", front)) : s.d = t.d
    BY <1>2
  <2> QED BY <2>1, IgnoreTells
<1>4. Sends(d, "pll", pll, p)
  BY SendTells DEF Groups
<1>5. Sends(p.d, "mux", front, q)
  BY <1>4, SendTells DEF Groups, Sends
<1>6. Stays(s.d, o.d)
  <2>1. Shaped(s.d)
    BY <1>3, <1>5 DEF Sends
  <2>2. o.d = s.d \/ (\E r \in Broken(s.d) : o.d = r.d) \/ o.d = Unlocked(s.d)
    <3>1. PICK r \in Lock(s.d) : o.d = r.d
      BY <1>1
    <3>2. r \in Done(s.d) \/ r \in Ignore(Broken(s.d)) \/ r \in Refused(Unlocked(s.d))
      BY <3>1
    <3> QED BY <3>1, <3>2, IgnoreTells, OnlyTells
  <2>3. Stays(s.d, Unlocked(s.d))
    BY <2>1, StaysAside DEF Unlocked
  <2> QED BY <2>1, <2>2, <2>3, BrokenStays, StaysNone
<1>7. /\ \A f \in Tuning : o.d[f] = d[f]
      /\ o.d.failures = 0 => /\ o.d.chip["pll"] = pll
                             /\ o.d.chip["mux"] = front
  BY <1>3, <1>4, <1>5, <1>6 DEF Stays, Sends, Groups
<1>8. /\ o.d.tuner_type = "E4000" /\ o.d.tun_xtal = d.tun_xtal /\ o.d.corr = d.corr
  BY <1>7 DEF Tuning
<1>9. PllFor(o.d, freq) = pll /\ FrontEnd(o.d.tuner_type, freq) = front
  BY <1>8 DEF PllFor, FrontEnd, pll, front
<1> QED BY <1>7, <1>8, <1>9 DEF Heard, FcTuners

LEMMA TunerFreqTells ==
  ASSUME NEW d, Shaped(d), IsR82xx(d) => Told(d), NEW freq, NEW o \in TunerSetFreq(d, freq)
  PROVE  /\ \A f \in Tuning : o.d[f] = d[f]
         /\ o.ok => Heard(o.d, IF IsR82xx(d) THEN Upconverted(d, freq) + d.int_freq ELSE freq)
<1>1. CASE IsR82xx(d)
  <2>1. o \in R82SetFreq(d, freq)
    BY <1>1 DEF TunerSetFreq, IsR82xx
  <2> QED BY <1>1, <2>1, R82FreqTells
<1>2. CASE ~IsR82xx(d)
  <2>1. \/ d.tuner_type = "E4000" /\ o \in E4kTune(d, freq, PllFor(d, freq))
        \/ d.tuner_type = "FC0012" /\ o \in Fc0012SetParams(d, freq, PllFor(d, freq))
        \/ d.tuner_type = "FC0013" /\ o \in Fc0013SetParams(d, freq, PllFor(d, freq))
        \/ d.tuner_type = "FC2580" /\ o \in Fc2580SetFreq(d, freq)
        \/ o \in Refused(d)
    BY <1>2 DEF TunerSetFreq, Shaped, Kinds, IsR82xx
  <2>2. o \in Refused(d) => o.d = d /\ ~o.ok
    BY DEF Refused
  <2> QED BY <1>2, <2>1, <2>2, E4kTells, Fc001xTells, Fc2580Tells
<1> QED BY <1>1, <1>2

(* A write to the demodulator.                                               *)
LEMMA DemodTells ==
  ASSUME NEW d, Shaped(d), NEW f \in {"ddc", "path", "ratio"}, NEW v,
         NEW o \in Demod(d, f, v)
  PROVE  /\ Shaped(o.d) /\ \A h \in Fields \ {f, "failures"} : o.d[h] = d[h]
         /\ o.d.failures = 0 => d.failures = 0 /\ o.d[f] = v
         /\ ~o.ok => o.d.failures # 0
         /\ o.ok => o.d[f] = v
<1> DEFINE e(w) == [d EXCEPT ![f] = w]
<1>a. Demod(d, f, v) = Done(e(v)) \cup Broken(e(Unknown))
  BY DEF Demod
<1>1. \A w : /\ Shaped(e(w)) /\ \A h \in Fields \ {f, "failures"} : e(w)[h] = d[h]
             /\ e(w)[f] = w /\ e(w).failures = d.failures
  BY DEF Shaped, Fields
<1> HIDE DEF e
<1>2. (o.d = e(v) /\ o.ok) \/ (o \in Broken(e(Unknown)) /\ ~o.ok)
  BY <1>a DEF Done, Broken, Refused
<1>3. CASE o.d = e(v) /\ o.ok
  <2> DEFINE x == e(v)
  <2>1. /\ Shaped(x) /\ \A h \in Fields \ {f, "failures"} : x[h] = d[h]
        /\ x[f] = v /\ x.failures = d.failures
    BY <1>1
  <2> HIDE DEF x
  <2>2. o.d = x /\ o.ok
    BY <1>3 DEF x
  <2> QED BY <2>1, <2>2
<1>4. CASE o \in Broken(e(Unknown)) /\ ~o.ok
  <2> DEFINE x == e(Unknown)
  <2>1. Shaped(x) /\ \A h \in Fields \ {f, "failures"} : x[h] = d[h]
    BY <1>1
  <2> HIDE DEF x
  <2>2. o \in Broken(x) /\ ~o.ok
    BY <1>4 DEF x
  <2>3. Shaped(o.d) /\ o.d.failures # 0
    BY <2>1, <2>2, BrokenMoves
  <2>4. o.d = [x EXCEPT !.failures = @ + 1]
    BY <2>2 DEF Broken, Refused
  <2>5. \A h \in Fields \ {"failures"} : o.d[h] = x[h]
    BY <2>1, <2>4 DEF Shaped
  <2> QED BY <2>1, <2>2, <2>3, <2>5
<1> QED BY <1>2, <1>3, <1>4

LEMMA SetIfTells ==
  ASSUME NEW d, Shaped(d), NEW freq, NEW o \in SetIf(d, freq)
  PROVE  /\ Shaped(o.d) /\ \A h \in Fields \ {"ddc", "failures"} : o.d[h] = d[h]
         /\ o.d.failures = 0 \/ o.ok
            => o.d.ddc[1] = freq /\ o.d.ddc[2] = d.rtl_xtal /\ o.d.ddc[3] = d.corr
         /\ o.d.failures = 0 => d.failures = 0
         /\ ~o.ok => o.d.failures # 0
<1> DEFINE if == IfFor(d, freq)
<1>1. o \in Demod(d, "ddc", if)
  BY DEF SetIf
<1>2. if[1] = freq /\ if[2] = d.rtl_xtal /\ if[3] = d.corr
  BY DEF IfFor
<1> HIDE DEF if
<1> QED BY <1>1, <1>2, DemodTells

(* rtlsdr_set_center_freq: in direct sampling it needs nothing, through the   *)
(* tuner an IF that is right already.                                        *)
Ready(d) == Shaped(d) /\ (IsR82xx(d) => Told(d))

LEMMA CenterFreqTunes ==
  ASSUME NEW d, Ready(d), Poised(d), NEW freq,
         NEW o \in SetCenterFreq(d, freq)
  PROVE  Tuned(o.d) /\ Level(o.d) /\ o.d.freq \in {0, freq}
<1>1. PICK p : FreqSetBy(d, freq, p, o)
  BY CenterFreqSteps
<1>2. Shaped(d)
  BY DEF Ready
<1>3. Shaped(p.d)
  BY <1>1, <1>2, SetIfMoves, TunerFreqMoves DEF Moves, FreqSetBy
<1>4. /\ o.d.freq = IF p.ok THEN freq ELSE 0
      /\ \A f \in Fields \ {"freq"} : o.d[f] = p.d[f]
  BY <1>1, <1>3 DEF Shaped, Fields, FreqSetBy, Stored
<1>5. CASE d.direct_sampling # 0
  <2>1. /\ p.d.direct_sampling # 0
        /\ p.ok => p.d.ddc[1] = freq /\ p.d.ddc[3] = p.d.corr
    BY <1>1, <1>2, <1>5, SetIfTells DEF Fields, FreqSetBy
  <2>2. /\ o.d.direct_sampling # 0
        /\ p.ok => o.d.ddc[1] = freq /\ o.d.ddc[3] = o.d.corr
    BY <1>4, <2>1 DEF Fields
  <2> QED BY <1>4, <2>2 DEF Tuned, Level
<1>6. CASE d.direct_sampling = 0
  <2> DEFINE wanted == freq - d.offs_freq
             osc == IF IsR82xx(d) THEN Upconverted(d, wanted) + d.int_freq ELSE wanted
  <2>1. /\ p \in TunerSetFreq(d, wanted)
        /\ IsR82xx(d) => Told(d)
    BY <1>1, <1>6 DEF Ready, FreqSetBy
  <2>2. /\ \A f \in Tuning : p.d[f] = d[f]
        /\ p.ok => Heard(p.d, osc)
    <3> HIDE DEF wanted
    <3> QED BY <1>2, <2>1, TunerFreqTells DEF osc
  <2>3. /\ o.d.tuner_type = d.tuner_type /\ o.d.offs_freq = d.offs_freq
        /\ o.d.direct_sampling = 0 /\ o.d.int_freq = d.int_freq /\ o.d.ddc = d.ddc
        /\ o.d.tun_xtal = p.d.tun_xtal /\ o.d.corr = p.d.corr
        /\ o.d.tuner_type = p.d.tuner_type
        /\ o.d.chip = p.d.chip /\ o.d.failures = p.d.failures
    BY <1>4, <1>6, <2>2 DEF Tuning, Fields
  <2>4. o.d.failures = 0 => d.failures = 0
    BY <1>2, <2>1, <2>3, TunerFreqMoves DEF Moves
  <2>5. Level(o.d)
    BY <1>6, <2>3, <2>4 DEF Poised, Level, IsR82xx
  <2>6. o.d.freq # 0 => p.ok /\ o.d.freq = freq
    BY <1>4
  <2>7. ASSUME p.ok, o.d.freq = freq PROVE Heard(o.d, Oscillator(o.d))
    <3>1. Oscillator(o.d) = osc
      BY <2>3, <2>7 DEF Oscillator, IsR82xx, Upconverted, IsBlogV4
    <3>2. PllFor(o.d, osc) = PllFor(p.d, osc)
      BY <2>3 DEF PllFor
    <3> HIDE DEF osc
    <3> QED BY <2>2, <2>3, <2>7, <3>1, <3>2 DEF Heard
  <2> QED BY <1>4, <2>5, <2>6, <2>7 DEF Tuned
<1> QED BY <1>5, <1>6

(* What every call keeps of a device: it is tuned, and level.                *)
Good(d) == Tuned(d) /\ Level(d)

LEMMA StaysGood ==
  ASSUME NEW d, NEW e, Good(d), Stays(d, e) PROVE Good(e) /\ e.freq = d.freq
BY StaysTuned DEF Good

LEMMA MovesReady ==
  ASSUME NEW d, NEW e, Ready(d), Moves(d, e) PROVE Ready(e)
<1>1. IsR82xx(e) <=> IsR82xx(d)
  BY DEF Moves, Same, Steady, IsR82xx
<1> QED BY <1>1 DEF Moves, Ready

(* An IF that was moved without the DDC following is a failure.              *)
LEMMA R82BandwidthTells ==
  ASSUME NEW d, Ready(d), IsR82xx(d), NEW bw, NEW o \in R82SetBandwidth(d, bw)
  PROVE  /\ Ready(o.d) /\ IsR82xx(o.d) /\ o.d.freq = d.freq
         /\ ~o.ok => o.d.failures # 0
<1> DEFINE f == FilterFor(bw)
           e == [d EXCEPT !.int_freq = f.int]
<1>1. o \in R82Write(e, "filter", <<f.width>>)
  BY DEF R82SetBandwidth
<1>2. Moves(d, e) /\ e.freq = d.freq
  BY MovesAside DEF Ready, Shaped, Fields
<1> HIDE DEF e, f
<1>3. Ready(e) /\ IsR82xx(e)
  BY <1>2, MovesReady DEF Moves, Same, Steady, IsR82xx
<1>4. Shaped(e) /\ Told(e)
  BY <1>3 DEF Ready
<1>5. Moves(e, o.d)
  BY <1>1, <1>4, WriteMoves DEF Groups
<1>6. "filter" # "pll"
  OBVIOUS
<1>7. o.d.freq = e.freq /\ (~o.ok => o.d.failures # 0)
  BY <1>1, <1>4, <1>6, WriteTells DEF Groups, Tuning
<1> QED BY <1>2, <1>3, <1>5, <1>7, MovesReady DEF Moves, Same, Steady, IsR82xx

LEMMA FailedGood ==
  ASSUME NEW d, IsR82xx(d), d.failures # 0 PROVE Good(d)
BY DEF Good, Tuned, Level, Heard, FcTuners, IsR82xx

LEMMA TunerBwStays ==
  ASSUME NEW d, Shaped(d), ~IsR82xx(d), NEW bw, NEW o \in TunerSetBw(d, bw)
  PROVE  Stays(d, o.d)
<1>1. o \in Done(d) \/ \E v : o \in Send(d, "filter", v)
  BY DEF TunerSetBw, Fc2580SetFilter
<1>2. ASSUME NEW v, o \in Send(d, "filter", v) PROVE Stays(d, o.d)
  <2>1. "pll" # "filter" /\ "mux" # "filter"
    OBVIOUS
  <2> QED BY <1>2, <2>1, SendTells DEF Sends, Groups, Stays
<1> QED BY <1>1, <1>2, OnlyTells, StaysNone

LEMMA TunerBwTunes ==
  ASSUME NEW d, Ready(d), Good(d), NEW bw, NEW o \in TunerSetBw(d, bw)
  PROVE  Good(o.d) /\ o.d.freq \in {0, d.freq}
<1>1. CASE IsR82xx(d)
  <2>1. PICK p \in R82SetBandwidth(d, bw) : BwSetBy(p, o)
    BY <1>1, TunerBwSteps
  <2>2. /\ Ready(p.d) /\ IsR82xx(p.d) /\ p.d.freq = d.freq
        /\ ~p.ok => p.d.failures # 0
    BY <1>1, R82BandwidthTells
  <2>3. CASE o = p /\ ~p.ok
    BY <2>2, <2>3, FailedGood
  <2>4. ASSUME NEW q \in SetIf(p.d, p.d.int_freq),
               (o = q /\ ~q.ok) \/ (q.ok /\ o \in SetCenterFreq(q.d, q.d.freq))
        PROVE  Good(o.d) /\ o.d.freq \in {0, d.freq}
    <3>1. Moves(p.d, q.d)
      BY <2>2, SetIfMoves DEF Ready
    <3>2. Ready(q.d) /\ IsR82xx(q.d)
      BY <2>2, <3>1, MovesReady DEF Moves, Same, Steady, IsR82xx
    <3>3. /\ q.d.freq = d.freq /\ q.d.int_freq = p.d.int_freq
          /\ ~q.ok => q.d.failures # 0
          /\ q.ok => q.d.ddc[1] = p.d.int_freq
      BY <2>2, SetIfTells DEF Ready, Fields
    <3>4. CASE o = q /\ ~q.ok
      BY <3>2, <3>3, <3>4, FailedGood
    <3>5. CASE q.ok /\ o \in SetCenterFreq(q.d, q.d.freq)
      <4>1. Poised(q.d)
        BY <3>2, <3>3, <3>5 DEF Poised, Level
      <4> QED BY <3>2, <3>3, <3>5, <4>1, CenterFreqTunes DEF Good, Poised
    <3> QED BY <2>4, <3>4, <3>5
  <2> QED BY <2>1, <2>3, <2>4 DEF BwSetBy
<1>2. CASE ~IsR82xx(d)
  BY <1>2, TunerBwStays, StaysGood DEF Ready
<1> QED BY <1>1, <1>2

LEMMA BandwidthTunes ==
  ASSUME NEW d, Ready(d), Good(d), NEW bw, NEW o \in SetTunerBandwidth(d, bw)
  PROVE  Good(o.d) /\ o.d.freq \in {0, d.freq}
<1>1. PICK p \in TunerSetBw(d, IF bw > 0 THEN bw ELSE d.rate) :
        o = p \/ o.d = [p.d EXCEPT !.bw = bw]
  BY DEF SetTunerBandwidth, IfOk, Done
<1>2. Good(p.d) /\ p.d.freq \in {0, d.freq} /\ Shaped(p.d)
  BY TunerBwTunes, TunerBwMoves DEF Moves, Ready
<1> QED BY <1>1, <1>2, StaysAside, StaysGood

LEMMA GroupStays ==
  ASSUME NEW d, Ready(d), NEW g \in {"filter", "gain"}, NEW v, NEW o,
         \/ IsR82xx(d) /\ o \in R82Write(d, g, v)
         \/ o \in Send(d, g, v)
  PROVE  Stays(d, o.d)
<1>1. g \in Groups /\ g # "pll" /\ g # "mux"
  BY DEF Groups
<1>2. CASE IsR82xx(d) /\ o \in R82Write(d, g, v)
  <2>1. Shaped(d) /\ Told(d)
    BY <1>2 DEF Ready
  <2> QED BY <1>1, <1>2, <2>1, WriteTells DEF Groups, Stays
<1>3. CASE o \in Send(d, g, v)
  <2>1. Sends(d, g, v, o)
    BY <1>1, <1>3, SendTells DEF Ready
  <2> QED BY <1>1, <2>1 DEF Sends, Groups, Stays
<1> QED BY <1>2, <1>3

(* The FC0013 may lose its choice of UHF with the gain, but not unnoticed.    *)
LEMMA LnaGainStays ==
  ASSUME NEW d, Shaped(d), NEW gain, NEW o \in Fc0013SetLnaGain(d, gain)
  PROVE  Stays(d, o.d)
<1> DEFINE lost == [d EXCEPT !.chip["gain"] = Unknown, !.chip["mux"] = Unknown]
           w == <<gain>>
           sent == [d EXCEPT !.chip["gain"] = w]
<1>1. o.d = sent \/ o \in Broken(lost)
  BY DEF Fc0013SetLnaGain, Done
<1> HIDE DEF w
<1>2. Stays(d, sent)
  <2>1. "gain" \in Groups \ {"pll", "mux"}
    BY DEF Groups
  <2> QED BY <2>1, ChipStays
<1>3. /\ Shaped(lost) /\ \A f \in Tuning : lost[f] = d[f]
      /\ lost.failures = d.failures
      /\ lost.chip["pll"] = d.chip["pll"]
  BY DEF Shaped, Fields, Tuning, Groups
<1> HIDE DEF lost, sent
<1>4. ASSUME o \in Broken(lost) PROVE Stays(d, o.d)
  BY <1>3, <1>4, BrokenStays DEF Stays
<1> QED BY <1>1, <1>2, <1>4

LEMMA GainStays ==
  ASSUME NEW d, Ready(d), NEW gain, NEW o \in SetTunerGain(d, gain)
  PROVE  Stays(d, o.d)
<1> DEFINE Set(p, v) == [p.d EXCEPT !.gain = v]
           w == <<gain>>
<1>1. PICK p, v : /\ o.d = Set(p, v)
                  /\ \/ IsR82xx(d) /\ p \in R82Write(d, "gain", w)
                     \/ ~IsR82xx(d) /\ p \in Send(d, "gain", w)
                     \/ ~IsR82xx(d) /\ p \in Ignore(Send(d, "gain", w))
                     \/ ~IsR82xx(d) /\ p \in Fc0013SetLnaGain(d, gain)
                     \/ p \in Done(d) \/ p \in Refused(d)
  <2> DEFINE tried == CASE IsR82xx(d) -> R82SetGain(d, gain)
                        [] d.tuner_type = "E4000"  -> E4kSetGain(d, gain)
                        [] d.tuner_type = "FC0012" -> Send(d, "gain", <<gain>>)
                        [] d.tuner_type = "FC0013" -> Fc0013SetLnaGain(d, gain)
                        [] OTHER -> Done(d)
             Kept(p) == [p.d EXCEPT !.gain = IF p.ok THEN gain ELSE 0]
  <2>1. SetTunerGain(d, gain) = Storing(tried, Kept)
    BY DEF SetTunerGain
  <2>2. \E p \in tried : o.d = Kept(p)
    <3> HIDE DEF tried, Kept
    <3> QED BY <2>1 DEF Storing
  <2>3. \/ IsR82xx(d) /\ tried = R82Write(d, "gain", w)
        \/ /\ ~IsR82xx(d)
           /\ \/ tried = Ignore(Send(d, "gain", w)) \/ tried = Send(d, "gain", w)
              \/ tried = Fc0013SetLnaGain(d, gain) \/ tried = Done(d) \/ tried = Refused(d)
    BY DEF R82SetGain, IsR82xx, E4kSetGain
  <2> HIDE DEF tried, w
  <2> QED BY <2>2, <2>3
<1> HIDE DEF w
<1>2. Stays(d, p.d)
  <2>1. Shaped(d)
    BY DEF Ready
  <2>2. p \in Ignore(Send(d, "gain", w)) => \E q \in Send(d, "gain", w) : p.d = q.d
    BY IgnoreTells
  <2> HIDE DEF Set
  <2> QED BY <1>1, <2>1, <2>2, GroupStays, LnaGainStays, OnlyTells, StaysNone
<1>3. Shaped(p.d)
  <2> HIDE DEF Set
  <2>1. Shaped(d)
    BY DEF Ready
  <2>2. p \in Ignore(Send(d, "gain", w)) => \E q \in Send(d, "gain", w) : p.d = q.d
    BY IgnoreTells
  <2>3. Moves(d, p.d)
    BY <1>1, <2>1, <2>2, WriteMoves, SendMoves, LnaGainMoves, OtherMoves DEF Groups
  <2> QED BY <2>3 DEF Moves
<1>4. Stays(p.d, Set(p, v))
  BY <1>3, StaysAside
<1> HIDE DEF Set
<1> QED BY <1>1, <1>2, <1>4, StaysBoth

LEMMA GainModeStays ==
  ASSUME NEW d, Ready(d), NEW manual, NEW o \in SetTunerGainMode(d, manual)
  PROVE  Stays(d, o.d)
<1>1. \/ \E v : IsR82xx(d) /\ o \in R82Write(d, "gain", v)
      \/ o \in Done(d) \/ o \in Broken(d) \/ o \in Ignore(Broken(d))
  BY DEF SetTunerGainMode, R82SetGain, E4kEnableManualGain, Fc0013SetGainMode
<1> QED BY <1>1, GroupStays, OtherStays DEF Ready

(* Every frequency lies above the offset of every rate, so that a retune is   *)
(* never left out.                                                           *)
FreqsFit ==
  /\ Freqs \subseteq Nat
  /\ \A f \in Freqs, r \in Rates : f # 0 /\ Supported(r) => f > OffsetFor(r)

LEMMA RatioStays ==
  ASSUME NEW d, Shaped(d), NEW f \in {"ratio", "path"}, NEW v, NEW o \in Demod(d, f, v)
  PROVE  Stays(d, o.d)
<1>1. /\ Shaped(o.d) /\ \A h \in Fields \ {f, "failures"} : o.d[h] = d[h]
      /\ o.d.failures = 0 => d.failures = 0
  BY DemodTells
<1>2. (\A h \in Tuning : o.d[h] = d[h]) /\ o.d.chip = d.chip
  BY <1>1 DEF Fields, Tuning
<1> QED BY <1>1, <1>2 DEF Stays

LEMMA ResampleTunes ==
  ASSUME NEW d, Ready(d), Good(d), NEW rate, NEW o \in Resample(d, rate)
  PROVE  Good(o.d) /\ o.d.freq \in {0, d.freq}
<1> DEFINE e == AtRate(d, rate)
<1>1. PICK p, q, bw :
        /\ p \in TunerSetBw(e, bw)
        /\ o.d = q.d /\ q \in Demod(p.d, "ratio", RatioFor(p.d, rate))
  BY ResampleSteps DEF ResampledBy
<1>2. Good(e) /\ e.freq = d.freq
  BY StaysAside, StaysGood DEF Ready, AtRate
<1>3. Ready(e)
  <2>1. /\ Shaped(e) /\ e.tuner_type = d.tuner_type /\ e.failures = d.failures
        /\ e.chip = d.chip /\ e.shadow = d.shadow
    BY DEF Ready, Shaped, Fields, AtRate
  <2> HIDE DEF e
  <2> QED BY <2>1 DEF Ready, Told, IsR82xx
<1> HIDE DEF e
<1>4. Good(p.d) /\ p.d.freq \in {0, d.freq}
  BY <1>1, <1>2, <1>3, TunerBwTunes
<1>5. Shaped(p.d)
  BY <1>1, <1>3, TunerBwMoves DEF Ready, Moves
<1>6. Stays(p.d, q.d)
  BY <1>1, <1>5, RatioStays
<1> QED BY <1>1, <1>4, <1>6, StaysGood

(* The offset moves, and the DDC and the tuner with it.                      *)
LEMMA OffsetTunes ==
  ASSUME FreqsFit, NEW d, Ready(d), RateTrue(d), Good(d), d.freq \in {0} \cup Freqs,
         NEW on \in BOOLEAN, NEW o \in SetOffsetTuning(d, on)
  PROVE  Good(o.d) /\ o.d.freq \in {0, d.freq}
<1>1. CASE IsR82xx(d) \/ d.direct_sampling # 0
  BY <1>1 DEF SetOffsetTuning, Refused
<1>2. CASE ~(IsR82xx(d) \/ d.direct_sampling # 0)
  <2> DEFINE offs == Offset(d, on)
             e == Shifted(d, on)
  <2>1. PICK p, q, bw :
          /\ p \in SetIf(e, offs) /\ q \in TunerSetBw(p.d, bw)
          /\ \/ o.d = q.d /\ ~(q.d.freq > q.d.offs_freq)
             \/ \E r \in SetCenterFreq(q.d, q.d.freq) : o.d = r.d
    <3>1. PICK p, q : OffsetSetBy(d, on, p, q, o)
      BY <1>2, OffsetSteps
    <3> HIDE DEF e, offs
    <3> QED BY <3>1 DEF OffsetSetBy, e, offs
  <2>2. d.freq # 0 => d.freq > offs
    <3> SUFFICES ASSUME d.freq # 0 PROVE d.freq > offs
      OBVIOUS
    <3>1. OffsetFor(0) = 0
      BY DEF OffsetFor
    <3>2. d.freq \in Freqs /\ d.freq > 0
      <4>1. d.freq \in Freqs
        OBVIOUS
      <4>2. Freqs \subseteq Nat
        BY DEF FreqsFit
      <4>3. d.freq \in Nat
        BY <4>1, <4>2
      <4> QED BY <4>1, <4>3
    <3>3. d.rate = 0 \/ (d.rate \in Rates /\ Supported(d.rate))
      BY DEF RateTrue
    <3>4. d.freq > OffsetFor(d.rate)
      BY <3>1, <3>2, <3>3 DEF FreqsFit
    <3> QED BY <3>2, <3>4 DEF Offset
  <2>3. /\ Shaped(e) /\ e.offs_freq = offs /\ e.freq = d.freq
        /\ e.tuner_type = d.tuner_type /\ e.direct_sampling = d.direct_sampling
    BY DEF Ready, Shaped, Fields, Shifted
  <2> HIDE DEF e, offs
  <2>4. /\ Shaped(p.d) /\ p.d.offs_freq = offs /\ p.d.freq = d.freq
        /\ ~IsR82xx(p.d) /\ p.d.direct_sampling = 0
        /\ p.d.failures = 0 => p.d.ddc[1] = offs
    <3>1. /\ Shaped(p.d) /\ \A h \in Fields \ {"ddc", "failures"} : p.d[h] = e[h]
          /\ p.d.failures = 0 => p.d.ddc[1] = offs
      BY <2>1, <2>3, SetIfTells
    <3>2. /\ p.d.offs_freq = offs /\ p.d.freq = d.freq /\ p.d.direct_sampling = 0
          /\ p.d.tuner_type = d.tuner_type
      BY <1>2, <2>3, <3>1 DEF Fields
    <3> QED BY <1>2, <3>1, <3>2 DEF IsR82xx
  <2>5. Level(p.d)
    BY <2>4 DEF Level
  <2>6. Stays(p.d, q.d) /\ Moves(p.d, q.d)
    BY <2>1, <2>4, TunerBwStays, TunerBwMoves
  <2>7. Level(q.d) /\ q.d.freq = d.freq /\ q.d.offs_freq = offs /\ Ready(q.d)
    <3>1. Ready(p.d)
      BY <2>4 DEF Ready
    <3>2. q.d.offs_freq = offs
      BY <2>4, <2>6 DEF Stays, Tuning
    <3> QED BY <2>4, <2>5, <2>6, <3>1, <3>2, StaysTuned, MovesReady
  <2>8. CASE o.d = q.d /\ ~(q.d.freq > q.d.offs_freq)
    BY <2>2, <2>7, <2>8 DEF Good, Tuned
  <2>9. ASSUME NEW r \in SetCenterFreq(q.d, q.d.freq), o.d = r.d
        PROVE  Good(o.d) /\ o.d.freq \in {0, d.freq}
    BY <2>7, <2>9, CenterFreqTunes DEF Good, Poised
  <2> QED BY <2>1, <2>8, <2>9
<1> QED BY <1>1, <1>2

LEMMA SampleRateTunes ==
  ASSUME RatesFit, FreqsFit, NEW d, Settled(d), Good(d), d.freq \in {0} \cup Freqs,
         NEW rate \in Rates, NEW o \in SetSampleRate(d, rate)
  PROVE  Good(o.d) /\ o.d.freq \in {0, d.freq}
<1>1. CASE ~Supported(rate)
  BY <1>1 DEF SetSampleRate, Refused
<1>2. CASE Supported(rate)
  <2>1. PICK p \in Resample(d, rate) : Followed(p.d, o)
    BY <1>2, SampleRateSteps
  <2>2. Settled(p.d) /\ RateTrue(p.d)
    BY <1>2, ResampleTrue
  <2>3. Ready(d) /\ Ready(p.d)
    BY <2>2 DEF Ready, Settled
  <2>4. Good(p.d) /\ p.d.freq \in {0, d.freq}
    BY <2>3, ResampleTunes
  <2>5. CASE o.d = p.d
    BY <2>4, <2>5
  <2>6. ASSUME NEW q \in SetOffsetTuning(p.d, TRUE), o.d = q.d
        PROVE  Good(o.d) /\ o.d.freq \in {0, d.freq}
    <3>1. p.d.freq \in {0} \cup Freqs
      BY <2>4
    <3>2. Good(q.d) /\ q.d.freq \in {0, p.d.freq}
      BY <2>2, <2>3, <2>4, <2>6, <3>1, OffsetTunes
    <3> QED BY <2>4, <2>6, <3>2
  <2> QED BY <2>1, <2>5, <2>6 DEF Followed
<1> QED BY <1>1, <1>2

(* The clocks: the tuner is tuned again, and the DDC need not be.            *)
LEMMA ClockLevel ==
  ASSUME NEW d, Ready(d), Poised(d), NEW f \in {"corr", "tun_xtal", "rtl_xtal"}, NEW v
  PROVE  LET e == [d EXCEPT ![f] = v] IN Ready(e) /\ Poised(e) /\ e.freq = d.freq
<1> DEFINE e == [d EXCEPT ![f] = v]
<1>1. /\ Shaped(e) /\ e.failures = d.failures /\ e.chip = d.chip /\ e.shadow = d.shadow
      /\ e.tuner_type = d.tuner_type /\ e.freq = d.freq /\ e.ddc = d.ddc
      /\ e.direct_sampling = d.direct_sampling /\ e.offs_freq = d.offs_freq
      /\ e.int_freq = d.int_freq
  BY DEF Ready, Shaped, Fields
<1> HIDE DEF e
<1>2. Ready(e) /\ Poised(e) /\ e.freq = d.freq
  BY <1>1 DEF Ready, Told, Poised, Level, IsR82xx
<1> QED BY <1>2 DEF e

LEMMA RetuneTunes ==
  ASSUME NEW d, Ready(d), Poised(d), NEW o \in Retune(d)
  PROVE  Good(o.d) /\ o.d.freq \in {0, d.freq}
<1>1. CASE d.freq = 0
  BY <1>1 DEF Retune, Done, Good, Tuned, Poised, Level
<1>2. CASE d.freq # 0
  <2>1. o \in SetCenterFreq(d, d.freq)
    BY <1>2 DEF Retune
  <2> QED BY <2>1, CenterFreqTunes DEF Good, Poised
<1> QED BY <1>1, <1>2

LEMMA CorrectionTunes ==
  ASSUME NEW d, Ready(d), Good(d), NEW ppm, NEW o \in SetFreqCorrection(d, ppm)
  PROVE  Good(o.d) /\ o.d.freq \in {0, d.freq}
<1> DEFINE e == [d EXCEPT !.corr = ppm]
<1>1. \/ o.d = d
      \/ \E p, q : /\ p \in Done(e) \/ p \in Broken(e)
                   /\ q \in Retune(p.d) /\ o.d = q.d
  BY DEF SetFreqCorrection, Refused, Then
<1>2. Ready(e) /\ Poised(e) /\ e.freq = d.freq
  BY ClockLevel DEF Good, Poised
<1> HIDE DEF e
<1>3. ASSUME NEW p, p \in Done(e) \/ p \in Broken(e)
      PROVE  Ready(p.d) /\ Poised(p.d) /\ p.d.freq = d.freq
  <2>1. Stays(e, p.d) /\ Moves(e, p.d)
    BY <1>2, <1>3, OtherStays, OtherMoves DEF Ready
  <2> QED BY <1>2, <2>1, StaysTuned, MovesReady DEF Poised, Stays, Tuning
<1>4. ASSUME NEW p, NEW q, p \in Done(e) \/ p \in Broken(e), q \in Retune(p.d), o.d = q.d
      PROVE  Good(o.d) /\ o.d.freq \in {0, d.freq}
  BY <1>3, <1>4, RetuneTunes
<1> QED BY <1>1, <1>4

LEMMA XtalFreqTunes ==
  ASSUME RatesFit, FreqsFit, NEW d, Sound(d), Good(d), d.freq \in {0} \cup Freqs,
         NEW rtl \in RtlXtals, NEW tuner, NEW o \in SetXtalFreq(d, rtl, tuner)
  PROVE  Good(o.d) /\ o.d.freq \in {0, d.freq}
<1> DEFINE e == [d EXCEPT !.rtl_xtal = rtl]
<1>r. Ready(d)
  BY DEF Sound, Settled, Ready
<1>1. CASE rtl # 0 /\ (rtl < MinRtlXtal \/ rtl > MaxRtlXtal)
  BY <1>1 DEF SetXtalFreq, Refused
<1>2. CASE ~(rtl # 0 /\ (rtl < MinRtlXtal \/ rtl > MaxRtlXtal))
  <2>a. PICK p : Reclocked(d, rtl, p) /\ Rejoined(p.d, tuner, o)
    BY <1>2, XtalFreqSteps
  <2>1. \/ p.d = d
        \/ rtl # 0 /\ d.rate = 0 /\ p.d = e
        \/ rtl # 0 /\ d.rate # 0 /\ p \in SetSampleRate(e, e.rate)
    BY <2>a DEF Reclocked
  <2>2. Good(e) /\ Ready(e) /\ e.freq = d.freq
    BY <1>r, ClockLevel, StaysAside, StaysGood DEF Ready, Good, Poised
  <2>3. rtl # 0 => Settled(e) /\ e.rate = d.rate
    <3> SUFFICES ASSUME rtl # 0 PROVE Settled(e) /\ e.rate = d.rate
      OBVIOUS
    <3>1. Settled(e)
      BY <1>2, XtalSettled DEF Sound
    <3>2. e.rate = d.rate
      BY DEF Sound, Settled, Shaped, Fields
    <3> QED BY <3>1, <3>2
  <2> HIDE DEF e
  <2>4. Good(p.d) /\ Ready(p.d) /\ p.d.freq \in {0, d.freq}
    <3>1. CASE p.d = d
      BY <1>r, <3>1
    <3>2. CASE p.d = e
      BY <2>2, <3>2
    <3>3. CASE rtl # 0 /\ d.rate # 0 /\ p \in SetSampleRate(e, e.rate)
      <4>1. e.rate \in Rates /\ Supported(e.rate) /\ e.freq \in {0} \cup Freqs
        BY <2>2, <2>3, <3>3 DEF Sound, RateTrue
      <4>2. Good(p.d) /\ p.d.freq \in {0, d.freq}
        BY <2>2, <2>3, <3>3, <4>1, SampleRateTunes
      <4>3. Sound(p.d)
        BY <2>3, <3>3, <4>1, SampleRateSound
      <4> QED BY <4>2, <4>3 DEF Sound, Settled, Ready
    <3> QED BY <2>1, <3>1, <3>2, <3>3
  <2> DEFINE c == Clocked(p.d, tuner)
  <2>5. Ready(c) /\ Poised(c) /\ c.freq = p.d.freq
    BY <2>4, ClockLevel DEF Clocked, Good, Poised
  <2>6. CASE o.d = p.d
    BY <2>4, <2>6
  <2>7. CASE o.d = c /\ p.d.freq = 0
    <3> HIDE DEF c
    <3> QED BY <2>4, <2>5, <2>7 DEF Good, Tuned, Poised, Level
  <2>8. CASE o \in Retune(c)
    <3> HIDE DEF c
    <3> QED BY <2>4, <2>5, <2>8, RetuneTunes
  <2> QED BY <2>a, <2>6, <2>7, <2>8 DEF Rejoined
<1> QED BY <1>1, <1>2

------------------------------------------------------------------------------
(* Waking a tuner and sending it to sleep: it keeps its aim, and an R82xx    *)
(* that wakes has its first IF again.                                        *)
Aimed(d, e) == \A f \in Tuning \ {"int_freq"} : e[f] = d[f]

LEMMA ResetAimed ==
  ASSUME NEW d, Shaped(d), NEW o \in ResetAll(d) PROVE \A f \in Tuning : o.d[f] = d[f]
<1> DEFINE sent == [d EXCEPT !.chip = All(Reset)]
           lost == [d EXCEPT !.chip = All(Unknown)]
<1>1. o.d = sent \/ \E p \in Broken(lost) : o.d = p.d
  BY DEF ResetAll, Done, Ignore
<1>2. /\ Shaped(lost)
      /\ \A f \in Tuning : lost[f] = d[f] /\ sent[f] = d[f]
  BY DEF Shaped, Fields, Tuning, All
<1> HIDE DEF sent, lost
<1>3. \A p \in Broken(lost) : \A f \in Tuning : p.d[f] = lost[f]
  BY <1>2, BrokenStays DEF Stays
<1> QED BY <1>1, <1>2, <1>3

Blank(d, if) == [d EXCEPT !.int_freq = if, !.shadow = All(Reset)]

LEMMA BlankKeeps ==
  ASSUME NEW d, NEW e, Primed(d, e), \A h \in Tuning : e[h] = d[h], NEW if, NEW f,
         f = Blank(e, if)
  PROVE  /\ Shaped(f) /\ Aimed(d, f) /\ f.int_freq = if
         /\ f.chip = e.chip /\ f.shadow = All(Reset) /\ f.failures = e.failures
         /\ f.tuner_type = d.tuner_type
<1> DEFINE x == [e EXCEPT !.int_freq = if, !.shadow = All(Reset)]
<1>1. Shaped(x) /\ x.int_freq = if /\ x.chip = e.chip /\ x.shadow = All(Reset)
  BY DEF Primed, Shaped, Fields, All
<1>2. x.failures = e.failures /\ \A h \in Tuning \ {"int_freq"} : x[h] = e[h]
  BY DEF Primed, Shaped, Fields, Tuning
<1> HIDE DEF x
<1>3. x.tuner_type = d.tuner_type /\ Aimed(d, x)
  BY <1>2 DEF Tuning, Aimed
<1> QED BY <1>1, <1>2, <1>3 DEF x, Blank

LEMMA TvStandardTells ==
  ASSUME NEW d, NEW e, IsR82xx(d), Primed(d, e), \A f \in Tuning : e[f] = d[f],
         NEW o \in R82SetTvStandard(e)
  PROVE  Ready(o.d) /\ IsR82xx(o.d) /\ Aimed(d, o.d) /\ o.d.int_freq = R82xxIf
<1> DEFINE f == Blank(e, R82xxIf)
           wide == <<6000000>>
           lo == 56000000
<1>1. PICK p \in R82SetPll(f, lo) :
        o = p \/ o.d = p.d \/ o \in R82Write(p.d, "filter", wide)
  BY DEF R82SetTvStandard, IfOk, Done, R82xxIf, Blank
<1> HIDE DEF wide, lo
<1>2. /\ Shaped(f) /\ Aimed(d, f) /\ f.int_freq = R82xxIf
      /\ f.chip = e.chip /\ f.shadow = All(Reset) /\ f.failures = e.failures
      /\ f.tuner_type = d.tuner_type
  BY BlankKeeps
<1> HIDE DEF f
<1>3. Told(f) /\ IsR82xx(f)
  BY <1>2 DEF Told, Primed, All, IsR82xx
<1>4. Moves(f, p.d) /\ \A h \in Tuning : p.d[h] = f[h]
  BY <1>2, <1>3, PllMoves, PllTells
<1>5. Ready(p.d) /\ IsR82xx(p.d)
  BY <1>2, <1>3, <1>4, MovesReady DEF Ready, Moves, Same, Steady, IsR82xx
<1>6. ASSUME o \in R82Write(p.d, "filter", wide)
      PROVE  Ready(o.d) /\ IsR82xx(o.d) /\ \A h \in Tuning : o.d[h] = p.d[h]
  <2>1. Shaped(p.d) /\ Told(p.d)
    BY <1>5 DEF Ready
  <2>2. "filter" # "pll"
    OBVIOUS
  <2>3. Moves(p.d, o.d) /\ \A h \in Tuning : o.d[h] = p.d[h]
    BY <1>6, <2>1, <2>2, WriteMoves, WriteTells DEF Groups
  <2> QED BY <1>5, <2>3, MovesReady DEF Moves, Same, Steady, IsR82xx
<1>7. Ready(o.d) /\ IsR82xx(o.d) /\ \A h \in Tuning : o.d[h] = f[h]
  BY <1>1, <1>4, <1>5, <1>6
<1> QED BY <1>2, <1>7 DEF Aimed, Tuning

LEMMA SysfreqTells ==
  ASSUME NEW d, Ready(d), IsR82xx(d), NEW o \in R82SysfreqSel(d)
  PROVE  Shaped(o.d) /\ \A f \in Tuning : o.d[f] = d[f]
<1>1. PICK p \in R82Write(d, "gain", Agc) :
        o = p \/ o.d = [p.d EXCEPT !.input = <<0>>]
  BY DEF R82SysfreqSel, IfOk, Done
<1>2. Shaped(d) /\ Told(d) /\ "gain" # "pll"
  BY DEF Ready
<1>3. Shaped(p.d) /\ \A f \in Tuning : p.d[f] = d[f]
  BY <1>2, WriteMoves, WriteTells DEF Groups, Moves
<1> DEFINE e == [p.d EXCEPT !.input = <<0>>]
<1>4. Shaped(e) /\ Stays(p.d, e)
  BY <1>3, MovesAside, StaysAside DEF Moves
<1> HIDE DEF e
<1> QED BY <1>1, <1>3, <1>4 DEF e, Stays

LEMMA R82InitTells ==
  ASSUME NEW d, Shaped(d), IsR82xx(d), NEW o \in R82Init(d)
  PROVE  Aimed(d, o.d) /\ o.d.int_freq = R82xxIf
<1>1. PICK p \in ResetAll(d) : \E q \in R82SetTvStandard(p.d) : Finished(q.d, o)
  BY R82InitSteps
<1>2. PICK q \in R82SetTvStandard(p.d) : Finished(q.d, o)
  BY <1>1
<1>3. Ready(q.d) /\ IsR82xx(q.d) /\ Aimed(d, q.d) /\ q.d.int_freq = R82xxIf
  BY ResetPrimes, ResetAimed, TvStandardTells
<1>4. ASSUME NEW r \in R82SysfreqSel(q.d) PROVE \A f \in Tuning : Prepared(r.d)[f] = q.d[f]
  <2>1. Shaped(r.d) /\ \A f \in Tuning : r.d[f] = q.d[f]
    BY <1>3, SysfreqTells
  <2>2. Stays(r.d, Prepared(r.d))
    BY <2>1, StaysAside DEF Prepared
  <2> QED BY <2>1, <2>2 DEF Stays
<1>5. \A f \in Tuning : o.d[f] = q.d[f]
  BY <1>2, <1>4 DEF Finished
<1> QED BY <1>3, <1>5 DEF Aimed, Tuning

LEMMA SendArrayAimed ==
  ASSUME NEW d, Shaped(d), NEW order, NEW o \in SendArray(d, order) PROVE Aimed(d, o.d)
<1> DEFINE e(chip) == [d EXCEPT !.chip = chip]
<1>1. PICK chip : DOMAIN chip = Groups /\ (o.d = e(chip) \/ o \in Broken(e(chip)))
  BY SendArraySteps
<1>2. Shaped(e(chip)) /\ \A f \in Tuning : e(chip)[f] = d[f]
  BY <1>1 DEF Shaped, Fields, Tuning
<1> HIDE DEF e
<1>3. o \in Broken(e(chip)) => Stays(e(chip), o.d)
  BY <1>2, BrokenStays
<1> QED BY <1>1, <1>2, <1>3 DEF Stays, Aimed

LEMMA Fc2580InitAimed ==
  ASSUME NEW d, Shaped(d), NEW o \in Fc2580Init(d) PROVE Aimed(d, o.d)
<1> DEFINE wide == <<8>>
<1>1. PICK p, q, r : /\ p \in Send(d, "gain", Agc) /\ q \in Send(p.d, "pll", Reset)
                     /\ r \in Send(q.d, "filter", wide) /\ o.d = r.d
  BY DEF Fc2580Init, Fc2580SetFilter, Then
<1> HIDE DEF wide
<1>2. Sends(d, "gain", Agc, p)
  BY <1>1, SendTells DEF Groups
<1>3. Sends(p.d, "pll", Reset, q)
  BY <1>1, <1>2, SendTells DEF Groups, Sends
<1>4. Sends(q.d, "filter", wide, r)
  BY <1>1, <1>3, SendTells DEF Groups, Sends
<1> QED BY <1>1, <1>2, <1>3, <1>4 DEF Sends, Aimed

LEMMA TunerInitTells ==
  ASSUME NEW d, Shaped(d), NEW o \in TunerInit(d)
  PROVE  Aimed(d, o.d) /\ (IsR82xx(d) => o.d.int_freq = R82xxIf)
<1>1. CASE IsR82xx(d)
  BY <1>1, R82InitTells DEF TunerInit, IsR82xx
<1>2. CASE ~IsR82xx(d)
  <2>1. \/ o \in ResetAll(d) \/ o \in Fc2580Init(d) \/ o \in Done(d)
        \/ \E order : o \in SendArray(d, order)
    BY <1>2 DEF TunerInit, Shaped, Kinds, IsR82xx, E4kInit, Fc0012Init, Fc0013Init
  <2>2. o \in ResetAll(d) \/ o \in Done(d) => Aimed(d, o.d)
    BY ResetAimed, OnlyTells DEF Aimed
  <2> QED BY <1>2, <2>1, <2>2, Fc2580InitAimed, SendArrayAimed
<1> QED BY <1>1, <1>2

LEMMA TunerExitTells ==
  ASSUME NEW d, Shaped(d), NEW o \in TunerExit(d) PROVE Aimed(d, o.d)
<1>1. CASE o \in Done(d) \/ o \in Ignore(Broken(d))
  BY <1>1, OtherStays DEF Stays, Aimed
<1>2. CASE o \in R82Standby(d)
  <2> DEFINE e(chip, shadow) == [d EXCEPT !.chip = chip, !.shadow = shadow]
             x(chip, shadow) == [d EXCEPT !.shadow = shadow, !.chip = chip]
  <2>1. \/ o.d = d \/ o.d = e(All(Standby), All(Standby))
        \/ \E chip, shadow : /\ DOMAIN chip = Groups /\ DOMAIN shadow = Groups
                             /\ o \in Broken(x(chip, shadow))
    BY <1>2, StandbySteps
  <2>2. \A chip, shadow : \A f \in Tuning : /\ e(chip, shadow)[f] = d[f]
                                            /\ x(chip, shadow)[f] = d[f]
    BY DEF Shaped, Fields, Tuning
  <2>3. \A chip, shadow : DOMAIN chip = Groups /\ DOMAIN shadow = Groups
                          => Shaped(x(chip, shadow))
    BY DEF Shaped, Fields
  <2> HIDE DEF e, x
  <2>4. ASSUME NEW chip, NEW shadow, DOMAIN chip = Groups, DOMAIN shadow = Groups,
               o \in Broken(x(chip, shadow))
        PROVE  Aimed(d, o.d)
    BY <2>2, <2>3, <2>4, BrokenStays DEF Stays, Aimed
  <2> QED BY <2>1, <2>2, <2>4 DEF Aimed
<1>3. \/ o \in R82Standby(d) \/ o \in Done(d) \/ o \in Ignore(Broken(d))
  BY DEF TunerExit, E4kStandby
<1> QED BY <1>1, <1>2, <1>3

(* A change of the sampling mode: the tuner wakes with the DDC at its IF.     *)
LEMMA WokenLevel ==
  ASSUME NEW d, Ready(d), d.offs_freq = 0, NEW on, NEW p, Woken(d, on, p)
  PROVE  /\ Ready(p.d) /\ p.d.freq = d.freq /\ p.d.offs_freq = 0
         /\ on = 0 /\ p.d.failures = 0
            => p.d.ddc[1] = IF IsR82xx(p.d) THEN p.d.int_freq ELSE p.d.offs_freq
<1>1. Shaped(d)
  BY DEF Ready
<1>2. CASE on # 0 /\ p \in TunerExit(d)
  <2>1. Moves(d, p.d) /\ Aimed(d, p.d)
    BY <1>1, <1>2, TunerExitMoves, TunerExitTells
  <2> QED BY <1>2, <2>1, MovesReady DEF Aimed, Tuning
<1>3. ASSUME NEW s \in TunerInit(d),
             NEW t \in SetIf(s.d, IF IsR82xx(s.d) THEN R82xxIf ELSE 0),
             p.d = t.d
      PROVE  /\ Ready(p.d) /\ p.d.freq = d.freq /\ p.d.offs_freq = 0
             /\ p.d.failures = 0
                => p.d.ddc[1] = IF IsR82xx(p.d) THEN p.d.int_freq ELSE p.d.offs_freq
  <2> DEFINE if == IF IsR82xx(s.d) THEN R82xxIf ELSE 0
  <2>1. Moves(d, s.d) /\ Aimed(d, s.d) /\ (IsR82xx(d) => s.d.int_freq = R82xxIf)
    BY <1>1, TunerInitMoves, TunerInitTells
  <2>2. /\ Ready(s.d) /\ s.d.freq = d.freq /\ s.d.offs_freq = 0
        /\ s.d.tuner_type = d.tuner_type
    BY <2>1, MovesReady DEF Aimed, Tuning
  <2>3. if = IF IsR82xx(s.d) THEN s.d.int_freq ELSE s.d.offs_freq
    BY <2>1, <2>2 DEF IsR82xx
  <2> HIDE DEF if
  <2>4. t \in SetIf(s.d, if)
    BY DEF if
  <2>5. Moves(s.d, t.d)
    BY <2>2, <2>4, SetIfMoves DEF Ready
  <2>6. /\ \A h \in Fields \ {"ddc", "failures"} : t.d[h] = s.d[h]
        /\ t.d.failures = 0 => t.d.ddc[1] = if
    BY <2>2, <2>4, SetIfTells DEF Ready
  <2>7. /\ t.d.freq = d.freq /\ t.d.offs_freq = 0 /\ t.d.offs_freq = s.d.offs_freq
        /\ t.d.int_freq = s.d.int_freq /\ t.d.tuner_type = s.d.tuner_type
    BY <2>2, <2>6 DEF Fields
  <2> QED BY <1>3, <2>2, <2>3, <2>5, <2>6, <2>7, MovesReady DEF IsR82xx
<1> QED BY <1>2, <1>3 DEF Woken

LEMMA DirectTunes ==
  ASSUME NEW d, Ready(d), d.offs_freq = 0, NEW on, NEW o \in SetDirectSampling(d, on)
  PROVE  Good(o.d) /\ o.d.freq \in {0, d.freq}
<1>1. PICK p : Woken(d, on, p) /\ \E q \in Demod(p.d, "path", <<on>>) : Switched(q.d, on, o)
  BY DirectSteps
<1>2. PICK q \in Demod(p.d, "path", <<on>>) : Switched(q.d, on, o)
  BY <1>1
<1>3. /\ Ready(p.d) /\ p.d.freq = d.freq /\ p.d.offs_freq = 0
      /\ on = 0 /\ p.d.failures = 0
         => p.d.ddc[1] = IF IsR82xx(p.d) THEN p.d.int_freq ELSE p.d.offs_freq
  BY <1>1, WokenLevel
<1>4. Stays(p.d, q.d) /\ Moves(p.d, q.d)
  BY <1>2, <1>3, RatioStays, DemodMoves DEF Ready
<1>5. /\ Ready(q.d) /\ q.d.freq = d.freq
      /\ on = 0 /\ q.d.failures = 0
         => q.d.ddc[1] = IF IsR82xx(q.d) THEN q.d.int_freq ELSE q.d.offs_freq
  <2>1. /\ q.d.freq = p.d.freq /\ q.d.ddc = p.d.ddc /\ q.d.int_freq = p.d.int_freq
        /\ q.d.offs_freq = p.d.offs_freq /\ q.d.tuner_type = p.d.tuner_type
        /\ q.d.failures = 0 => p.d.failures = 0
    BY <1>4 DEF Stays, Tuning
  <2> QED BY <1>3, <1>4, <2>1, MovesReady DEF IsR82xx
<1> DEFINE x == Sampling(q.d, on)
<1>6. /\ Shaped(x) /\ x.tuner_type = q.d.tuner_type /\ x.failures = q.d.failures
      /\ x.chip = q.d.chip /\ x.shadow = q.d.shadow /\ x.direct_sampling = on
      /\ x.ddc = q.d.ddc /\ x.int_freq = q.d.int_freq /\ x.offs_freq = q.d.offs_freq
  BY <1>5 DEF Ready, Shaped, Fields, Sampling
<1> HIDE DEF x
<1>7. Ready(x)
  BY <1>5, <1>6 DEF Ready, Told, IsR82xx
<1>8. Poised(x)
  BY <1>5, <1>6 DEF Poised, Level, IsR82xx
<1>9. \A r \in SetCenterFreq(x, q.d.freq) : Good(r.d) /\ r.d.freq \in {0, q.d.freq}
  BY <1>7, <1>8, CenterFreqTunes DEF Good, Poised
<1> QED BY <1>2, <1>5, <1>9 DEF Switched, x

LEMMA DirectKind ==
  ASSUME NEW d, Shaped(d), NEW on, NEW o \in SetDirectSampling(d, on)
  PROVE  o.d.tuner_type = d.tuner_type /\ Shaped(o.d)
<1>1. PICK p : Woken(d, on, p) /\ \E q \in Demod(p.d, "path", <<on>>) : Switched(q.d, on, o)
  BY DirectSteps
<1>2. PICK q \in Demod(p.d, "path", <<on>>) : Switched(q.d, on, o)
  BY <1>1
<1>3. Shaped(p.d) /\ p.d.tuner_type = d.tuner_type
  <2>1. ASSUME NEW s \in TunerInit(d), NEW v, NEW t \in SetIf(s.d, v)
        PROVE  Moves(d, s.d) /\ Moves(s.d, t.d)
    BY TunerInitMoves, SetIfMoves DEF Moves
  <2>2. p \in TunerExit(d) => Moves(d, p.d)
    BY TunerExitMoves
  <2> QED BY <1>1, <2>1, <2>2 DEF Woken, Moves, Same, Steady
<1>4. Shaped(q.d) /\ q.d.tuner_type = d.tuner_type
  BY <1>3, DemodMoves DEF Moves, Same, Steady
<1> DEFINE x == Sampling(q.d, on)
<1>5. Shaped(x) /\ x.tuner_type = d.tuner_type
  BY <1>4 DEF Shaped, Fields, Sampling
<1> HIDE DEF x
<1>6. \A r \in SetCenterFreq(x, q.d.freq) : r.d.tuner_type = d.tuner_type /\ Shaped(r.d)
  BY <1>5, CenterFreqMoves DEF Moves, Same, Steady
<1> QED BY <1>2, <1>6 DEF Switched, x

(* A device that has just been opened has no frequency yet; its DDC has the   *)
(* IF with which the tuner's init begins.                                    *)
LEMMA OpenedTunes ==
  ASSUME NEW kind \in Kinds, NEW o \in Opened(kind)
  PROVE  Good(o.d) /\ o.d.freq = 0
<1> DEFINE d == Fresh(kind)
<1>1. PICK p, q : Begun(kind, p) /\ q \in TunerInit(p.d) /\ o.d = q.d
  BY OpenedSteps
<1>2. /\ Shaped(d) /\ d.freq = 0 /\ d.ddc[1] = 0 /\ d.offs_freq = 0
      /\ d.direct_sampling = 0 /\ d.tuner_type = kind /\ d.failures = 0
      /\ d.chip = d.shadow
  BY DEF Fresh, Shaped, Fields, All
<1> HIDE DEF d
<1>3. Ready(d)
  BY <1>2 DEF Ready, Told
<1>4. CASE IsR82xx(d) /\ \E t \in SetIf(d, R82xxIf) : p.d = t.d
  <2>1. PICK t \in SetIf(d, R82xxIf) : p.d = t.d
    BY <1>4
  <2>2. /\ Shaped(p.d) /\ \A h \in Fields \ {"ddc", "failures"} : p.d[h] = d[h]
        /\ p.d.failures = 0 => p.d.ddc[1] = R82xxIf
    BY <1>2, <2>1, SetIfTells
  <2>3. p.d.freq = 0 /\ p.d.direct_sampling = 0 /\ p.d.tuner_type = d.tuner_type
    BY <1>2, <2>2 DEF Fields
  <2>4. IsR82xx(p.d)
    BY <1>4, <2>3 DEF IsR82xx
  <2>5. Moves(p.d, q.d) /\ Aimed(p.d, q.d) /\ q.d.int_freq = R82xxIf
    BY <1>1, <2>2, <2>4, TunerInitMoves, TunerInitTells
  <2>6. /\ q.d.freq = 0 /\ q.d.direct_sampling = 0 /\ q.d.ddc = p.d.ddc
        /\ q.d.tuner_type = p.d.tuner_type
        /\ q.d.failures = 0 => p.d.failures = 0
    BY <2>3, <2>5 DEF Aimed, Tuning, Moves
  <2>7. Level(q.d)
    BY <2>2, <2>4, <2>5, <2>6 DEF Level, IsR82xx
  <2> QED BY <1>1, <2>6, <2>7 DEF Good, Tuned
<1>5. CASE kind = "UNKNOWN" /\ \E t \in SetDirectSampling(d, 1) : p.d = t.d
  <2>1. Good(p.d) /\ p.d.freq = 0
    BY <1>2, <1>3, <1>5, DirectTunes
  <2>2. \A t \in SetDirectSampling(d, 1) : t.d.tuner_type = "UNKNOWN"
    BY <1>2, <1>5, DirectKind
  <2>3. q.d = p.d
    BY <1>1, <1>5, <2>2, OnlyTells DEF TunerInit, IsR82xx
  <2> QED BY <1>1, <2>1, <2>3
<1>6. CASE ~IsR82xx(d) /\ p.d = d
  <2>1. Moves(d, q.d) /\ Aimed(d, q.d)
    BY <1>1, <1>2, <1>6, TunerInitMoves, TunerInitTells
  <2>2. /\ q.d.freq = 0 /\ q.d.direct_sampling = 0 /\ q.d.ddc[1] = 0
        /\ q.d.offs_freq = 0 /\ q.d.tuner_type = d.tuner_type
    BY <1>2, <2>1 DEF Aimed, Tuning
  <2> QED BY <1>1, <1>6, <2>2 DEF Good, Tuned, Level, IsR82xx
<1> QED BY <1>1, <1>4, <1>5, <1>6 DEF Begun, d

------------------------------------------------------------------------------
(* The crystal the DDC was computed for: the one in force, wherever an IF is *)
(* in use.                                                                   *)
Timed(d) ==
  d.failures = 0 /\ (d.direct_sampling = 0 \/ IsR82xx(d))
  => d.ddc[1] = 0 \/ d.ddc[2] = d.rtl_xtal

LEMMA KeepsTimed ==
  ASSUME NEW d, NEW e, Timed(d), Moves(d, e), e.ddc = d.ddc PROVE Timed(e)
BY DEF Timed, Moves, Same, Steady, IsR82xx

LEMMA StaysTimed ==
  ASSUME NEW d, NEW e, Timed(d), Moves(d, e), Stays(d, e) PROVE Timed(e)
BY KeepsTimed DEF Stays, Tuning

LEMMA SetIfTimed ==
  ASSUME NEW d, Shaped(d), NEW freq, NEW o \in SetIf(d, freq) PROVE Timed(o.d)
<1>1. /\ \A h \in Fields \ {"ddc", "failures"} : o.d[h] = d[h]
      /\ o.d.failures = 0 => o.d.ddc[2] = d.rtl_xtal
  BY SetIfTells
<1>2. o.d.rtl_xtal = d.rtl_xtal
  BY <1>1 DEF Fields
<1> QED BY <1>1, <1>2 DEF Timed

LEMMA AsideTimed ==
  ASSUME NEW d, Timed(d), Shaped(d), NEW f \in {"freq", "bw", "corr", "tun_xtal"}, NEW v
  PROVE  Timed([d EXCEPT ![f] = v])
<1> DEFINE e == [d EXCEPT ![f] = v]
<1>1. Moves(d, e)
  BY MovesAside
<1>2. e.ddc = d.ddc
  BY DEF Shaped, Fields
<1> HIDE DEF e
<1>3. Timed(e)
  BY <1>1, <1>2, KeepsTimed
<1> QED BY <1>3 DEF e

(* In direct sampling the DDC is written, through the tuner it is kept.      *)
LEMMA CenterFreqTimed ==
  ASSUME NEW d, Ready(d), Timed(d) \/ d.direct_sampling # 0, NEW freq,
         NEW o \in SetCenterFreq(d, freq)
  PROVE  Timed(o.d)
<1>1. PICK p : FreqSetBy(d, freq, p, o)
  BY CenterFreqSteps
<1>2. Shaped(d) /\ (IsR82xx(d) => Told(d))
  BY DEF Ready
<1>3. CASE p \in SetIf(d, freq)
  <2>1. Timed(p.d) /\ Shaped(p.d)
    BY <1>2, <1>3, SetIfTimed, SetIfMoves DEF Moves
  <2> QED BY <1>1, <2>1, AsideTimed DEF FreqSetBy, Stored
<1>4. CASE d.direct_sampling = 0 /\ p \in TunerSetFreq(d, freq - d.offs_freq)
  <2> DEFINE wanted == freq - d.offs_freq
  <2> HIDE DEF wanted
  <2>1. p \in TunerSetFreq(d, wanted)
    BY <1>4 DEF wanted
  <2>2. Moves(d, p.d) /\ p.d.ddc = d.ddc
    BY <1>2, <2>1, TunerFreqMoves, TunerFreqTells DEF Tuning
  <2>3. Timed(p.d) /\ Shaped(p.d)
    BY <1>4, <2>2, KeepsTimed DEF Moves
  <2> QED BY <1>1, <2>3, AsideTimed DEF FreqSetBy, Stored
<1> QED BY <1>1, <1>3, <1>4 DEF FreqSetBy

(* The filter of an R82xx moves the IF, so that the DDC is written.          *)
LEMMA TunerBwTimed ==
  ASSUME NEW d, Ready(d), Timed(d) \/ IsR82xx(d), NEW bw, NEW o \in TunerSetBw(d, bw)
  PROVE  Timed(o.d)
<1>1. CASE IsR82xx(d)
  <2>1. PICK p \in R82SetBandwidth(d, bw) : BwSetBy(p, o)
    BY <1>1, TunerBwSteps
  <2>2. Ready(p.d) /\ (~p.ok => p.d.failures # 0)
    BY <1>1, R82BandwidthTells
  <2>3. ASSUME NEW q \in SetIf(p.d, p.d.int_freq) PROVE Ready(q.d) /\ Timed(q.d)
    BY <2>2, SetIfMoves, SetIfTimed, MovesReady DEF Ready
  <2>4. ASSUME NEW q \in SetIf(p.d, p.d.int_freq), o \in SetCenterFreq(q.d, q.d.freq)
        PROVE  Timed(o.d)
    BY <2>3, <2>4, CenterFreqTimed
  <2> QED BY <2>1, <2>2, <2>3, <2>4 DEF BwSetBy, Timed
<1>2. CASE ~IsR82xx(d)
  BY <1>2, TunerBwStays, TunerBwMoves, StaysTimed DEF Ready
<1> QED BY <1>1, <1>2

LEMMA BandwidthTimed ==
  ASSUME NEW d, Ready(d), Timed(d), NEW bw, NEW o \in SetTunerBandwidth(d, bw)
  PROVE  Timed(o.d)
<1>1. PICK p \in TunerSetBw(d, IF bw > 0 THEN bw ELSE d.rate) :
        o = p \/ o.d = [p.d EXCEPT !.bw = bw]
  BY DEF SetTunerBandwidth, IfOk, Done
<1>2. Timed(p.d) /\ Shaped(p.d)
  BY TunerBwTimed, TunerBwMoves DEF Moves, Ready
<1> QED BY <1>1, <1>2, AsideTimed

(* Where it is not refused, offset tuning writes the DDC.                    *)
LEMMA OffsetTimed ==
  ASSUME NEW d, Ready(d), NEW on \in BOOLEAN, NEW o \in SetOffsetTuning(d, on),
         Timed(d) \/ (~IsR82xx(d) /\ d.direct_sampling = 0)
  PROVE  Timed(o.d)
<1>1. CASE IsR82xx(d) \/ d.direct_sampling # 0
  BY <1>1 DEF SetOffsetTuning, Refused
<1>2. CASE ~(IsR82xx(d) \/ d.direct_sampling # 0)
  <2> DEFINE offs == Offset(d, on)
             e == Shifted(d, on)
  <2>1. PICK p, q : OffsetSetBy(d, on, p, q, o)
    BY <1>2, OffsetSteps
  <2>2. PICK bw : p \in SetIf(e, offs) /\ q \in TunerSetBw(p.d, bw)
    BY <2>1 DEF OffsetSetBy
  <2>3. Shaped(e) /\ e.tuner_type = d.tuner_type
    BY DEF Ready, Shaped, Fields, Shifted
  <2> HIDE DEF e, offs
  <2>4. Timed(p.d) /\ Moves(e, p.d)
    BY <2>2, <2>3, SetIfTimed, SetIfMoves
  <2>5. Ready(p.d) /\ ~IsR82xx(p.d)
    BY <1>2, <2>3, <2>4 DEF Ready, Moves, Same, Steady, IsR82xx
  <2>6. Timed(q.d) /\ Ready(q.d)
    BY <2>2, <2>4, <2>5, TunerBwTimed, TunerBwMoves, MovesReady DEF Ready
  <2> QED BY <2>1, <2>6, CenterFreqTimed DEF OffsetSetBy
<1> QED BY <1>1, <1>2

LEMMA ResampleTimed ==
  ASSUME NEW d, Ready(d), NEW rate, NEW o \in Resample(d, rate)
  PROVE  /\ o.d.offs_freq = d.offs_freq /\ o.d.direct_sampling = d.direct_sampling
         /\ o.d.tuner_type = d.tuner_type
         /\ Timed(d) \/ IsR82xx(d) => Timed(o.d)
<1> DEFINE e == AtRate(d, rate)
<1>1. PICK p, q, bw :
        /\ p \in TunerSetBw(e, bw)
        /\ o.d = q.d /\ q \in Demod(p.d, "ratio", RatioFor(p.d, rate))
  BY ResampleSteps DEF ResampledBy
<1>2. /\ Shaped(e) /\ e.tuner_type = d.tuner_type /\ e.failures = d.failures
      /\ e.chip = d.chip /\ e.shadow = d.shadow /\ e.offs_freq = d.offs_freq
      /\ e.direct_sampling = d.direct_sampling /\ e.ddc = d.ddc
      /\ e.rtl_xtal = d.rtl_xtal
  BY DEF Ready, Shaped, Fields, AtRate
<1> HIDE DEF e
<1>3. Ready(e) /\ (Timed(d) => Timed(e)) /\ (IsR82xx(d) => IsR82xx(e))
  BY <1>2 DEF Ready, Told, IsR82xx, Timed
<1>4. Moves(e, p.d) /\ Shaped(p.d)
  BY <1>1, <1>3, TunerBwMoves DEF Ready, Moves
<1>5. Timed(d) \/ IsR82xx(d) => Timed(p.d)
  BY <1>1, <1>3, TunerBwTimed
<1>6. /\ \A h \in Fields \ {"ratio", "failures"} : q.d[h] = p.d[h]
      /\ q.d.failures = 0 => p.d.failures = 0
  BY <1>1, <1>4, DemodTells
<1>7. /\ q.d.offs_freq = p.d.offs_freq /\ q.d.direct_sampling = p.d.direct_sampling
      /\ q.d.tuner_type = p.d.tuner_type /\ q.d.rtl_xtal = p.d.rtl_xtal
      /\ q.d.ddc = p.d.ddc
  BY <1>6 DEF Fields
<1>8. Timed(p.d) => Timed(q.d)
  BY <1>6, <1>7 DEF Timed, IsR82xx
<1>9. /\ p.d.offs_freq = e.offs_freq /\ p.d.direct_sampling = e.direct_sampling
      /\ p.d.tuner_type = e.tuner_type
  BY <1>4 DEF Moves, Same, Steady
<1> QED BY <1>1, <1>2, <1>5, <1>7, <1>8, <1>9

(* A rate that is accepted times the DDC, whatever it was before: of a       *)
(* zero-IF tuner without an offset it is 0, and an offset is set again.      *)
LEMMA SampleRateTimed ==
  ASSUME NEW d, Settled(d), Good(d), NEW rate, Supported(rate),
         NEW o \in SetSampleRate(d, rate)
  PROVE  Timed(o.d)
<1>1. PICK p \in Resample(d, rate) : Followed(p.d, o)
  BY SampleRateSteps
<1>2. Ready(d) /\ Ready(p.d)
  BY ResampleTrue DEF Ready, Settled
<1>3. /\ p.d.offs_freq = d.offs_freq /\ p.d.direct_sampling = d.direct_sampling
      /\ p.d.tuner_type = d.tuner_type
      /\ Timed(d) \/ IsR82xx(d) => Timed(p.d)
  BY <1>2, ResampleTimed
<1>4. CASE Timed(d) \/ IsR82xx(d)
  <2>1. \A q \in SetOffsetTuning(p.d, TRUE) : Timed(q.d)
    BY <1>2, <1>3, <1>4, OffsetTimed
  <2> QED BY <1>1, <1>3, <1>4, <2>1 DEF Followed
<1>5. CASE ~(Timed(d) \/ IsR82xx(d))
  <2>1. d.direct_sampling = 0 /\ d.offs_freq # 0
    BY <1>5 DEF Timed, Good, Level
  <2>2. ~IsR82xx(p.d) /\ p.d.direct_sampling = 0
    BY <1>3, <1>5, <2>1 DEF IsR82xx
  <2>3. \A q \in SetOffsetTuning(p.d, TRUE) : Timed(q.d)
    BY <1>2, <2>2, OffsetTimed
  <2> QED BY <1>1, <1>3, <2>1, <2>3 DEF Followed
<1> QED BY <1>4, <1>5

LEMMA RetuneTimed ==
  ASSUME NEW d, Ready(d), Timed(d), NEW o \in Retune(d) PROVE Timed(o.d)
<1>1. o.d = d \/ o \in SetCenterFreq(d, d.freq)
  BY DEF Retune, Done
<1> QED BY <1>1, CenterFreqTimed

LEMMA CorrectionTimed ==
  ASSUME NEW d, Ready(d), Timed(d), NEW ppm, NEW o \in SetFreqCorrection(d, ppm)
  PROVE  Timed(o.d)
<1> DEFINE e == [d EXCEPT !.corr = ppm]
<1>1. \/ o.d = d
      \/ \E p, q : /\ p \in Done(e) \/ p \in Broken(e)
                   /\ q \in Retune(p.d) /\ o.d = q.d
  BY DEF SetFreqCorrection, Refused, Then
<1>2. Moves(d, e) /\ Timed(e)
  BY MovesAside, AsideTimed DEF Ready
<1> HIDE DEF e
<1>3. ASSUME NEW p, p \in Done(e) \/ p \in Broken(e) PROVE Ready(p.d) /\ Timed(p.d)
  <2>1. Ready(e) /\ Shaped(e)
    BY <1>2, MovesReady DEF Ready
  <2>2. Stays(e, p.d) /\ Moves(e, p.d)
    BY <1>3, <2>1, OtherStays, OtherMoves
  <2> QED BY <1>2, <2>1, <2>2, MovesReady, StaysTimed
<1> QED BY <1>1, <1>3, RetuneTimed

(* Only before there is a rate does a crystal leave the DDC behind.          *)
LEMMA XtalFreqTimed ==
  ASSUME RatesFit, NEW d, Sound(d), Good(d), d.rate # 0 => Timed(d),
         NEW rtl \in RtlXtals, NEW tuner, NEW o \in SetXtalFreq(d, rtl, tuner)
  PROVE  o.d.rate # 0 => Timed(o.d)
<1> DEFINE e == [d EXCEPT !.rtl_xtal = rtl]
<1>1. CASE rtl # 0 /\ (rtl < MinRtlXtal \/ rtl > MaxRtlXtal)
  BY <1>1 DEF SetXtalFreq, Refused
<1>2. CASE ~(rtl # 0 /\ (rtl < MinRtlXtal \/ rtl > MaxRtlXtal))
  <2>1. PICK p : Reclocked(d, rtl, p) /\ Rejoined(p.d, tuner, o)
    BY <1>2, XtalFreqSteps
  <2>2. \/ p.d = d
        \/ rtl # 0 /\ d.rate = 0 /\ p.d = e
        \/ rtl # 0 /\ d.rate # 0 /\ p \in SetSampleRate(e, e.rate)
    BY <2>1 DEF Reclocked
  <2>3. Good(e) /\ e.freq = d.freq /\ e.rate = d.rate
    <3>1. Shaped(d)
      BY DEF Sound, Settled
    <3>2. e.rate = d.rate
      BY <3>1 DEF Shaped, Fields
    <3> QED BY <3>1, <3>2, StaysAside, StaysGood
  <2>4. rtl # 0 => Settled(e)
    BY <1>2, XtalSettled DEF Sound
  <2> HIDE DEF e
  <2>5. Ready(p.d) /\ (p.d.rate # 0 => Timed(p.d))
    <3>1. CASE p.d = d
      BY <3>1 DEF Sound, Settled, Ready
    <3>2. CASE rtl # 0 /\ d.rate = 0 /\ p.d = e
      BY <2>3, <2>4, <3>2 DEF Settled, Ready
    <3>3. CASE rtl # 0 /\ d.rate # 0 /\ p \in SetSampleRate(e, e.rate)
      <4>1. e.rate \in Rates /\ Supported(e.rate)
        BY <2>3, <3>3 DEF Sound, RateTrue
      <4> QED BY <2>3, <2>4, <3>3, <4>1, SampleRateTimed, SampleRateSound
              DEF Sound, Settled, Ready
    <3> QED BY <2>2, <3>1, <3>2, <3>3
  <2> DEFINE c == Clocked(p.d, tuner)
  <2>6. /\ Moves(p.d, c) /\ Ready(c)
        /\ p.d.rate # 0 => Timed(c)
    <3>1. Shaped(p.d)
      BY <2>5 DEF Ready
    <3>2. Moves(p.d, c)
      BY <3>1, MovesAside DEF Clocked
    <3> QED BY <2>5, <3>1, <3>2, MovesReady, AsideTimed DEF Clocked
  <2> HIDE DEF c
  <2>7. c.rate = p.d.rate
    BY <2>6 DEF Moves, Same, Steady
  <2>8. CASE o.d = p.d \/ o.d = c
    BY <2>5, <2>6, <2>7, <2>8
  <2>9. CASE o \in Retune(c)
    <3>1. o.d.rate = c.rate
      BY <2>6, <2>9, RetuneMoves DEF Ready, Moves, Same, Steady
    <3> QED BY <2>6, <2>7, <2>9, <3>1, RetuneTimed
  <2> QED BY <2>1, <2>8, <2>9 DEF Rejoined, c
<1> QED BY <1>1, <1>2

LEMMA DirectTimed ==
  ASSUME NEW d, Ready(d), d.offs_freq = 0, NEW on, NEW o \in SetDirectSampling(d, on)
  PROVE  Timed(o.d)
<1>1. PICK p : Woken(d, on, p) /\ \E q \in Demod(p.d, "path", <<on>>) : Switched(q.d, on, o)
  BY DirectSteps
<1>2. PICK q \in Demod(p.d, "path", <<on>>) : Switched(q.d, on, o)
  BY <1>1
<1>3. Ready(p.d)
  BY <1>1, WokenLevel
<1>4. on = 0 => Timed(p.d) /\ (p.d.failures = 0 => p.d.ddc[2] = p.d.rtl_xtal)
  <2> SUFFICES ASSUME NEW s \in TunerInit(d),
                      NEW t \in SetIf(s.d, IF IsR82xx(s.d) THEN R82xxIf ELSE 0)
               PROVE  Timed(t.d) /\ (t.d.failures = 0 => t.d.ddc[2] = t.d.rtl_xtal)
    BY <1>1 DEF Woken
  <2> DEFINE if == IF IsR82xx(s.d) THEN R82xxIf ELSE 0
  <2> HIDE DEF if
  <2>1. Shaped(s.d) /\ t \in SetIf(s.d, if)
    BY TunerInitMoves DEF if, Moves, Ready
  <2>2. /\ \A h \in Fields \ {"ddc", "failures"} : t.d[h] = s.d[h]
        /\ t.d.failures = 0 => t.d.ddc[2] = s.d.rtl_xtal
    BY <2>1, SetIfTells
  <2>3. t.d.rtl_xtal = s.d.rtl_xtal
    BY <2>2 DEF Fields
  <2> QED BY <2>1, <2>2, <2>3, SetIfTimed
<1>5. Stays(p.d, q.d) /\ Moves(p.d, q.d)
  BY <1>2, <1>3, RatioStays, DemodMoves DEF Ready
<1> DEFINE x == Sampling(q.d, on)
<1>6. /\ Ready(q.d) /\ Shaped(x) /\ x.tuner_type = q.d.tuner_type
      /\ x.failures = q.d.failures /\ x.chip = q.d.chip /\ x.shadow = q.d.shadow
      /\ x.direct_sampling = on /\ x.ddc = q.d.ddc /\ x.rtl_xtal = q.d.rtl_xtal
  BY <1>3, <1>5, MovesReady DEF Ready, Shaped, Fields, Sampling
<1> HIDE DEF x
<1>7. Ready(x)
  BY <1>6 DEF Ready, Told, IsR82xx
<1>8. Timed(x) \/ x.direct_sampling # 0
  <2>1. /\ q.d.ddc = p.d.ddc /\ q.d.rtl_xtal = p.d.rtl_xtal
        /\ q.d.failures = 0 => p.d.failures = 0
    BY <1>5 DEF Stays, Tuning, Moves, Same, Steady
  <2> QED BY <1>4, <1>6, <2>1 DEF Timed
<1>9. \A r \in SetCenterFreq(x, q.d.freq) : Timed(r.d)
  BY <1>7, <1>8, CenterFreqTimed
<1> QED BY <1>2, <1>9 DEF Switched, x

LEMMA OpenedTimed == ASSUME NEW kind \in Kinds, NEW o \in Opened(kind) PROVE Timed(o.d)
<1> DEFINE d == Fresh(kind)
<1>1. PICK p, q : Begun(kind, p) /\ q \in TunerInit(p.d) /\ o.d = q.d
  BY OpenedSteps
<1>2. /\ Shaped(d) /\ d.ddc[2] = d.rtl_xtal /\ d.offs_freq = 0 /\ d.chip = d.shadow
  BY DEF Fresh, Shaped, Fields, All
<1> HIDE DEF d
<1>3. Ready(d) /\ Timed(d)
  BY <1>2 DEF Ready, Told, Timed
<1>4. Timed(p.d) /\ Shaped(p.d)
  <2>1. ASSUME NEW t \in SetIf(d, R82xxIf) PROVE Timed(t.d) /\ Shaped(t.d)
    <3> DEFINE if == R82xxIf
    <3> HIDE DEF if
    <3>1. t \in SetIf(d, if)
      BY DEF if
    <3> QED BY <1>2, <3>1, SetIfTimed, SetIfTells
  <2>2. ASSUME NEW t \in SetDirectSampling(d, 1) PROVE Timed(t.d) /\ Shaped(t.d)
    BY <1>2, <1>3, DirectTimed, DirectKind
  <2> QED BY <1>1, <1>2, <1>3, <2>1, <2>2 DEF Begun, d
<1>5. Moves(p.d, q.d) /\ Aimed(p.d, q.d)
  BY <1>1, <1>4, TunerInitMoves, TunerInitTells
<1> QED BY <1>1, <1>4, <1>5, KeepsTimed DEF Aimed, Tuning

------------------------------------------------------------------------------
Inv == IsOpen => Sound(dev)

LEMMA InvInit == Init => Inv
BY DEF Init, Inv, IsOpen

(* One case per setter.                                                      *)
LEMMA SetterSound ==
  ASSUME Inv, Setter PROVE Sound(dev')
<1>1. Sound(dev) /\ Shaped(dev)
  BY DEF Setter, Inv, Sound, Settled
<1>2. CASE CallCenterFreq
  BY <1>1, <1>2, CenterFreqMoves, MovesSound DEF CallCenterFreq, Call
<1>3. CASE CallSampleRate
  BY <1>1, <1>3, SampleRateSound DEF CallSampleRate, Call, Sound
<1>4. CASE CallBandwidth
  BY <1>1, <1>4, BandwidthMoves, MovesSound DEF CallBandwidth, Call
<1>5. CASE CallGain
  BY <1>1, <1>5, GainMoves, GainModeMoves, MovesSound DEF CallGain, Call
<1>6. CASE CallClock
  BY <1>1, <1>6, CorrectionMoves, XtalFreqSound, MovesSound DEF CallClock, Call
<1>7. CASE CallOffset
  BY <1>1, <1>7, OffsetSound DEF CallOffset, Call, Sound
<1>8. CASE CallDirect
  BY <1>1, <1>8, DirectSound DEF CallDirect, Call
<1> QED BY <1>2, <1>3, <1>4, <1>5, <1>6, <1>7, <1>8 DEF Setter

LEMMA InvNext == ASSUME Inv, [Next]_vars PROVE Inv'
<1>1. ASSUME NEW kind \in Tuners, Open(kind) PROVE Inv'
  BY <1>1, ConfigAssumption, OpenedSound DEF ConfigAssumption, Open, Inv
<1>2. CASE Close
  BY <1>2 DEF Close, Inv, IsOpen
<1>3. CASE Setter
  BY <1>3, SetterSound DEF Inv
<1>4. CASE UNCHANGED vars
  BY <1>4 DEF vars, Inv, IsOpen
<1> QED BY <1>1, <1>2, <1>3, <1>4 DEF Next

THEOREM InvAlways == Spec => []Inv
<1>1. Init => Inv
  BY InvInit
<1>2. Inv /\ [Next]_vars => Inv'
  BY InvNext
<1> QED BY <1>1, <1>2, PTL DEF Spec

(* While nothing has failed the shadow of an R82xx is its chip, whatever is   *)
(* called, and however the transfers of earlier devices went.                *)
THEOREM ShadowAlwaysTrue == Spec => []ShadowTrue
<1>1. Inv => ShadowTrue
  BY DEF Inv, Sound, Settled, Told, ShadowTrue
<1> QED BY <1>1, InvAlways, PTL

(* The rate that is reported is one that was asked for, through any number   *)
(* of changes of the crystal, and the register makes it of the crystal.       *)
THEOREM RateAlwaysAsAsked == ASSUME RatesFit PROVE Spec => []RateAsAsked
<1>1. ASSUME Inv, IsOpen, dev.failures = 0, dev.rate # 0
      PROVE  Scaled(dev.rtl_xtal, RealRatio(dev.ratio[1])).q = dev.rate
  <2>1. /\ dev.rate \in Rates /\ Supported(dev.rate) /\ dev.rtl_xtal \in Crystals
        /\ dev.ratio = <<RsampRatio(dev.rtl_xtal, dev.rate)>>
    BY <1>1 DEF Inv, Sound, Settled, RateTrue
  <2>2. /\ dev.rtl_xtal \in Nat /\ dev.rtl_xtal >= MinRtlXtal
        /\ dev.rate \in Nat /\ Fits(dev.rtl_xtal, dev.rate)
    BY <2>1, CrystalKnown DEF RatesFit
  <2>3. RealRate(dev.rtl_xtal, dev.rate) = dev.rate
    BY <2>2, RateExact
  <2> QED BY <2>1, <2>3 DEF RealRate
<1>2. Inv => RateAsAsked
  BY <1>1 DEF RateAsAsked, Inv, Sound, RateTrue
<1> QED BY <1>2, InvAlways, PTL

(* The offset is the one of the rate in force, also when transfers fail, for *)
(* a client that leaves offset tuning before it samples directly.            *)
THEOREM OffsetAlwaysFollows == ASSUME Careful PROVE Spec => []OffsetFollowsRate
<1>1. Inv => OffsetFollowsRate
  BY DEF Inv, Sound, OffsetTrue, OffsetFollowsRate
<1> QED BY <1>1, InvAlways, PTL

------------------------------------------------------------------------------
(* An open device is tuned to what it reports, which was asked for.          *)
InTune ==
  IsOpen => /\ Good(dev) /\ dev.freq \in {0} \cup Freqs
            /\ dev.rate # 0 => Timed(dev)

LEMMA SetterTunes ==
  ASSUME RatesFit, FreqsFit, Careful, Inv, InTune, Setter
  PROVE  Good(dev') /\ dev'.freq \in {0} \cup Freqs
<1>1. /\ Sound(dev) /\ Ready(dev) /\ RateTrue(dev)
      /\ Good(dev) /\ dev.freq \in {0} \cup Freqs
  BY DEF Setter, Inv, InTune, Sound, Settled, Ready
<1>2. CASE CallCenterFreq
  <2>1. PICK f \in Freqs : \E o \in SetCenterFreq(dev, f) : dev' = o.d
    BY <1>2 DEF CallCenterFreq, Call
  <2> QED BY <1>1, <2>1, CenterFreqTunes DEF Good, Poised
<1>3. CASE CallSampleRate
  <2>1. PICK r \in Rates : \E o \in SetSampleRate(dev, r) : dev' = o.d
    BY <1>3 DEF CallSampleRate, Call
  <2> QED BY <1>1, <2>1, SampleRateTunes DEF Sound
<1>4. CASE CallBandwidth
  BY <1>1, <1>4, BandwidthTunes DEF CallBandwidth, Call
<1>5. CASE CallGain
  BY <1>1, <1>5, GainStays, GainModeStays, StaysGood DEF CallGain, Call
<1>6. CASE CallClock
  <2>1. CASE \E p \in Ppms : Call(SetFreqCorrection(dev, p))
    BY <1>1, <2>1, CorrectionTunes DEF Call
  <2>2. CASE \E r \in RtlXtals, t \in TunerXtals : Call(SetXtalFreq(dev, r, t))
    <3>1. PICK r \in RtlXtals, t \in TunerXtals : \E o \in SetXtalFreq(dev, r, t) : dev' = o.d
      BY <2>2 DEF Call
    <3> QED BY <1>1, <3>1, XtalFreqTunes
  <2> QED BY <1>6, <2>1, <2>2 DEF CallClock
<1>7. CASE CallOffset
  <2>1. PICK on \in BOOLEAN : \E o \in SetOffsetTuning(dev, on) : dev' = o.d
    BY <1>7 DEF CallOffset, Call
  <2> QED BY <1>1, <2>1, OffsetTunes
<1>8. CASE CallDirect
  <2>1. /\ dev.offs_freq = 0
        /\ \E on \in Samplings : \E o \in SetDirectSampling(dev, on) : dev' = o.d
    BY <1>8 DEF CallDirect, Call
  <2> QED BY <1>1, <2>1, DirectTunes
<1> QED BY <1>2, <1>3, <1>4, <1>5, <1>6, <1>7, <1>8 DEF Setter

LEMMA SetterTimed ==
  ASSUME RatesFit, Careful, Inv, InTune, Setter
  PROVE  dev'.rate # 0 => Timed(dev')
<1>1. /\ Sound(dev) /\ Settled(dev) /\ Shaped(dev) /\ Ready(dev) /\ Good(dev)
      /\ dev.rate # 0 => Timed(dev)
  BY DEF Setter, Inv, InTune, Sound, Settled, Ready
<1>2. ASSUME Moves(dev, dev'), Timed(dev) => Timed(dev')
      PROVE  dev'.rate # 0 => Timed(dev')
  BY <1>1, <1>2 DEF Moves, Same, Steady
<1>3. CASE CallCenterFreq
  <2>1. PICK f \in Freqs : \E o \in SetCenterFreq(dev, f) : dev' = o.d
    BY <1>3 DEF CallCenterFreq, Call
  <2> QED BY <1>1, <1>2, <2>1, CenterFreqMoves, CenterFreqTimed
<1>4. CASE CallSampleRate
  <2>1. PICK r \in Rates : \E o \in SetSampleRate(dev, r) : dev' = o.d
    BY <1>4 DEF CallSampleRate, Call
  <2>2. CASE Supported(r)
    BY <1>1, <2>1, <2>2, SampleRateTimed
  <2>3. CASE ~Supported(r)
    BY <1>1, <2>1, <2>3 DEF SetSampleRate, Refused
  <2> QED BY <2>2, <2>3
<1>5. CASE CallBandwidth
  <2>1. PICK b \in Bandwidths : \E o \in SetTunerBandwidth(dev, b) : dev' = o.d
    BY <1>5 DEF CallBandwidth, Call
  <2> QED BY <1>1, <1>2, <2>1, BandwidthMoves, BandwidthTimed
<1>6. CASE CallGain
  <2>1. Moves(dev, dev') /\ Stays(dev, dev')
    BY <1>1, <1>6, GainMoves, GainModeMoves, GainStays, GainModeStays DEF CallGain, Call
  <2> QED BY <1>2, <2>1, StaysTimed
<1>7. CASE CallClock
  <2>1. CASE \E p \in Ppms : Call(SetFreqCorrection(dev, p))
    BY <1>1, <1>2, <2>1, CorrectionMoves, CorrectionTimed DEF Call
  <2>2. CASE \E r \in RtlXtals, t \in TunerXtals : Call(SetXtalFreq(dev, r, t))
    <3>1. PICK r \in RtlXtals, t \in TunerXtals : \E o \in SetXtalFreq(dev, r, t) : dev' = o.d
      BY <2>2 DEF Call
    <3> QED BY <1>1, <3>1, XtalFreqTimed
  <2> QED BY <1>7, <2>1, <2>2 DEF CallClock
<1>8. CASE CallOffset
  <2>1. PICK on \in BOOLEAN : \E o \in SetOffsetTuning(dev, on) : dev' = o.d
    BY <1>8 DEF CallOffset, Call
  <2>2. CASE IsR82xx(dev) \/ dev.direct_sampling # 0
    BY <1>1, <2>1, <2>2 DEF SetOffsetTuning, Refused
  <2> QED BY <1>1, <2>1, <2>2, OffsetTimed
<1>9. CASE CallDirect
  <2>1. /\ dev.offs_freq = 0
        /\ \E on \in Samplings : \E o \in SetDirectSampling(dev, on) : dev' = o.d
    BY <1>9 DEF CallDirect, Call
  <2> QED BY <1>1, <2>1, DirectTimed
<1> QED BY <1>3, <1>4, <1>5, <1>6, <1>7, <1>8, <1>9 DEF Setter

LEMMA TuneNext ==
  ASSUME RatesFit, FreqsFit, Careful, Inv, InTune, [Next]_vars PROVE InTune'
<1>1. ASSUME NEW kind \in Tuners, Open(kind) PROVE InTune'
  <2>1. PICK o \in Opened(kind) : dev' = o.d
    BY <1>1 DEF Open
  <2> QED BY <2>1, ConfigAssumption, OpenedTunes, OpenedTimed DEF ConfigAssumption, InTune
<1>2. CASE Close
  BY <1>2 DEF Close, InTune, IsOpen
<1>3. CASE Setter
  BY <1>3, SetterTunes, SetterTimed DEF InTune
<1>4. CASE UNCHANGED vars
  BY <1>4 DEF vars, InTune, IsOpen
<1> QED BY <1>1, <1>2, <1>3, <1>4 DEF Next

LEMMA InTuneAlways == ASSUME RatesFit, FreqsFit, Careful PROVE Spec => []InTune
<1>1. Init => InTune
  BY DEF Init, InTune, IsOpen
<1>2. Inv /\ InTune /\ [Next]_vars => InTune'
  BY TuneNext
<1> QED BY <1>1, <1>2, InvAlways, PTL DEF Spec

(* While nothing fails each tuner, the upconverting Blog V4 among them, is    *)
(* told the frequency that is reported, with the clock and the correction in *)
(* force and the front end in its band, through every mixture of the setters; *)
(* the FC tuners also when transfers fail.                                   *)
THEOREM TunedAlwaysReported ==
  ASSUME RatesFit, FreqsFit, Careful PROVE Spec => []TunedAsReported
<1>1. InTune => TunedAsReported
  BY DEF InTune, Good, Tuned, Heard, FcTuners, TunedAsReported
<1> QED BY <1>1, InTuneAlways, PTL

(* The DDC always has the IF the tuner leaves, or the frequency itself, and   *)
(* has it for the crystal in force, however the setters are mixed; what a    *)
(* correction leaves stale it does not promise.                              *)
THEOREM AlwaysDownconverted ==
  ASSUME RatesFit, FreqsFit, Careful PROVE Spec => []Downconverted
<1>1. InTune => Downconverted
  BY DEF InTune, Good, Level, Timed, Downconverted, IsR82xx
<1> QED BY <1>1, InTuneAlways, PTL
=============================================================================
