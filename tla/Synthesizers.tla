---------------------------- MODULE Synthesizers ----------------------------
(* The PLL computations of the five tuner drivers.  A setting is what the    *)
(* registers say, decoded again: the oscillator runs at                      *)
(*      (n + frac / den) * ref / mult,                                       *)
(* or the driver refuses.  Rounding, truncation to the width of a C variable *)
(* and the packing into registers are those of the code.                     *)
EXTENDS Integers, FiniteSetsExt

NoSetting == [mult |-> 0]

(* <<a * b \div c, a * b % c>>; a below 2^31, c below 2^29.                  *)
MulDiv(a, b, c) ==
  LET f[k \in Nat] ==
        IF k = 0 THEN <<0, 0>>
        ELSE LET h   == f[k \div 2]
                 sum == 2 * h[2] + (k % 2) * (a % c)
             IN  <<2 * h[1] + (k % 2) * (a \div c) + sum \div c, sum % c>>
  IN  f[b]

------------------------------------------------------------------------------
(* r82xx_set_pll.  fine is the chip's vco_fine_tune, to which the divider is *)
(* adapted.                                                                  *)
VcoMin == 1770000
MixDivs == {2, 4, 8, 16, 32, 64}
DivNum == [m \in MixDivs |-> CASE m = 2 -> 0 [] m = 4 -> 1 [] m = 8 -> 2
                               [] m = 16 -> 3 [] m = 32 -> 4 [] m = 64 -> 5]

FitsVco(khz, m) == VcoMin <= khz * m /\ khz * m < 2 * VcoMin

Sign(i) == CASE i > 0 -> 1 [] i = 0 -> 0 [] OTHER -> -1

R82Pll(lo, ref, powerRef, fine) ==
  LET khz  == (lo + 500) \div 1000
      mixes == {m \in MixDivs : FitsVco(khz, m)}
      mix  == IF mixes = {} THEN 128 ELSE Min(mixes)
      num  == ((IF mixes = {} THEN 0 ELSE DivNum[mix]) - Sign(fine - powerRef)) % 8
      md   == MulDiv(lo, 65536 * mix, 2 * ref)
      div  == md[1] + (md[2] + ref) \div (2 * ref)
      nint == (div \div 65536) % 256
      ni   == IF nint < 13 THEN -((13 - nint) \div 4) ELSE (nint - 13) \div 4
      reg4 == (ni + 64 * (nint - 4 * ni - 13)) % 256
  IN  IF nint > 128 \div powerRef - 1 THEN NoSetting
      ELSE [mult |-> 2 * 2 ^ ((num + Sign(fine - powerRef)) % 8),
            n    |-> 13 + 4 * (reg4 % 64) + reg4 \div 64,
            frac |-> div % 65536, den |-> 65536, ref |-> 2 * ref]

------------------------------------------------------------------------------
(* e4k_compute_pll_params.                                                   *)
PllVars == {<<72400000, 48>>, <<81200000, 40>>, <<108300000, 32>>, <<162500000, 24>>,
            <<216600000, 16>>, <<325000000, 12>>, <<350000000, 8>>, <<432000000, 8>>,
            <<667000000, 6>>, <<1200000000, 4>>}

E4kMult(flo) ==
  LET above == {v \in PllVars : flo < v[1]}
  IN  IF above = {} THEN 2 ELSE (CHOOSE v \in above : \A w \in above : v[1] <= w[1])[2]

E4kPll(flo, fosc) ==
  LET md == MulDiv(flo, E4kMult(flo), fosc)
  IN  IF fosc < 16000000 \/ fosc > 30000000 THEN NoSetting
      ELSE [mult |-> E4kMult(flo), n |-> md[1] % 256,
            frac |-> MulDiv(md[2], 65536, fosc)[1] % 65536, den |-> 65536, ref |-> fosc]

------------------------------------------------------------------------------
(* fc0012_set_params and fc0013_set_params: f_vco = freq * multi has 32 bits. *)
FcMult(freq, last) ==
  CASE freq < 37084000 -> 96
    [] 37084000 <= freq /\ freq < 55625000 -> 64
    [] 55625000 <= freq /\ freq < 74167000 -> 48
    [] 74167000 <= freq /\ freq < 111250000 -> 32
    [] 111250000 <= freq /\ freq < 148334000 -> 24
    [] 148334000 <= freq /\ freq < 222500000 -> 16
    [] 222500000 <= freq /\ freq < 296667000 -> 12
    [] 296667000 <= freq /\ freq < 445000000 -> 8
    [] 445000000 <= freq /\ freq < 593334000 -> 6
    [] 593334000 <= freq /\ freq < last -> 4
    [] OTHER -> 2

FcVco(freq, multi, half) ==
  LET vco == MulDiv(freq, multi, half)
      two32 == MulDiv(1073741824, 4, half)
      wraps == vco[1] > two32[1] \/ (vco[1] = two32[1] /\ vco[2] >= two32[2])
      q == vco[1] - two32[1]
      r == vco[2] - two32[2]
  IN  IF ~wraps THEN vco ELSE IF r >= 0 THEN <<q, r>> ELSE <<q - 1, r + half>>

(* Mutant: the divider is not rounded, though the fraction is signed.        *)
FcDivider_Floor(vco, half) == vco[1]

(* xdiv is rounded, since xin is a signed fraction.                          *)
FcDivider(vco, half) == vco[1] + IF vco[2] >= half \div 2 THEN 1 ELSE 0

FcFraction(vco, half) ==
  LET xin == ((vco[2] \div 1000) * 32768) \div (half \div 1000)
  IN  IF xin >= 16384 THEN (xin + 32768) % 65536 ELSE xin

FcPll(freq, multi, half) ==
  LET vco  == FcVco(freq, multi, half)
      xdiv == FcDivider(vco, half)
      low  == xdiv % 8 < 2
      am   == (xdiv % 8) + IF low THEN 8 ELSE 0
      pm   == xdiv \div 8 - IF low THEN 1 ELSE 0
      reg1 == IF pm > 31 THEN am + 8 * (pm - 31) ELSE am
      reg2 == IF pm > 31 THEN 31 ELSE pm
      xin  == FcFraction(vco, half)
  IN  IF reg1 > 15 \/ reg2 < 11 THEN NoSetting
      ELSE [mult |-> multi, n |-> 8 * reg2 + reg1, den |-> 32768, ref |-> half,
            frac |-> IF xin >= 32768 THEN xin - 65536 ELSE xin]

Fc0012Pll(freq, xtal) == FcPll(freq, FcMult(freq, 2147483647), xtal \div 2)
Fc0013Pll(freq, xtal) == FcPll(freq, FcMult(freq, 950000000), xtal \div 2)

------------------------------------------------------------------------------
(* fc2580_set_freq, in kHz and with the driver's own crystal.                *)
Fc2580Xtal == 16384

Fc2580Pll(khz) ==
  LET mult == IF khz > 1000000 THEN 2 ELSE IF khz > 400000 THEN 4 ELSE 12
      vco  == khz * mult
      r    == IF vco >= 2 * 76 * Fc2580Xtal THEN 1
              ELSE IF vco >= 76 * Fc2580Xtal THEN 2 ELSE 4
      comp == Fc2580Xtal \div r
      n    == (vco \div 2) \div comp
      diff == (vco - 2 * comp * n) * 65536
      unit == (2 * comp) \div 16
      k    == diff \div unit + IF diff % unit >= comp \div 16 THEN 1 ELSE 0
  IN  [mult |-> mult, n |-> n % 256, frac |-> k % 1048576, den |-> 1048576,
       ref  |-> 2 * comp]

------------------------------------------------------------------------------
(* How far the VCO is from the one that freq asks for.                       *)
VcoError(s, freq) ==
  LET asked == MulDiv(freq, s.mult, s.ref)
      part  == MulDiv(s.ref, IF s.frac < 0 THEN -s.frac ELSE s.frac, s.den)[1]
  IN  (s.n - asked[1]) * s.ref + (IF s.frac < 0 THEN -part ELSE part) - asked[2]
==============================================================================
