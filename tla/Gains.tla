-------------------------------- MODULE Gains --------------------------------
(* Gains in tenths of a dB: the list each tuner advertises                   *)
(* (rtlsdr_get_tuner_gains), the one nearest_gain picks from it, and what    *)
(* the driver then sets.                                                     *)
EXTENDS Integers, Sequences, SequencesExt

GainTuners == {"E4000", "FC0012", "FC0013", "FC2580", "R82xx"}

Advertised(tuner) ==
  CASE tuner = "E4000"  -> <<-10, 15, 40, 65, 90, 115, 140, 165, 190, 215, 240, 290, 340, 420>>
    [] tuner = "FC0012" -> <<-99, -40, 71, 179, 192>>
    [] tuner = "FC0013" -> <<-99, -73, -65, -63, -60, -58, -54, 58, 61, 63, 65, 67, 68,
                             70, 71, 179, 181, 182, 184, 186, 188, 191, 197>>
    [] tuner = "FC2580" -> <<0>>
    [] tuner = "R82xx"  -> <<0, 9, 14, 27, 37, 77, 87, 125, 144, 157, 166, 197, 207, 229,
                             254, 280, 297, 328, 338, 364, 372, 386, 402, 421, 434, 439,
                             445, 480, 496>>

Abs(i) == IF i < 0 THEN -i ELSE i

(* nearest_gain: the first of the advertised gains that are nearest.         *)
NearestGain(tuner, target) ==
  FoldLeft(LAMBDA nearest, g : IF Abs(target - g) < Abs(target - nearest) THEN g ELSE nearest,
           Head(Advertised(tuner)), Advertised(tuner))

NotSet == 9999

------------------------------------------------------------------------------
(* r82xx_set_gain raises LNA and mixer in turn until the sum is enough.      *)
LnaSteps   == <<9, 13, 40, 38, 13, 31, 22, 26, 31, 26, 14, 19, 5, 35, 13>>
MixerSteps == <<5, 10, 10, 19, 9, 10, 25, 17, 10, 8, 16, 13, 6, 3, -8>>

(* Mutant: the mixer goes first.                                             *)
R82Steps_MixerFirst ==
  [k \in 1 .. 30 |-> IF k % 2 = 1 THEN MixerSteps[(k + 1) \div 2] ELSE LnaSteps[k \div 2]]

R82Steps ==
  [k \in 1 .. 30 |-> IF k % 2 = 1 THEN LnaSteps[(k + 1) \div 2] ELSE MixerSteps[k \div 2]]

R82Gain(gain) ==
  FoldLeft(LAMBDA total, step : IF total >= gain THEN total ELSE total + step, 0, R82Steps)

(* e4000_set_gain: a mixer gain of 4 or 12 dB, the rest from the LNA, whose  *)
(* table must have exactly that value.                                       *)
E4kLna == {-50, -25, 0, 25, 50, 75, 100, 125, 150, 175, 200, 250, 300}

E4kGain(gain) ==
  LET mixer == IF gain > 340 THEN 120 ELSE 40
      lna   == IF gain - mixer > 300 THEN 300 ELSE gain - mixer
  IN  IF lna \in E4kLna THEN lna + mixer ELSE NotSet

Fc0012Gain(gain) ==
  CASE gain < -40 -> -99 [] gain \in -40 .. 70 -> -40 [] gain \in 71 .. 178 -> 71
    [] gain \in 179 .. 191 -> 179 [] OTHER -> 192

(* fc0013_set_lna_gain: the first of the table that is enough, or the last.  *)
Fc0013Lna == <<-99, -73, -65, -63, -63, -60, -58, -54, 58, 61, 63, 65, 67, 68, 70, 71,
               179, 181, 182, 184, 186, 188, 191, 197>>

Fc0013Gain(gain) ==
  FoldLeft(LAMBDA found, g : IF found >= gain THEN found ELSE g, Head(Fc0013Lna), Fc0013Lna)

GainSet(tuner, gain) ==
  CASE tuner = "E4000" -> E4kGain(gain)   [] tuner = "FC0012" -> Fc0012Gain(gain)
    [] tuner = "FC0013" -> Fc0013Gain(gain) [] tuner = "R82xx" -> R82Gain(gain)
    [] OTHER -> 0
==============================================================================
