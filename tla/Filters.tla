------------------------------- MODULE Filters -------------------------------
(* The tables the E4000's driver picks a setting from (tuner_e4k.c): the RF  *)
(* filter of a band, the three IF filters, and the gain of an IF stage.      *)
(* Frequencies and bandwidths are in Hz, an index counts from 0.             *)
EXTENDS Integers, Sequences, SequencesExt

MHz(table) == [k \in DOMAIN table |-> 1000000 * table[k]]
KHz(table) == [k \in DOMAIN table |-> 1000 * table[k]]

RfFilterUhf == MHz(<<360, 380, 405, 425, 450, 475, 505, 540,
                     575, 615, 670, 720, 760, 840, 890, 970>>)
RfFilterL == MHz(<<1300, 1320, 1360, 1410, 1445, 1460, 1490, 1530,
                   1560, 1590, 1640, 1660, 1680, 1700, 1720, 1750>>)

IfFilters ==
  [mixer   |-> KHz([k \in 1 .. 8 |-> 27000] \o
                   <<4600, 4200, 3800, 3400, 3300, 2700, 2300, 1900>>),
   rc      |-> KHz(<<21400, 21000, 17600, 14700, 12400, 10600, 9000, 7700,
                     6400, 5300, 4400, 3400, 2600, 1800, 1200, 1000>>),
   channel |-> KHz(<<5500, 5300, 5000, 4800, 4600, 4400, 4300, 4100,
                     3900, 3800, 3700, 3600, 3400, 3300, 3200, 3100,
                     3000, 2950, 2900, 2800, 2750, 2700, 2600, 2550,
                     2500, 2450, 2400, 2300, 2280, 2240, 2200, 2150>>)]

Delta(a, b) == IF a > b THEN a - b ELSE b - a

(* closest_arr_idx; the first of two that are equally near.                  *)
ClosestIdx(table, x) ==
  FoldLeft(LAMBDA best, k : IF Delta(x, table[k]) < Delta(x, table[best]) THEN k ELSE best,
           1, [k \in DOMAIN table |-> k]) - 1

(* e4k_tune_params: the band of the oscillator, then the filter of the band; *)
(* the VHF bands have none.                                                  *)
E4kBand(flo) ==
  IF flo < 140000000 THEN "VHF2" ELSE IF flo < 350000000 THEN "VHF3"
  ELSE IF flo < 1135000000 THEN "UHF" ELSE "L"

ChooseRfFilter(band, flo) ==
  CASE band = "UHF" -> ClosestIdx(RfFilterUhf, flo)
    [] band = "L"   -> ClosestIdx(RfFilterL, flo)
    [] OTHER        -> 0

(* e4k_if_filter_bw_set writes the index into a field of 4 bits, or of 5 for *)
(* the channel filter; e4k_if_filter_bw_get looks it up again.               *)
FindIfBw(bw) ==
  [f \in DOMAIN IfFilters |-> ClosestIdx(IfFilters[f], bw) % IF f = "channel" THEN 32 ELSE 16]

(* e4000_set_bw and what the three filters then let through.                 *)
IfFilterBwGet(index) == [f \in DOMAIN IfFilters |-> IfFilters[f][index[f] + 1]]

------------------------------------------------------------------------------
(* The gains of the six IF stages in dB.  Stage 0 has none.                  *)
StageGains == <<<<-3, 6>>, <<0, 3, 6, 9>>, <<0, 3, 6, 9>>, <<0, 1, 2, 2>>,
                <<3, 6, 9, 12, 15, 15, 15, 15>>, <<3, 6, 9, 12, 15, 15, 15, 15>>>>

(* find_stage_gain: the index of the first that is equal, or refused.        *)
FindStageGain(stage, gain) ==
  IF stage \notin DOMAIN StageGains THEN -22
  ELSE LET same == {k \in DOMAIN StageGains[stage] : StageGains[stage][k] = gain}
       IN  IF same = {} THEN -22 ELSE (CHOOSE k \in same : \A l \in same : k <= l) - 1

(* Where e4k_if_gain_set puts a stage: in register 0 or 1 (GAIN3, GAIN4), at *)
(* a bit, with a width.                                                      *)
StageField == <<[reg |-> 1, shift |-> 0, width |-> 1], [reg |-> 1, shift |-> 1, width |-> 2],
                [reg |-> 1, shift |-> 3, width |-> 2], [reg |-> 1, shift |-> 5, width |-> 2],
                [reg |-> 2, shift |-> 0, width |-> 3], [reg |-> 2, shift |-> 3, width |-> 3]>>

FieldOf(regs, f) == (regs[f.reg] \div 2 ^ f.shift) % 2 ^ f.width

(* rtlsdr_set_tuner_if_gain takes tenths of a dB, which e4000_set_if_gain    *)
(* divides by ten, towards zero.                                             *)
SetIfGain(regs, stage, tenths) ==
  LET gain  == IF tenths < 0 THEN -((-tenths) \div 10) ELSE tenths \div 10
      index == FindStageGain(stage, gain)
  IN  IF index < 0 THEN regs
      ELSE LET f == StageField[stage]
           IN  [regs EXCEPT ![f.reg] = @ + (index - FieldOf(regs, f)) * 2 ^ f.shift]

(* What the registers say of a stage.                                        *)
StageGain(regs, stage) == StageGains[stage][FieldOf(regs, StageField[stage]) + 1]
==============================================================================
