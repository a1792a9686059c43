------------------------------- MODULE HopPlan -------------------------------
(* frequency_range of rtl_power (rtl_power.c 429-540): the range is cut into *)
(* hops of one width, captured at one rate, and each into 2^bin_e bins.      *)
(* crop is in percent.                                                       *)
EXTENDS Synthesizers

MaximumRate == 2800000
MinimumRate == 1000000
MaxTunes    == 3000

(* (int)(bw / (1.0 - crop))                                                  *)
Uncropped(bw, crop) == MulDiv(bw, 100, 100 - crop)[1]

(* Mutant: the number of hops is that of the uncropped bandwidth.            *)
HopCount_NoCrop(width, crop) == Min({i \in 1 .. 1499 : width \div i <= MaximumRate})

HopCount(width, crop) ==
  Min({i \in 1 .. 1499 : Uncropped(width \div i, crop) <= MaximumRate})

Log2(i) == Max({p \in 0 .. 22 : 2 ^ p <= i})

(* A narrow range is captured faster and decimated; without the boxcar only  *)
(* by powers of two.                                                         *)
Decimation(bw_used, boxcar) ==
  LET most == MaximumRate \div bw_used
  IN  IF bw_used >= MinimumRate THEN 1 ELSE IF boxcar THEN most ELSE 2 ^ Log2(most)

CeilDiv(a, b) == (a + b - 1) \div b

(* The fewest bins, as a power of two, that are not wider than max_size.     *)
BinBits(rate, downsample, max_size) ==
  LET enough == {i \in 1 .. 21 : CeilDiv(CeilDiv(rate, downsample), 2 ^ i) <= max_size}
  IN  IF enough = {} THEN 21 ELSE Min(enough)

FrequencyRange(lower, upper, max_size, crop, boxcar) ==
  LET hops    == HopCount(upper - lower, crop)
      seen    == (upper - lower) \div hops
      used    == Uncropped(seen, crop)
      down    == Decimation(used, boxcar)
      rate    == IF down = 1 \/ boxcar THEN used * down ELSE Uncropped(seen * down, crop)
      giant   == max_size >= MinimumRate
      width   == IF giant THEN max_size ELSE seen
      count   == IF giant THEN (upper - lower) \div max_size
                 ELSE IF used < MinimumRate THEN 1 ELSE hops
  IN  [count |-> count, width |-> width, downsample |-> down,
       rate  |-> IF giant THEN max_size ELSE rate,
       bin_e |-> IF giant THEN 0 ELSE BinBits(rate, down, max_size),
       crop  |-> IF giant THEN 0 ELSE crop,
       freq  |-> [i \in 0 .. count - 1 |-> lower + i * width + width \div 2]]

(* The buffer of a hop: at least DEFAULT_BUF_LENGTH bytes, two to a sample.  *)
BufLen(p) == Max({16384, 2 * 2 ^ p.bin_e * p.downsample})

(* What scanner transforms of it, 2^bin_e decimated samples at a time: how   *)
(* often, and how many bytes of the last transform lie behind the buffer.    *)
Transforms(p) ==
  LET length == BufLen(p) \div p.downsample
      step   == 2 * 2 ^ p.bin_e
      count  == CeilDiv(length, step)
  IN  [count |-> count, beyond |-> count * step - length]

(* The row csv_dbm writes for a hop, and the width of one of its bins.       *)
BinWidth(p) == p.rate \div (2 ^ p.bin_e * p.downsample)

CsvRow(p, i) ==
  LET len       == 2 ^ p.bin_e
      bin_count == (len * (100 - p.crop)) \div 100
      bw2       == MulDiv(p.rate, bin_count, len * 2 * p.downsample)[1]
  IN  [low |-> p.freq[i] - bw2, high |-> p.freq[i] + bw2]
==============================================================================
