-------------------------------- MODULE R82xx --------------------------------
(* The R820T/R828D driver (tuner_r82xx.c) on a device record d.  The tuner's *)
(* registers are taken in the groups that are written together; d.chip is    *)
(* what the chip holds, d.shadow what the driver believes (priv->regs).      *)
(* "Blog V4" is the R828D of an RTL-SDR Blog V4, which the driver knows by   *)
(* the strings of the dongle.                                                *)
EXTENDS Integers, Sequences, FiniteSetsExt, Outcomes

CONSTANT MaxFaults   \* bound: on one open device, the transfers that fail
                     \* and the times its PLL does not lock

FaultsAssumption == MaxFaults \in Nat
ASSUME FaultsAssumption

(* "notch" is bit 3 of register 0x17, the open drain, "cable2" bit 3 of 0x06, *)
(* "input" bits 5 and 6 of 0x05.                                             *)
Groups == {"mux", "pll", "filter", "gain", "input", "notch", "cable2"}

Unknown == <<>>       \* a register whose write failed
Reset   == <<-1>>     \* the value of r82xx_init_array
Standby == <<-2>>     \* the value r82xx_standby writes
Boosted == <<-3>>     \* the PLL group with more VCO current
Agc     == <<-4>>     \* the gain group as r82xx_sysfreq_sel leaves it

(* A transfer that fails; what it was to write is then not known.           *)
Broken(d) ==
  IF d.failures + d.unlocks < MaxFaults THEN Refused([d EXCEPT !.failures = @ + 1]) ELSE {}

(* Mutant: the shadow is not updated.                                       *)
ForgetfulWrite(d, g, v) ==
  IF d.shadow[g] = v THEN Done(d) ELSE Done([d EXCEPT !.chip[g] = v]) \cup Broken(d)

(* r82xx_write: nothing is sent when the shadow has the value already, and  *)
(* the shadow takes it before the transfer.                                 *)
R82Write(d, g, v) ==
  LET e == [d EXCEPT !.shadow[g] = v]
  IN  IF d.shadow[g] = v
      THEN Done(d)
      ELSE Done([e EXCEPT !.chip[g] = v])
           \cup Broken([e EXCEPT !.chip[g] = Unknown])

(* The index into freq_ranges, in MHz.                                      *)
RangeStarts == {0, 50, 55, 60, 65, 70, 75, 80, 90, 100, 110, 120, 140, 180,
                220, 250, 280, 310, 450, 588, 650}
Band(freq) == Max({s \in RangeStarts : s <= freq \div 1000000})

OpenDrain(lo) == IF Band(lo) < 75 THEN 8 ELSE 0

R82SetMux(d, lo) ==
  IfOk(R82Write(d, "notch", <<OpenDrain(lo)>>), LAMBDA e : R82Write(e, "mux", <<Band(lo)>>))

(* r82xx_set_pll.  Reading the chip may fail before anything is stored.  A  *)
(* PLL that does not lock is given more current, which changes the shadow   *)
(* of one of its registers; the call then returns 0 with has_lock cleared.  *)
R82SetPll(d, lo) ==
  Broken(d) \cup
  IfOk(R82Write(d, "pll", <<lo, d.tun_xtal, d.corr>>),
       LAMBDA e : Done([e EXCEPT !.has_lock = TRUE]) \cup Broken(e)
                  \cup IF e.failures + e.unlocks < MaxFaults
                       THEN Done([e EXCEPT !.has_lock = FALSE,
                                           !.unlocks = @ + 1,
                                           !.shadow["pll"] = Boosted])
                       ELSE {})

(* r82xx_set_freq.  The R828D switches its antenna input at 345 MHz and     *)
(* remembers the choice in priv->input before it is written.                *)
R828dInput(freq) == IF freq > 345000000 THEN <<0>> ELSE <<96>>

R828dSetInput(d, freq) ==
  IF d.tuner_type # "R828D" \/ R828dInput(freq) = d.input
  THEN Done(d)
  ELSE R82Write([d EXCEPT !.input = R828dInput(freq)], "input", R828dInput(freq))

(* The Blog V4 has three inputs, HF, VHF and UHF, behind a notch filter that *)
(* is off in the broadcast bands, and an upconverter for HF.                 *)
UpconverterHz == 28800000
HF  == <<1>>
VHF == <<2>>
UHF == <<3>>

IsBlogV4(d) == d.tuner_type = "Blog V4"

Upconverted(d, freq) ==
  IF IsBlogV4(d) /\ freq < UpconverterHz THEN freq + UpconverterHz ELSE freq

V4Notch(freq) ==
  IF \/ freq <= 2200000
     \/ freq \in 85000000 .. 112000000 \/ freq \in 172000000 .. 242000000
  THEN <<0>> ELSE <<8>>

V4Band(freq) ==
  CASE freq <= UpconverterHz -> HF [] freq >= 250000000 -> UHF [] OTHER -> VHF

V4Cable2(band) == IF band = HF THEN <<8>> ELSE <<0>>
V4Input(band)  == CASE band = HF -> <<32>> [] band = VHF -> <<96>> [] OTHER -> <<0>>

(* priv->input takes the band before the inputs are switched.  Between them  *)
(* the upconverter's GPIO is set, whose failure nobody hears of; the two bits *)
(* of register 0x05 are taken as one write.                                  *)
V4SetInput(d, freq) ==
  LET band == V4Band(freq)
      Switched(e) ==
        IfOk(R82Write([e EXCEPT !.input = band], "cable2", V4Cable2(band)),
             LAMBDA f : Then(Done(f) \cup Ignore(Broken(f)),
                             LAMBDA g : R82Write(g, "input", V4Input(band))))
  IN  IfOk(R82Write(d, "notch", V4Notch(freq)),
           LAMBDA e : IF e.input = band THEN Done(e) ELSE Switched(e))

R82SetInput(d, freq) ==
  IF IsBlogV4(d) THEN V4SetInput(d, freq) ELSE R828dSetInput(d, freq)

(* Without a lock the call ends before the inputs are looked at, with 0.     *)
R82SetFreq(d, freq) ==
  LET lo == Upconverted(d, freq) + d.int_freq
  IN  IfOk(R82SetMux(d, lo),
           LAMBDA e : IfOk(R82SetPll(e, lo),
             LAMBDA f : IF f.has_lock THEN R82SetInput(f, freq)
                        ELSE Done(f)))

(* r82xx_set_bandwidth: the intermediate frequency in Hz and the filter for *)
(* a bandwidth, from the low-pass table and two high-pass corners.          *)
LowPass == {1700000, 1600000, 1550000, 1450000, 1200000, 900000, 700000,
            550000, 450000, 350000}
HpBw1 == 350000
HpBw2 == 380000

LowPassFor(bw) == {p \in LowPass : p >= bw}

FilterFor(bw) ==
  LET two  == bw > 1700000 + HpBw1
      b2   == IF two THEN bw - HpBw2 ELSE bw
      one  == b2 > 1700000
      b1   == IF one THEN b2 - HpBw1 ELSE b2
      hp   == (IF two THEN HpBw2 ELSE 0) + (IF one THEN HpBw1 ELSE 0)
      wide == hp + Min(LowPassFor(b1))
  IN  CASE bw > 7000000 -> [int |-> 4570000, width |-> 8000000]
        [] bw \in 6000001 .. 7000000 -> [int |-> 4570000, width |-> 7000000]
        [] bw \in 1700001 + HpBw1 + HpBw2 .. 6000000
             -> [int |-> 3570000, width |-> 6000000]
        [] OTHER -> [int |-> 2300000 + hp - wide \div 2, width |-> wide]

R82SetBandwidth(d, bw) ==
  LET f == FilterFor(bw)
  IN  R82Write([d EXCEPT !.int_freq = f.int], "filter", <<f.width>>)

(* r82xx_set_gain: gain <<-1>> stands for the automatic mode.               *)
R82SetGain(d, gain) == R82Write(d, "gain", <<gain>>)

All(v) == [g \in Groups |-> v]

(* r82xx_standby writes nearly all registers, one by one.                   *)
StandbyOrder == <<"cable2", "input", "gain", "filter", "pll", "notch", "mux">>

R82Standby(d) ==
  IF ~d.init_done THEN Done(d)
  ELSE Done([d EXCEPT !.chip = All(Standby), !.shadow = All(Standby)])
       \cup UNION {LET sent == {StandbyOrder[i] : i \in 1 .. k}
                       Off(r) == [g \in Groups |-> IF g \in sent THEN Standby ELSE r[g]]
                   IN  Broken([d EXCEPT !.shadow = Off(@),
                                 !.chip = [Off(@) EXCEPT ![StandbyOrder[k]] = Unknown]])
                   : k \in 1 .. Len(StandbyOrder)}

(* r82xx_set_tv_standard: the filter is calibrated with the PLL at 56 MHz;  *)
(* without a lock the rest is left out and the call still returns 0.        *)
R82SetTvStandard(d) ==
  IfOk(R82SetPll([d EXCEPT !.int_freq = 3570000, !.shadow = All(Reset)], 56000000),
       LAMBDA e : IF e.has_lock THEN R82Write(e, "filter", <<6000000>>) ELSE Done(e))

(* Mutant: the choice of input outlives the chip's reset.                    *)
R82SysfreqSel_KeepsInput(d) == R82Write(d, "gain", Agc)

(* r82xx_sysfreq_sel: the thresholds of the gain control, and the air input, *)
(* which the registers have since their reset.                               *)
R82SysfreqSel(d) ==
  IfOk(R82Write(d, "gain", Agc), LAMBDA e : Done([e EXCEPT !.input = <<0>>]))

(* All registers are given their first values; that one failed goes unseen. *)
ResetAll(d) ==
  Done([d EXCEPT !.chip = All(Reset)])
  \cup Ignore(Broken([d EXCEPT !.chip = All(Unknown)]))

(* r82xx_init.  The result of the array that is sent first is overwritten,  *)
(* so a failure there goes unnoticed while the shadow says it was sent.     *)
R82Init(d) ==
  IfOk(ResetAll(d), LAMBDA e : IfOk(R82SetTvStandard(e),
    LAMBDA f : Storing(R82SysfreqSel(f), LAMBDA o : [o.d EXCEPT !.init_done = TRUE])))
==============================================================================
