----------------------------- MODULE DeviceConfig -----------------------------
(* Opening, configuring and closing a device (librtlsdr.c 571-1290 and        *)
(* 1445-1695): the fields of rtlsdr_dev against what the hardware was told.   *)
(* One thread calls; the setters are not safe for more.                       *)
EXTENDS TunerDrivers, Resampler

CONSTANTS Tuners,     \* the tuners a probe may find
          Freqs, Rates, Bandwidths, Gains, Ppms, RtlXtals, TunerXtals,
          Samplings,  \* the arguments of rtlsdr_set_direct_sampling
          Careful     \* the client sets the sampling mode only without offset tuning

Kinds == {"E4000", "FC0012", "FC0013", "FC2580", "R820T", "R828D", "Blog V4", "UNKNOWN"}

ConfigAssumption ==
  /\ Careful \in BOOLEAN
  /\ Tuners \subseteq Kinds
ASSUME ConfigAssumption

VARIABLES dev,       \* the device record, or Closed
          returned   \* the last call returned 0

vars == <<dev, returned>>

Closed == [closed |-> TRUE]
IsOpen == dev # Closed
IsR82xx(d) == d.tuner_type \in {"R820T", "R828D", "Blog V4"}

------------------------------------------------------------------------------
(* The demodulator's registers: ddc (the IF), ratio (the resampler) and path *)
(* (the ADC inputs, zero-IF and spectrum inversion).                         *)
Demod(d, reg, v) ==
  Done([d EXCEPT ![reg] = v]) \cup Broken([d EXCEPT ![reg] = Unknown])

(* rtlsdr_set_if_freq computes the register, -(freq * 2^22 / clock), from    *)
(* the crystal and the correction of this moment.                            *)
IfFor(d, freq) == <<freq, d.rtl_xtal, d.corr>>
SetIf(d, freq) == Demod(d, "ddc", IfFor(d, freq))

(* The entries of the tuners[] table; "UNKNOWN" has none.                    *)
TunerInit(d) ==
  CASE IsR82xx(d) -> R82Init(d)
    [] d.tuner_type = "E4000"  -> E4kInit(d)
    [] d.tuner_type = "FC0012" -> Fc0012Init(d)
    [] d.tuner_type = "FC0013" -> Fc0013Init(d)
    [] d.tuner_type = "FC2580" -> Fc2580Init(d)
    [] d.tuner_type = "UNKNOWN" -> Done(d)

TunerExit(d) ==
  CASE IsR82xx(d) -> R82Standby(d)
    [] d.tuner_type = "E4000" -> E4kStandby(d)
    [] OTHER -> Done(d)

(* What a synthesizer is set to: the frequency and the clock it starts from. *)
PllFor(d, freq) ==
  IF d.tuner_type = "FC2580" THEN <<Fc2580Khz(freq)>> ELSE <<freq, d.tun_xtal, d.corr>>

TunerSetFreq(d, freq) ==
  CASE IsR82xx(d) -> R82SetFreq(d, freq)
    [] d.tuner_type = "E4000"  -> E4kTune(d, freq, PllFor(d, freq))
    [] d.tuner_type = "FC0012" -> Fc0012SetParams(d, freq, PllFor(d, freq))
    [] d.tuner_type = "FC0013" -> Fc0013SetParams(d, freq, PllFor(d, freq))
    [] d.tuner_type = "FC2580" -> Fc2580SetFreq(d, freq)
    [] d.tuner_type = "UNKNOWN" -> Refused(d)

(* Mutant: the frequency is stored whether the tuner took it or not.         *)
SetCenterFreqAnyway(d, freq) ==
  Storing(IF d.direct_sampling # 0 THEN SetIf(d, freq)
          ELSE TunerSetFreq(d, freq - d.offs_freq),
          LAMBDA o : [o.d EXCEPT !.freq = freq])

(* rtlsdr_set_center_freq: in direct sampling mode the DDC tunes.            *)
SetCenterFreq(d, freq) ==
  LET tried == IF d.direct_sampling # 0 THEN SetIf(d, freq)
               ELSE TunerSetFreq(d, freq - d.offs_freq)
  IN  Storing(tried, LAMBDA o : [o.d EXCEPT !.freq = IF o.ok THEN freq ELSE 0])

(* Mutant: the IF of the tuner is moved and the DDC left where it was.       *)
TunerSetBwOnly(d, bw) ==
  CASE IsR82xx(d) -> IfOk(R82SetBandwidth(d, bw), LAMBDA e : SetCenterFreq(e, e.freq))
    [] OTHER -> Done(d)

(* tuner->set_bw.  That of the R82xx moves the IF and retunes; the FC2580 has *)
(* one bandwidth for all.                                                    *)
TunerSetBw(d, bw) ==
  CASE IsR82xx(d) ->
         IfOk(R82SetBandwidth(d, bw),
              LAMBDA e : IfOk(SetIf(e, e.int_freq),
                              LAMBDA f : SetCenterFreq(f, f.freq)))
    [] d.tuner_type = "E4000"  -> Send(d, "filter", <<bw>>)
    [] d.tuner_type = "FC2580" -> Fc2580SetFilter(d, 1)
    [] OTHER -> Done(d)

SetTunerBandwidth(d, bw) ==
  IfOk(TunerSetBw(d, IF bw > 0 THEN bw ELSE d.rate),
       LAMBDA e : Done([e EXCEPT !.bw = bw]))

SetTunerGain(d, gain) ==
  LET tried == CASE IsR82xx(d) -> R82SetGain(d, gain)
                 [] d.tuner_type = "E4000"  -> E4kSetGain(d, gain)
                 [] d.tuner_type = "FC0012" -> Send(d, "gain", <<gain>>)
                 [] d.tuner_type = "FC0013" -> Fc0013SetLnaGain(d, gain)
                 [] OTHER -> Done(d)
  IN  Storing(tried, LAMBDA o : [o.d EXCEPT !.gain = IF o.ok THEN gain ELSE 0])

(* The R82xx driver has one function for mode and gain: switching to manual  *)
(* mode sets gain 0, switching to automatic mode drops the gain.             *)
SetTunerGainMode(d, manual) ==
  CASE IsR82xx(d) -> R82SetGain(d, IF manual THEN 0 ELSE -1)
    [] d.tuner_type = "E4000"  -> E4kEnableManualGain(d)
    [] d.tuner_type = "FC0013" -> Fc0013SetGainMode(d)
    [] OTHER -> Done(d)

(* rtlsdr_set_offset_tuning.                                                 *)
OffsetFor(rate) == ((rate \div 2) * 170) \div 100

SetOffsetTuning(d, on) ==
  IF IsR82xx(d) \/ d.direct_sampling # 0 THEN Refused(d)
  ELSE LET offs == IF on THEN OffsetFor(d.rate) ELSE 0
           bw   == CASE on -> 2 * offs [] ~on /\ d.bw > 0 -> d.bw
                     [] OTHER -> d.rate
       IN  Then(Then(SetIf([d EXCEPT !.offs_freq = offs], offs),
                     LAMBDA e : Ignore(TunerSetBw(e, bw))),
                LAMBDA e : IF e.freq > e.offs_freq
                           THEN SetCenterFreq(e, e.freq) ELSE Done(e))

(* The resampler's part of rtlsdr_set_sample_rate: dev->rate is the rate     *)
(* computed back from the register, and the tuner's filter follows it.       *)
Resample(d, rate) ==
  LET e == [d EXCEPT !.rate = RealRate(d.rtl_xtal, rate)]
  IN  Then(Ignore(TunerSetBw(e, IF e.bw > 0 THEN e.bw ELSE e.rate)),
           LAMBDA f : Demod(f, "ratio", <<RsampRatio(f.rtl_xtal, rate)>>))

(* Mutant: the offset is not computed again for the new rate.                *)
SetSampleRateOnly(d, rate) ==
  IF ~Supported(rate) THEN Refused(d) ELSE Resample(d, rate)

(* The results of the tuner's bandwidth and of the offset tuning are dropped. *)
SetSampleRate(d, rate) ==
  IF ~Supported(rate) THEN Refused(d)
  ELSE Then(Resample(d, rate),
            LAMBDA e : IF e.offs_freq = 0 THEN Done(e)
                       ELSE Ignore(SetOffsetTuning(e, TRUE)))

(* rtlsdr_set_freq_correction and rtlsdr_set_xtal_freq: what depends on the  *)
(* clock is written again.                                                   *)
Retune(d) == IF d.freq = 0 THEN Done(d) ELSE SetCenterFreq(d, d.freq)

SetFreqCorrection(d, ppm) ==
  IF d.corr = ppm THEN Refused(d)
  ELSE LET e == [d EXCEPT !.corr = ppm]
       IN  Then(Done(e) \cup Broken(e), Retune)

MinRtlXtal == 28799000
MaxRtlXtal == 28801000

SetXtalFreq(d, rtl, tuner) ==
  LET e == [d EXCEPT !.rtl_xtal = rtl]
      clocked == IF rtl \in {0, d.rtl_xtal} THEN Done(d)
                 ELSE IF d.rate = 0 THEN Done(e) ELSE SetSampleRate(e, e.rate)
      Tuner(o) == [o.d EXCEPT !.tun_xtal = IF tuner = 0 THEN o.d.rtl_xtal ELSE tuner]
      Retuned(o) == IF o.d.freq = 0 THEN Storing({o}, Tuner) ELSE Retune(Tuner(o))
  IN  IF rtl # 0 /\ (rtl < MinRtlXtal \/ rtl > MaxRtlXtal) THEN Refused(d)
      ELSE UNION {IF o.d.tun_xtal = tuner THEN {o} ELSE Retuned(o)
                  : o \in clocked}

(* rtlsdr_set_direct_sampling.  path 0 is the tuner's, 1 and 2 the ADCs.     *)
R82xxIf == 3570000

SetDirectSampling(d, on) ==
  LET Store(e) == [e EXCEPT !.direct_sampling = on]
      Switch(e) == Then(Demod(e, "path", <<on>>),
                        LAMBDA f : SetCenterFreq(Store(f), f.freq))
  IN  IF on # 0
      THEN Then(TunerExit(d), Switch)
      ELSE Then(Then(TunerInit(d),
                     LAMBDA e : SetIf(e, IF IsR82xx(e) THEN R82xxIf ELSE 0)),
                Switch)

------------------------------------------------------------------------------
(* rtlsdr_open after the device has been claimed: the probe, the defaults    *)
(* for the tuner, and its init, whose result is dropped.                     *)
Fresh(kind) ==
  [tuner_type |-> kind, rate |-> 0, freq |-> 0, bw |-> 0, offs_freq |-> 0,
   corr |-> 0, gain |-> 0, direct_sampling |-> 0, rtl_xtal |-> 28800000,
   tun_xtal |-> IF kind = "R828D" THEN 16000000 ELSE 28800000,
   ddc |-> <<0, 28800000, 0>>, ratio |-> <<0>>, path |-> <<0>>,
   chip |-> All(Unknown), shadow |-> All(Unknown), int_freq |-> 0,
   input |-> <<0>>, has_lock |-> FALSE, init_done |-> FALSE,
   failures |-> 0, unlocks |-> 0]

Opened(kind) ==
  LET d == Fresh(kind)
      prepared == CASE IsR82xx(d) -> Ignore(SetIf(d, R82xxIf))
                    [] kind = "UNKNOWN" -> Ignore(SetDirectSampling(d, 1))
                    [] OTHER -> Done(d)
  IN  Then(prepared, LAMBDA e : Ignore(TunerInit(e)))

Init == dev = Closed /\ returned = TRUE

Open(kind) ==
  /\ ~IsOpen
  /\ \E o \in Opened(kind) : dev' = o.d
  /\ returned' = TRUE

Close == IsOpen /\ dev' = Closed /\ returned' = TRUE

Call(outcomes) == \E o \in outcomes : dev' = o.d /\ returned' = o.ok

CallCenterFreq == \E f \in Freqs : Call(SetCenterFreq(dev, f))
CallSampleRate == \E r \in Rates : Call(SetSampleRate(dev, r))
CallBandwidth == \E b \in Bandwidths : Call(SetTunerBandwidth(dev, b))
CallGain == \/ \E g \in Gains : Call(SetTunerGain(dev, g))
            \/ \E manual \in BOOLEAN : Call(SetTunerGainMode(dev, manual))
CallClock == \/ \E p \in Ppms : Call(SetFreqCorrection(dev, p))
             \/ \E r \in RtlXtals, t \in TunerXtals : Call(SetXtalFreq(dev, r, t))
CallOffset == \E on \in BOOLEAN : Call(SetOffsetTuning(dev, on))
CallDirect == \E on \in Samplings :
                /\ Careful => dev.offs_freq = 0
                /\ Call(SetDirectSampling(dev, on))

Setter ==
  IsOpen /\ \/ CallCenterFreq \/ CallSampleRate \/ CallBandwidth \/ CallGain
            \/ CallClock \/ CallOffset \/ CallDirect

Next == (\E k \in Tuners : Open(k)) \/ Close \/ Setter

Spec == Init /\ [][Next]_vars

(* Bound of the run: nothing but the rate is claimed of an R82xx on which a   *)
(* transfer has failed, and its setters are not pursued any further.         *)
Pursued == IsOpen /\ IsR82xx(dev) => dev.failures = 0
------------------------------------------------------------------------------
(* Where the tuner's oscillator belongs for the frequency that is reported.  *)
Oscillator(d) ==
  LET wanted == d.freq - d.offs_freq
  IN  IF IsR82xx(d) THEN Upconverted(d, wanted) + d.int_freq ELSE wanted

FrontEnd(tuner, freq) ==
  CASE tuner \in {"R820T", "R828D", "Blog V4"} -> <<Band(freq)>>
    [] tuner = "E4000"  -> E4kFront(freq)
    [] tuner = "FC0012" -> Fc0012Front(freq)
    [] tuner = "FC0013" -> Fc0013Front(freq)
    [] tuner = "FC2580" -> <<Fc2580Band(Fc2580Khz(freq))>>

(* A frequency that rtlsdr_get_center_freq reports is the one the tuner was  *)
(* told last, with the clock and the correction now in force, and the front  *)
(* end is switched to its band, however the setters were mixed.  For the FC  *)
(* tuners, whose drivers pass every error of the PLL on, the frequency is    *)
(* right even if transfers failed; the E4000 drops the errors and the R82xx  *)
(* its memory of them (ActualFrequency), so that they promise nothing then.  *)
TunedAsReported ==
  (IsOpen /\ dev.freq # 0 /\ dev.direct_sampling = 0) =>
    /\ (dev.tuner_type \in {"FC0012", "FC0013", "FC2580"} \/ dev.failures = 0)
       => dev.chip["pll"] = PllFor(dev, Oscillator(dev))
    /\ dev.failures = 0 => dev.chip["mux"] = FrontEnd(dev.tuner_type, Oscillator(dev))

(* The antenna follows the frequency that is reported: the R828D's input, and *)
(* the Blog V4's three inputs and notch filter, whatever was remembered over  *)
(* retunes, resets and direct sampling.  Only a PLL without a lock leaves     *)
(* them where they were, and the call succeeds all the same.                 *)
InputSwitched ==
  (IsOpen /\ dev.freq # 0 /\ dev.direct_sampling = 0 /\ dev.failures = 0 /\ dev.has_lock) =>
    /\ dev.tuner_type = "R828D" =>
         \/ dev.chip["input"] = R828dInput(dev.freq)
         \/ dev.chip["input"] = Reset /\ R828dInput(dev.freq) = <<0>>
    /\ IsBlogV4(dev) => /\ dev.chip["notch"] = V4Notch(dev.freq)
                       /\ dev.chip["cable2"] = V4Cable2(V4Band(dev.freq))
                       /\ dev.chip["input"] = V4Input(V4Band(dev.freq))

(* What the tuner leaves in the band is brought to zero: the DDC was given    *)
(* the IF of the R82xx, the offset of a zero-IF tuner, the frequency itself   *)
(* in direct sampling.  It was computed for the crystal now in force, and in  *)
(* direct sampling for the correction.  Two stale registers are the code's:   *)
(* a correction does not write the DDC again where the tuner tunes, nor does  *)
(* a change of the crystal for a zero-IF tuner in direct sampling.            *)
Downconverted ==
  (IsOpen /\ dev.failures = 0 /\ dev.rate # 0 /\ dev.freq # 0) =>
    /\ dev.ddc[1] = CASE dev.direct_sampling # 0 -> dev.freq
                      [] dev.direct_sampling = 0 /\ IsR82xx(dev) -> dev.int_freq
                      [] OTHER -> dev.offs_freq
    /\ (dev.direct_sampling = 0 \/ IsR82xx(dev)) /\ dev.ddc[1] # 0
       => dev.ddc[2] = dev.rtl_xtal
    /\ dev.direct_sampling # 0 => dev.ddc[3] = dev.corr

(* The rate that is reported, and handed to the filter, to the offset and to  *)
(* the resampler itself when the crystal is changed, is one that was asked    *)
(* for: it does not drift, however often it is computed back, although bit 28 *)
(* of the ratio is not written and its lowest two are cut off.  While nothing *)
(* fails the register makes it of the crystal now in force.                   *)
RateAsAsked ==
  IsOpen =>
    /\ dev.rate \in Rates \cup {0}
    /\ dev.failures = 0 /\ dev.rate # 0
       => Scaled(dev.rtl_xtal, RealRatio(dev.ratio[1])).q = dev.rate

(* The offset follows the sample rate through every setter, also when        *)
(* transfers fail.                                                           *)
OffsetFollowsRate ==
  IsOpen => dev.offs_freq \in {0, OffsetFor(dev.rate)}

(* While nothing has failed the shadow of the R82xx is its chip, so no write *)
(* is left out that is needed; only a PLL that was given more current is not *)
(* what the driver wrote last.                                               *)
ShadowTrue ==
  (IsOpen /\ IsR82xx(dev) /\ dev.failures = 0)
  => \A g \in Groups : \/ dev.shadow[g] = dev.chip[g]
                       \/ g = "pll" /\ dev.shadow[g] = Boosted

(* rtl-sdr.h 155: "Get actual frequency the device is tuned to."             *)
ActualFrequency ==
  (IsOpen /\ dev.freq # 0 /\ dev.direct_sampling = 0)
  => dev.chip["pll"] = PllFor(dev, Oscillator(dev))
==============================================================================
