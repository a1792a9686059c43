---------------------------- MODULE TunerDrivers ----------------------------
(* The drivers of the E4000, FC0012, FC0013 and FC2580, which keep no shadow *)
(* of their registers, on a device record d: what the chip holds after each  *)
(* call, and what the driver says of a transfer that failed.                 *)
EXTENDS R82xx, Filters
LOCAL INSTANCE Gains

(* A group of registers is sent: the chip has it, or nobody knows.           *)
Send(d, g, v) ==
  Done([d EXCEPT !.chip[g] = v]) \cup Broken([d EXCEPT !.chip[g] = Unknown])

(* An array of registers sent in order, up to the first that fails.          *)
SendArray(d, order) ==
  LET After(k) == [g \in Groups |->
                     IF \E i \in 1 .. Len(order) : i < k /\ order[i] = g
                     THEN Reset ELSE d.chip[g]]
  IN  Done([d EXCEPT !.chip = After(Len(order) + 1)])
      \cup UNION {Broken([d EXCEPT !.chip = [After(k) EXCEPT ![order[k]] = Unknown]])
                  : k \in 1 .. Len(order)}

------------------------------------------------------------------------------
(* FC0012.  The filter for V or U band hangs on a GPIO of the RTL2832U, whose *)
(* failures nobody hears of; everything else is passed on.                   *)
Fc0012Init(d) == SendArray(d, <<"pll", "gain">>)

Fc0012Front(freq) == <<IF freq > 300000000 THEN "U" ELSE "V">>

Fc0012SetParams(d, freq, pll) ==
  IfOk(Ignore(Send(d, "mux", Fc0012Front(freq))), LAMBDA e : Send(e, "pll", pll))

------------------------------------------------------------------------------
(* FC0013.  The tracking filter and the choice of VHF or UHF come first: the *)
(* PLL is left alone when one of them fails.                                 *)
Fc0013Init(d) == SendArray(d, <<"pll", "mux", "gain">>)

TrackEnds == {177500000, 184500000, 191500000, 198500000, 205500000, 219500000}

VhfTrack(freq) ==
  IF freq < 300000000 THEN 1 + Cardinality({t \in TrackEnds : freq <= t}) ELSE 7

Fc0013Front(freq) == <<VhfTrack(freq), IF freq < 300000000 THEN "VHF" ELSE "UHF">>

Fc0013SetParams(d, freq, pll) ==
  IfOk(Send(d, "mux", Fc0013Front(freq)), LAMBDA e : Send(e, "pll", pll))

(* The gain shares a register with the choice of UHF.  The driver reads it   *)
(* first, and writes it back even when it could not be read.                 *)
Fc0013SetLnaGain(d, gain) ==
  Done([d EXCEPT !.chip["gain"] = <<gain>>])
  \cup Broken([d EXCEPT !.chip["gain"] = Unknown, !.chip["mux"] = Unknown])

(* Only the modes of the AGC, which the groups leave out.                    *)
Fc0013SetGainMode(d) == Done(d) \cup Broken(d)

------------------------------------------------------------------------------
(* FC2580.  Every write is tried, whatever became of those before it, and    *)
(* the call fails if one of them did.  The filter's calibration is awaited   *)
(* five times and then taken for done.                                       *)
Fc2580SetFilter(d, bw) == Send(d, "filter", <<bw>>)

Fc2580Init(d) ==
  Then(Then(Send(d, "gain", Agc), LAMBDA e : Send(e, "pll", Reset)),
       LAMBDA e : Fc2580SetFilter(e, 8))

(* The bands, with the three ranges of UHF; the load of the LNA changes just *)
(* above 794 MHz, its other settings there.                                  *)
Fc2580Band(khz) ==
  CASE khz > 1000000 -> "L"
    [] khz \in 794001 .. 1000000 -> "UHF high"
    [] khz = 794000 -> "UHF edge"
    [] khz \in 538000 .. 793999 -> "UHF middle"
    [] khz \in 400001 .. 537999 -> "UHF low"
    [] OTHER -> "VHF"

Fc2580Filter(band) == CASE band = "L" -> 1 [] band = "VHF" -> 7 [] OTHER -> 8

(* In kHz, and with the driver's own crystal: no correction reaches it.      *)
Fc2580Khz(freq) == (freq + 500) \div 1000

Fc2580SetFreq(d, freq) ==
  LET band == Fc2580Band(Fc2580Khz(freq))
  IN  Then(Then(Send(d, "mux", <<band>>),
                LAMBDA e : Fc2580SetFilter(e, Fc2580Filter(band))),
           LAMBDA e : Send(e, "pll", <<Fc2580Khz(freq)>>))

------------------------------------------------------------------------------
(* E4000.  The driver drops the results of all its writes but those of the   *)
(* IF filters, and takes a failed read of the lock for a lock; a lock that   *)
(* is missing it reports.                                                    *)
E4kInit(d) == ResetAll(d)

(* Only the master switch and the modes of the AGC.                          *)
E4kStandby(d) == Done(d) \cup Ignore(Broken(d))
E4kEnableManualGain(d) == Done(d) \cup Ignore(Broken(d))

(* A gain that leaves the LNA no entry of its table is refused.              *)
E4kSetGain(d, gain) ==
  IF E4kGain(gain) = NotSet THEN Refused(d) ELSE Ignore(Send(d, "gain", <<gain>>))

E4kFront(flo) == <<E4kBand(flo), ChooseRfFilter(E4kBand(flo), flo)>>

E4kTune(d, freq, pll) ==
  LET tuned == Then(Ignore(Send(d, "pll", pll)),
                    LAMBDA e : Ignore(Send(e, "mux", E4kFront(freq))))
  IN  Then(tuned, LAMBDA e : Done(e) \cup Ignore(Broken(e))
                             \cup IF e.failures + e.unlocks < MaxFaults
                                  THEN Refused([e EXCEPT !.unlocks = @ + 1]) ELSE {})
==============================================================================
