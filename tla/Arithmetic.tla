----------------------------- MODULE Arithmetic -----------------------------
(* What the drivers and the programs compute from what they are asked for.   *)
(* A behaviour walks through the requests of one kind: a frequency, a gain,  *)
(* a range to scan, a tone in it, a signal, a frame, a device to find or     *)
(* commands from a client.                                                   *)
EXTENDS Resampler, FmTuning, AdsbDecoder, Demodulators, TcpCommands, DeviceSearch,
        Filters, Spectrum

CONSTANTS Clocks,                      \* what the crystals may be corrected to
          FreqStep,                    \* tuned to, from Lowest to Highest
          GainStep,
          FilterStep, BandwidthStep,   \* of a tuning of the E4000
          StageTenths,                 \* gains of an IF stage
          Widths, WidthStep, Crops, BinSizes,
          Offsets, Payloads,           \* of ADS-B frames
          FmRates, FmStarts, FmSteps, FmLimit,  \* rtl_fm's channels
          Level, SignalLength,         \* of the signal rtl_fm demodulates
          Characters, Longest,         \* of a serial number and of a search
          BusSize,
          Arguments, CommandCount      \* of a client's commands

ASSUME StepsAssumption ==
  /\ FreqStep \in Nat /\ GainStep \in Nat /\ FilterStep \in Nat /\ BandwidthStep \in Nat
  /\ StageTenths \subseteq Int

(* A crystal is corrected by a few percent at the most.                      *)
ASSUME ClocksAssumption == \A x \in Clocks : x \in Nat /\ 28000000 <= x /\ x <= 30000000

(* A sample is two bytes around 127.                                         *)
ASSUME LevelAssumption == Level \in Nat /\ Level <= 127

ASSUME LongestAssumption == Longest \in Nat

(* A client sends 32 bits.  Only a correction may be negative, and then       *)
(* UInt32(correction) traps (RTLSDR_TCP.swift 119), where the USB client      *)
(* passes it on: nothing is sent, so it is no argument here.                 *)
ASSUME ArgumentsAssumption == \A n \in Arguments : n \in Nat /\ n <= 2147483647

VARIABLE ask

Directions == {<<127 + Level, 127>>, <<127, 127 + Level>>,
               <<127 - Level, 127>>, <<127, 127 - Level>>}

Tunings == {"R820T", "R828D", "E4000", "FC0012", "FC0013", "FC2580"}

(* The frequencies each driver is made for; the R82xx is asked for its IF    *)
(* more than the client wants.                                               *)
Lowest(t) == CASE t \in {"R820T", "R828D"} -> 27657000 [] t = "E4000" -> 52000000
               [] OTHER -> 22000000
Highest(t) == CASE t \in {"R820T", "R828D"} -> 1769999000 [] t = "E4000" -> 2147000000
                [] t = "FC0012" -> 948000000 [] t = "FC0013" -> 1100000000
                [] OTHER -> 1700000000

ArgumentsOf(f) ==
  CASE f \in {"tuner_gain_mode", "testmode", "agc_mode", "offset_tuning"} -> {0, 1}
    [] f = "direct_sampling" -> 0 .. 2
    [] OTHER -> Arguments

Texts == BoundedSeq(Characters, Longest)

AskInit ==
  \/ \E t \in Tunings, x \in Clocks, f \in 0 .. 3 :
       /\ t \in {"FC0012", "FC0013", "FC2580"} => x = Xtal /\ f = 0
       /\ t = "E4000" => f = 0
       /\ ask = [kind |-> "tune", tuner |-> t, clock |-> x, fine |-> f,
                 freq |-> Lowest(t)]
  \/ \E t \in GainTuners : ask = [kind |-> "gain", tuner |-> t, target |-> -150]
  \/ ask = [kind |-> "filter", freq |-> Lowest("E4000"), bandwidth |-> 300000]
  \/ ask = [kind |-> "stages", regs |-> <<0, 0>>, asked |-> <<>>]
  \/ \E r \in FmRates, p \in {0, 1}, o, e, w \in BOOLEAN :
       ask = [kind |-> "channels", freqs |-> <<>>, asked |-> {},
              options |-> [rate_in |-> IF w THEN 170000 ELSE r, passes |-> p,
                           offset_tuning |-> o, edge |-> e, wb_mode |-> w,
                           mode |-> IF w THEN "fast" ELSE "am"]]
  \/ \E w \in Widths, c \in Crops, b \in BinSizes, x \in BOOLEAN :
       ask = [kind |-> "range", width |-> w, crop |-> c, bin |-> b,
              boxcar |-> x, left |-> 15]
  \/ \E e \in 2 .. 4, d \in {1, 2, 4}, c \in {0, 50}, x, f, peak \in BOOLEAN, t \in 0 .. 2 :
       /\ e + Log2(d) <= 4 /\ (f => ~x)
       /\ ask = [kind |-> "tone", turn |-> t, tone |-> -(2 ^ (e - 1)),
                 hop |-> [bin_e |-> e, downsample |-> d, crop |-> c, rate |-> 2048000,
                          freq |-> (0 :> 100000000), boxcar |-> x, fir |-> f,
                          peak_hold |-> peak]]
  \/ \E q \in {0, 5, 10, 20}, o \in Offsets, p \in Payloads, more, short \in BOOLEAN :
       ask = [kind |-> "frame", quality |-> q, offset |-> o, payload |-> p,
              more |-> more, short |-> short, head |-> 1]
  \/ \E m \in {"exact", "fast", "lut", "am", "usb", "lsb", "raw"}, n \in {1, 2},
        r \in {<<3, 2>>, <<4, 1>>} :
       ask = [kind |-> "signal", mode |-> m, downsample |-> n, rates |-> r,
              samples |-> <<>>]
  \/ \E s \in Texts : ask = [kind |-> "search", text |-> s, bus |-> <<>>]
  \/ ask = [kind |-> "command", sent |-> <<>>, wire |-> <<>>, server |-> Listening]

NextFreq ==
  /\ ask.kind = "tune" /\ ask.freq + FreqStep <= Highest(ask.tuner)
  /\ ask' = [ask EXCEPT !.freq = @ + FreqStep]

NextGain ==
  /\ ask.kind = "gain" /\ ask.target < 600
  /\ ask' = [ask EXCEPT !.target = @ + GainStep]

NextFilter ==
  /\ ask.kind = "filter" /\ ask.freq <= Highest("E4000") - FilterStep
  /\ ask' = [ask EXCEPT !.freq = @ + FilterStep, !.bandwidth = @ + BandwidthStep]

NextStage ==
  /\ ask.kind = "stages"
  /\ \E s \in 0 .. 7, t \in StageTenths \cup {-30, -35} :
       ask' = [ask EXCEPT !.regs = SetIfGain(@, s, t),
                          !.asked = IF FindStageGain(s, Trunc(t, 10)) < 0 THEN @
                                    ELSE [k \in {s} \cup DOMAIN @ |->
                                            IF k = s THEN Trunc(t, 10) ELSE ask.asked[k]]]

NextChannels ==
  /\ ask.kind = "channels" /\ Len(ask.freqs) < FmLimit
  /\ \E start \in FmStarts, step \in FmSteps, n \in 0 .. 3, rest \in {0, 1} :
       LET stop == start + n * step + rest
       IN  ask' = [ask EXCEPT !.freqs = Channels(@, start, stop, step, FmLimit),
                              !.asked = @ \cup {start + k * step : k \in 0 .. n}]

NextRange ==
  /\ ask.kind = "range" /\ ask.left > 0
  /\ ask' = [ask EXCEPT !.width = @ + WidthStep, !.left = @ - 1]

NextTone ==
  /\ ask.kind = "tone" /\ ask.tone < 2 ^ (ask.hop.bin_e - 1) - 1
  /\ ask' = [ask EXCEPT !.tone = @ + 1]

NextFrame ==
  /\ ask.kind = "frame" /\ ask.head < 255
  /\ ask' = [ask EXCEPT !.head = @ + 1]

NextSample ==
  /\ ask.kind = "signal" /\ Len(ask.samples) < SignalLength
  /\ \E x \in Directions : ask' = [ask EXCEPT !.samples = Append(@, x)]

NextDevice ==
  /\ ask.kind = "search" /\ Len(ask.bus) < BusSize
  /\ \E s \in Texts, known, opens \in BOOLEAN :
       /\ known \/ (s = <<>> /\ opens)
       /\ ask' = [ask EXCEPT !.bus =
                    Append(@, [known |-> known, serial |-> s, opens |-> opens])]

NextCommand ==
  /\ ask.kind = "command" /\ Len(ask.sent) < CommandCount
  /\ \E f \in DOMAIN Setters : \E n \in ArgumentsOf(f) :
       ask' = [ask EXCEPT !.sent = Append(@, <<f, n>>),
                          !.wire = @ \o SendCommand(Setters[f], n)]

NextPiece ==
  /\ ask.kind = "command"
  /\ \E count \in 1 .. ask.server.left :
       /\ count <= Len(ask.wire)
       /\ ask' = [ask EXCEPT !.server = Recv("R82xx", @, ask.wire, count),
                             !.wire = SubSeq(@, count + 1, Len(@))]

AskNext ==
  \/ NextFreq \/ NextGain \/ NextFilter \/ NextStage \/ NextChannels
  \/ NextRange \/ NextTone \/ NextFrame \/ NextSample \/ NextDevice \/ NextCommand \/ NextPiece

AskSpec == AskInit /\ [][AskNext]_ask
------------------------------------------------------------------------------
Setting ==
  CASE ask.tuner = "R820T"  -> R82Pll(ask.freq, ask.clock, 2, ask.fine)
    [] ask.tuner = "R828D"  -> R82Pll(ask.freq, (ask.clock \div 9) * 5, 1, ask.fine)
    [] ask.tuner = "E4000"  -> E4kPll(ask.freq, ask.clock)
    [] ask.tuner = "FC0012" -> Fc0012Pll(ask.freq, ask.clock)
    [] ask.tuner = "FC0013" -> Fc0013Pll(ask.freq, ask.clock)
    [] OTHER -> Fc2580Pll((ask.freq + 500) \div 1000)

(* The last bit of the fraction, and for the FC001x the kHz it is made from. *)
Resolution ==
  CASE ask.tuner \in {"FC0012", "FC0013"} -> 1450 [] ask.tuner = "FC2580" -> 1
    [] OTHER -> 800

(* Whatever the frequency, the registers of each tuner's PLL, decoded again, *)
(* give an oscillator within the resolution of the fraction: no field        *)
(* overflows, none borrows from its neighbour, and no gap is left between    *)
(* two dividers, but the one of the FC0013 under 950 MHz.                    *)
Fc0013Gap(freq) == 948600000 <= freq /\ freq < 950000000

OscillatorTuned ==
  (ask.kind = "tune" /\ ~(ask.tuner = "FC0013" /\ Fc0013Gap(ask.freq))) =>
    LET freq == IF ask.tuner = "FC2580" THEN (ask.freq + 500) \div 1000
                ELSE ask.freq
    IN  Setting # NoSetting /\ VcoError(Setting, freq) \in -Resolution .. Resolution

InTable(table, x) == \E k \in DOMAIN table : table[k] = x
NearestIn(table, got, x) ==
  InTable(table, got) /\ \A k \in DOMAIN table : Abs(x - got) <= Abs(x - table[k])

(* The RF filter in front of the E4000's mixer; the VHF bands have none.     *)
RfFilter(flo) ==
  LET band == E4kBand(flo)
  IN  (IF band = "UHF" THEN RfFilterUhf ELSE RfFilterL)[ChooseRfFilter(band, flo) + 1]

(* Any gain a user asks the programs for ends in the tuner as one the driver *)
(* advertises, and no other advertised gain is nearer: the drivers' step     *)
(* tables and the list of librtlsdr agree.  For the E4000 the RF filter is   *)
(* the nearest of both bands, their border included, each IF filter is the   *)
(* nearest to the bandwidth, and six IF stages that share two registers keep *)
(* the gains last set, whatever is set in between or refused.                *)
NearestSet ==
  /\ ask.kind = "gain" =>
       NearestIn(Advertised(ask.tuner),
                 GainSet(ask.tuner, NearestGain(ask.tuner, ask.target)), ask.target)
  /\ ask.kind = "filter" =>
       /\ E4kBand(ask.freq) \in {"UHF", "L"} =>
            NearestIn(RfFilterUhf \o RfFilterL, RfFilter(ask.freq), ask.freq)
       /\ \A f \in DOMAIN IfFilters :
            NearestIn(IfFilters[f], IfFilterBwGet(FindIfBw(ask.bandwidth))[f], ask.bandwidth)
  /\ ask.kind = "stages" =>
       /\ \A s \in DOMAIN ask.asked : StageGain(ask.regs, s) = ask.asked[s]
       /\ \A r \in 1 .. 2 : ask.regs[r] \in 0 .. 255

(* A tone in the hop's k-th bin.                                             *)
Tone(h, k, turn) ==
  LET level == Level \div (2 * h.downsample)
      wave(i) == 127 + Trunc(level * Sinewave(16, i), 32767)
      step == k * (16 \div (2 ^ h.bin_e * h.downsample))
  IN  [n \in 1 .. 4 * 2 ^ h.bin_e * h.downsample |->
         <<wave((step * n + turn + 4) % 16), wave((step * n + turn) % 16)>>]

(* The column that the row's own frequencies give the tone is the loudest.   *)
(* The one at 0 Hz repeats its neighbour, and the lowest lies where the      *)
(* recursive filter lets little through: with no droop compensation it is    *)
(* not held to this.                                                         *)
ToneShown ==
  LET h    == ask.hop
      row  == CsvRow(h, 0)
      cols == Columns(h, Averages(h, Tone(h, ask.tone, ask.turn)))
      last == Len(cols) - 1
      at   == ask.tone + (h.freq[0] - row.low) \div BinWidth(h) + 1
      weak == ask.tone = -(2 ^ (h.bin_e - 1)) /\ h.downsample > 1 /\ ~h.boxcar /\ ~h.fir
  IN  /\ row.low + last * BinWidth(h) = row.high
      /\ at \in 1 .. last /\ ask.tone # 0 /\ ~weak =>
           \A c \in 1 .. last \ {at} :
             cols[c] < cols[at] \/ (ask.tone = 1 /\ c = at - 1 /\ cols[c] = cols[at])

(* What rtl_fm listens to.                                                   *)
ChannelsHeard ==
  /\ Range(ask.freqs) \subseteq ask.asked
  /\ Len(ask.freqs) < FmLimit => Range(ask.freqs) = ask.asked
  /\ Len(ask.freqs) <= FmLimit
  /\ \A k \in DOMAIN ask.freqs :
       LET c == OptimalSettings(ask.options, ask.freqs[k])
       IN  /\ Supported(c.rate) /\ c.output_scale >= 1
           /\ 2 * Abs(c.freq - ask.freqs[k]) + ask.options.rate_in <= c.rate

(* A scan looks at every frequency of its range but for less than one hertz  *)
(* per hop, or the rest that is narrower than one of the giant bins: the     *)
(* hops meet, the rate is one the device can make and wide enough to crop,   *)
(* the bins are no wider than asked, a buffer decimated by a power of two    *)
(* holds whole transforms, and the rows written for two neighbouring hops    *)
(* leave no bin out and share none.  A tone on the air is loudest in the     *)
(* column that the row's own frequencies give it, however the samples are    *)
(* decimated and gathered.  rtl_fm likewise listens to every channel of the  *)
(* ranges it is given until its list is full, and captures each at a rate    *)
(* the device can make, wide enough for the whole channel.                   *)
RangeCovered ==
  /\ ask.kind = "tone" => ToneShown
  /\ ask.kind = "channels" => ChannelsHeard
  /\ ask.kind = "range" =>
    LET lower == 100000000
        giant == ask.bin >= MinimumRate
        p == FrequencyRange(lower, lower + ask.width, ask.bin, ask.crop, ask.boxcar)
        left == [i \in 0 .. p.count |-> lower + i * p.width]
    IN  /\ Supported(p.rate) /\ p.rate <= MaximumRate
        /\ p.count \in (IF giant THEN 0 ELSE 1) .. MaxTunes
        /\ \A i \in 0 .. p.count - 1 : p.freq[i] - left[i] = p.width \div 2
        /\ lower + ask.width - left[p.count]
             \in 0 .. IF giant THEN p.width - 1 ELSE p.count - 1
        /\ ~giant => /\ Uncropped(p.width, ask.crop) * p.downsample <= p.rate
                     /\ p.bin_e < 21 =>
                          CeilDiv(CeilDiv(p.rate, p.downsample), 2 ^ p.bin_e) <= ask.bin
        /\ ~ask.boxcar => Transforms(p).beyond = 0
        /\ p.downsample = 1 =>
             \A i \in 0 .. p.count - 2 :
               CsvRow(p, i + 1).low - CsvRow(p, i).high \in 0 .. BinWidth(p) + 3

(* The samples of a frame on the air: its preamble, and a pulse in the first *)
(* half of a one and in the second of a zero.  Pulses vary in strength.      *)
Pulse(n) == 40 + 3 * (n % 4)
OnAir(frame) ==
  [n \in 1 .. PreambleLen |-> IF n - 1 \in High THEN Pulse(n) ELSE 0] \o
  [n \in 1 .. 2 * Len(frame) |->
     IF (frame[(n + 1) \div 2] = 1) = (n % 2 = 1) THEN Pulse(n) ELSE n % 3]
Quiet(n) == [k \in 1 .. n |-> 0]

Frame(head) ==
  [k \in 1 .. IF head >= 128 THEN Long ELSE Short |->
     IF k <= 8 THEN (head \div 2 ^ (8 - k)) % 2 ELSE (ask.payload \div 2 ^ (k - 9)) % 2]

(* A frame is decoded bit for bit wherever it lies in the buffer, at its     *)
(* very end too, and nothing but it is shown; a second frame is found once   *)
(* the silence between them has used up the errors allowed in the first.     *)
FramesDecoded ==
  ask.kind = "frame" =>
    LET second == 141
        frames == <<Frame(ask.head)>> \o IF ask.more THEN <<Frame(second)>> ELSE <<>>
        air == Quiet(ask.offset) \o OnAir(frames[1]) \o
                 (IF ask.more THEN Quiet(4 * AllowedErrors + 4) \o OnAir(frames[2])
                  ELSE <<>>)
                 \o Quiet(IF ask.offset % 2 = 0 THEN 0 ELSE 21)
        buf == [k \in 0 .. Len(air) - 1 |-> air[k + 1]]
    IN  ask.quality >= 10 \/ ~ask.more =>
          Decoded(buf, Len(air), ask.quality, ask.short)
            = SelectSeq(frames, LAMBDA f : Displayed(f, ask.quality, ask.short))

Demodulator ==
  [now_r |-> 0, now_j |-> 0, prev_index |-> 0, pre |-> <<0, 0>>, avg |-> 0,
   now_lpr |-> 0, prev_lpr_index |-> 0, out |-> <<>>, deemph_a |-> 7,
   mode |-> ask.mode, output_scale |-> 2, downsample |-> ask.downsample,
   fast |-> ask.rates[1], slow |-> ask.rates[2]]

(* What rtl_fm plays does not depend on where the transfers cut the signal:  *)
(* every filter carries on where the block before ended, and the two ways    *)
(* to find an angle that meet at each cut agree on the eighths of a turn.    *)
(* The rotation by a quarter of the rate is one, half the range of a byte    *)
(* being the origin.                                                         *)
BlocksJoin ==
  ask.kind = "signal" =>
    LET signal == Centred(ask.samples)
        n == Len(signal)
        odd(z) == <<2 * z[1] - 255, 2 * z[2] - 255>>
        turned(z) == <<-z[2], z[1]>>
    IN  /\ \A k \in ask.downsample .. n - ask.downsample :
             LET whole  == FullDemod(Demodulator, signal)
                 first  == FullDemod(Demodulator, SubSeq(signal, 1, k))
                 second == FullDemod(first, SubSeq(signal, k + 1, n))
             IN  whole = [second EXCEPT !.out = first.out \o @]
        /\ \A k \in 2 .. n :
             ask.samples[k] = ask.samples[k - 1] =>
               LET r == Rotate90(ask.samples)
               IN  odd(r[k]) = turned(odd(r[k - 1]))

Reachable(bus) == \A i \in DOMAIN bus : bus[i].known => bus[i].opens

(* The index a search answers with opens the dongle that was meant, whatever *)
(* else is on the bus and however two counts of it could drift apart: an     *)
(* exact serial is preferred to its beginning, that to its end, and the      *)
(* first dongle to a later one.  (Dongles that cannot be opened confuse the  *)
(* search of the programs, not the one of the library.)                      *)
DeviceFound ==
  ask.kind = "search" =>
    LET bus      == ask.bus
        text     == ask.text
        indices  == 0 .. DeviceCount(bus) - 1
        dongles  == {i \in DOMAIN bus : bus[i].known}
        match(i) == IF bus[i].serial = text THEN 3
                    ELSE IF IsPrefix(text, bus[i].serial) THEN 2
                    ELSE IF IsSuffix(text, bus[i].serial) THEN 1 ELSE 0
        nr       == IndexBySerial(bus, text)
        found    == VerboseDeviceSearch(bus, text)
    IN  /\ {OpenRTLSDR(bus, k) : k \in indices} = dongles
        /\ \A k \in indices : OpenRTLSDR(bus, k) = DeviceAt(bus, k)
        /\ IF nr < 0 THEN \A i \in dongles : bus[i].opens => bus[i].serial # text
           ELSE bus[OpenedAt(bus, nr)].serial = text
        /\ Reachable(bus) /\ ~(IsNumber(text) /\ Number(text) \in indices) =>
             IF found < 0 THEN \A i \in dongles : match(i) = 0
             ELSE \A i \in dongles :
                    LET o == OpenedAt(bus, found)
                    IN  match(o) > 0 /\ (i < o => match(i) < match(o))
                                    /\ match(i) <= match(o)

(* What the client's setter means for the device.                            *)
Meant(f, n) ==
  CASE f = "gain_by_index" /\ n < Len(Advertised("R82xx")) ->
         <<<<"tuner_gain", Advertised("R82xx")[n + 1]>>>>
    [] f = "gain_by_index" /\ n >= Len(Advertised("R82xx")) -> <<>>
    [] OTHER -> <<<<f, n>>>>

(* The other RTLSDR object brings about the same, or says that it does not.  *)
SameOverUsb(f, n) ==
  f # "gain_by_index" =>
    LET usb == UsbSetter(f, n)
    IN  /\ usb.calls = IF Effective(<<f, n>>) THEN Meant(f, n) ELSE <<>>
        /\ usb.throws <=> ~Effective(<<f, n>>)

(* However the commands of a client are cut into pieces on their way, the    *)
(* server carries out what the setters meant, in their order: the two ends   *)
(* agree on codes, widths and the order of bytes.  What a setter of          *)
(* RTLSDR_USB does to the device is the same.                                *)
CommandsUnderstood ==
  ask.kind = "command" =>
    LET meant == FoldLeft(LAMBDA m, c : m \o Meant(c[1], c[2]), <<>>, ask.sent)
    IN  /\ \A k \in DOMAIN ask.sent : SameOverUsb(ask.sent[k][1], ask.sent[k][2])
        /\ IsPrefix(ask.server.calls, meant)
        /\ ask.wire = <<>> => ask.server.left = 5 /\ ask.server.calls = meant
==============================================================================
