------------------------------ MODULE FmTuning -------------------------------
(* Where rtl_fm tunes the dongle to hear a channel (rtl_fm.c 855-957): the   *)
(* list of channels, and the frequency, rate and scale of each capture.      *)
(* s holds the options: rate_in, passes (downsample_passes, 0 without -F),   *)
(* offset_tuning, edge, wb_mode and mode.                                    *)
EXTENDS HopPlan, Sequences

(* frequency_range of start:stop:step; the loop looks at the limit only      *)
(* after it has added a channel to those given before.                       *)
Channels(freqs, start, stop, step, limit) ==
  LET all  == IF start > stop THEN 0 ELSE (stop - start) \div step + 1
      room == Max({1, limit - Len(freqs)})
  IN  freqs \o [k \in 1 .. Min({all, room}) |-> start + (k - 1) * step]

Downsample(s) ==
  LET least == 1000000 \div s.rate_in + 1
  IN  IF s.passes = 0 THEN least ELSE 2 ^ (Log2(least) + 1)

(* optimal_settings of one channel, which controller_thread_fn has moved     *)
(* before when the mode is wbfm.                                             *)
OptimalSettings(s, channel) ==
  LET freq == channel + IF s.wb_mode THEN 16000 ELSE 0
      rate == Downsample(s) * s.rate_in
      lsb  == 32768 \div (128 * Downsample(s))
  IN  [rate  |-> rate,
       freq  |-> freq + (IF s.offset_tuning THEN 0 ELSE rate \div 4)
                      + (IF s.edge THEN s.rate_in \div 2 ELSE 0),
       downsample   |-> Downsample(s),
       output_scale |-> IF s.mode \in {"exact", "fast", "lut"} THEN 1 ELSE Max({1, lsb})]
==============================================================================
