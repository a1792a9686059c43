----------------------------- MODULE TcpCommands -----------------------------
(* The commands of the rtl_tcp protocol: what the setters of RTLSDR_TCP put  *)
(* on the wire, and what command_worker (rtl_tcp.c 275-375) makes of it.  A  *)
(* call is a pair of a librtlsdr function and its argument.                  *)
EXTENDS Gains, Resampler

Codes == 1 .. 14
Functions == <<"center_freq", "sample_rate", "tuner_gain_mode", "tuner_gain",
               "freq_correction", "tuner_if_gain", "testmode", "agc_mode",
               "direct_sampling", "offset_tuning", "rtl_xtal", "tuner_xtal",
               "gain_by_index", "bias_tee">>

(* The setters of RTLSDR_TCP and the code each sends.                        *)
Setters == [center_freq |-> 1, sample_rate |-> 2, tuner_gain_mode |-> 3,
            freq_correction |-> 5, testmode |-> 7, agc_mode |-> 8,
            direct_sampling |-> 9, offset_tuning |-> 10, gain_by_index |-> 13]

(* sendCommand: the code and four bytes, the most significant first.         *)
Byte(n, k) == (n \div 256 ^ k) % 256

(* Mutant: the bytes are not reversed.                                       *)
SendCommand_Little(code, n) == <<code, Byte(n, 0), Byte(n, 1), Byte(n, 2), Byte(n, 3)>>

SendCommand(code, n) == <<code, Byte(n, 3), Byte(n, 2), Byte(n, 1), Byte(n, 0)>>

(* The same setters of RTLSDR_USB: the functions of RTLSDRWrapper.swift look *)
(* at the range of a rate, clamp a number to the width and sign the library  *)
(* takes, and call it; a setter throws when the library refuses.             *)
Unsigned == {"center_freq", "sample_rate"}
WrapperCall(setter, n) ==
  IF setter = "sample_rate" /\ ~(225001 <= n /\ n <= 300000)
                            /\ ~(900001 <= n /\ n <= 32000000)
  THEN <<>>
  ELSE <<<<setter, IF setter \in Unsigned /\ n < 0 THEN 0 ELSE n>>>>

(* A rate the library refuses changes nothing.                               *)
Effective(call) == call[1] = "sample_rate" => Supported(call[2])

UsbSetter(setter, n) ==
  LET calls == WrapperCall(setter, n)
      taken == IF calls # <<>> /\ ~Effective(calls[1]) THEN <<>> ELSE calls
  IN  [calls |-> taken, throws |-> taken = <<>>]

------------------------------------------------------------------------------
Ntohl(b) == ((b[2] * 256 + b[3]) * 256 + b[4]) * 256 + b[5]

(* The switch of command_worker with set_gain_by_index; a stage's gain is    *)
(* the lower half of the parameter, with its sign.                           *)
Dispatch(tuner, cmd) ==
  LET n == Ntohl(cmd)
      low == n % 65536
  IN  CASE cmd[1] \notin Codes -> <<>>
        [] cmd[1] = 6 -> <<<<"tuner_if_gain", n \div 65536,
                             IF low < 32768 THEN low ELSE low - 65536>>>>
        [] cmd[1] = 13 -> IF n < Len(Advertised(tuner))
                          THEN <<<<"tuner_gain", Advertised(tuner)[n + 1]>>>> ELSE <<>>
        [] OTHER -> <<<<Functions[cmd[1]], n>>>>

Listening == [cmd |-> <<0, 0, 0, 0, 0>>, left |-> 5, calls |-> <<>>]

(* recv gives count bytes, at most as many as are left of the command; the   *)
(* last of them has it carried out and the code replaced by one unused.      *)
Recv(tuner, s, wire, count) ==
  LET cmd == [k \in 1 .. 5 |-> IF k - (5 - s.left) \in 1 .. count
                               THEN wire[k - (5 - s.left)] ELSE s.cmd[k]]
  IN  IF count < s.left THEN [s EXCEPT !.cmd = cmd, !.left = @ - count]
      ELSE [cmd |-> [cmd EXCEPT ![1] = 255], left |-> 5,
            calls |-> s.calls \o Dispatch(tuner, cmd)]
==============================================================================
