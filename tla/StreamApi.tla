----------------------------- MODULE StreamApi -----------------------------
(***************************************************************************)
(* What the asynchronous read of librtlsdr promises its callers, from the  *)
(* declarations of rtlsdr_read_async, rtlsdr_cancel_async and rtlsdr_close *)
(* in rtl-sdr.h and the way the programs use them: a stream runs from the  *)
(* call of rtlsdr_read_async until some thread cancels it; the call then   *)
(* returns and the device can stream again or be closed.  A cancel when no *)
(* stream runs has no effect.                                              *)
(***************************************************************************)

VARIABLES
  phase,  \* "Idle", "Streaming" or "Stopping"
  device  \* "open", "closing" or "closed"

apiVars == <<phase, device>>

ApiInit == phase = "Idle" /\ device = "open"

(* rtlsdr_read_async is called on an open device without a stream.          *)
Begin ==
  /\ phase = "Idle"
  /\ device = "open"
  /\ phase' = "Streaming"
  /\ UNCHANGED device

(* rtlsdr_cancel_async finds a stream.                                      *)
Cancel ==
  /\ phase = "Streaming"
  /\ phase' = "Stopping"
  /\ UNCHANGED device

(* rtlsdr_read_async returns.                                               *)
Return ==
  /\ phase = "Stopping"
  /\ phase' = "Idle"
  /\ UNCHANGED device

(* rtlsdr_close is called, and finishes when there is no stream.            *)
Close ==
  /\ device = "open"
  /\ device' = "closing"
  /\ UNCHANGED phase

Closed ==
  /\ device = "closing"
  /\ phase = "Idle"
  /\ device' = "closed"
  /\ UNCHANGED phase

ApiNext == Begin \/ Cancel \/ Return \/ Close \/ Closed

(* A cancelled stream ends, and a close that nothing holds up finishes.     *)
ApiSpec ==
  /\ ApiInit /\ [][ApiNext]_apiVars
  /\ WF_apiVars(Return) /\ WF_apiVars(Closed)
============================================================================
