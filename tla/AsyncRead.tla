----------------------------- MODULE AsyncRead -----------------------------
(***************************************************************************)
(* The asynchronous read of librtlsdr.c: rtlsdr_read_async, its libusb     *)
(* completion callback _libusb_callback, rtlsdr_cancel_async and           *)
(* rtlsdr_close, running in different threads without a lock.              *)
(*                                                                         *)
(* One thread (the reader) is inside rtlsdr_read_async; it owns the        *)
(* transfers.  Any number of Cancellers (signal handlers, workers, other   *)
(* threads) call rtlsdr_cancel_async, whose test of async_status and whose *)
(* write to it are two steps.  One more thread calls rtlsdr_close, and one *)
(* calls setters: its control transfers wait for events of the same libusb *)
(* context and may hand the stream's transfers to the callback.            *)
(*                                                                         *)
(* libusb and the kernel are external: a transfer is submitted, completes  *)
(* with some status, waits to be handled, and is handled inside            *)
(* libusb_handle_events_timeout_completed.                                 *)
(***************************************************************************)
EXTENDS Naturals, FiniteSets

CONSTANTS
  BufNum,           \* xfer_buf_num: how many transfers are kept in flight
  Cancellers,       \* the threads that call rtlsdr_cancel_async
  CallbackCancels,  \* may the client's callback call rtlsdr_cancel_async?
  Setting,          \* does another thread call setters meanwhile?
  Faults            \* which failures of the USB stack may happen

FaultKinds ==
  { "submit",      \* libusb_submit_transfer fails when the stream is set up
    "resubmit",    \* libusb_submit_transfer fails in the callback
    "ERROR",       \* a transfer ends with LIBUSB_TRANSFER_ERROR
    "OTHER",       \* ... with STALL, OVERFLOW or TIMED_OUT
    "NO_DEVICE",   \* ... with LIBUSB_TRANSFER_NO_DEVICE
    "events",      \* handling events fails with a real error
    "interrupted", \* handling events fails with LIBUSB_ERROR_INTERRUPTED
    "late_abort" } \* a cancelled transfer is given back only some time later

ASSUME BufNumAssumption == BufNum \in Nat \ {0}
ASSUME CallbackAssumption == CallbackCancels \in BOOLEAN
ASSUME SettingAssumption == Setting \in BOOLEAN
ASSUME FaultsAssumption == Faults \subseteq FaultKinds

Xfers == 1 .. BufNum

VARIABLES
  async_status,  \* dev->async_status
  async_cancel,  \* dev->async_cancel
  dev_lost,      \* dev->dev_lost
  xfer_errors,   \* dev->xfer_errors, saturated at BufNum
  rpc,           \* where the reader is in rtlsdr_read_async
  i,             \* its loop index
  next_status,   \* its local next_status
  usb,           \* what libusb is doing with each transfer
  status,        \* the status field of each transfer
  batch,         \* transfers the current handling of events must still handle
  cpc,           \* where each canceller is in rtlsdr_cancel_async
  closer,        \* where the closing thread is in rtlsdr_close
  setter,        \* the outcome the callback handles on the setter's thread
  taken          \* the transfer it handles there, 0 for none (any more)

reader == <<rpc, i, next_status, batch>>
transfers == <<usb, status>>
setting == <<setter, taken>>
vars == <<async_status, async_cancel, dev_lost, xfer_errors, rpc, i,
          next_status, usb, status, batch, cpc, closer, setter, taken>>

Statuses == {"INACTIVE", "RUNNING", "CANCELING"}
Outcomes == {"COMPLETED", "CANCELLED", "ERROR", "OTHER", "NO_DEVICE"}

(* A transfer is "none" when dev->xfer is NULL, "idle" when libusb does not *)
(* have it, "inflight", "aborting" when it is in flight and libusb has been *)
(* asked to cancel it, or it has ended with an outcome that the reader has  *)
(* not handled yet: then usb[t] is that outcome.                            *)
UsbStates == {"none", "idle", "inflight", "aborting"} \cup Outcomes
Held(t) == usb[t] \in {"inflight", "aborting"} \cup Outcomes
Pending(u) == {t \in Xfers : u[t] \in Outcomes}

ReaderPCs == {"idle", "prepare", "submit", "loop", "events", "check",
              "pass", "drain", "final", "free"}

(* Invariant: every variable has its type.                                  *)
TypeOK ==
  /\ async_status \in Statuses
  /\ async_cancel \in BOOLEAN
  /\ dev_lost \in BOOLEAN
  /\ xfer_errors \in 0 .. BufNum
  /\ rpc \in ReaderPCs
  /\ i \in 1 .. BufNum + 1
  /\ next_status \in Statuses
  /\ usb \in [Xfers -> UsbStates]
  /\ status \in [Xfers -> Outcomes]
  /\ batch \subseteq Xfers
  /\ cpc \in [Cancellers -> {"idle", "checked", "wrote"}]
  /\ closer \in {"open", "closing", "closed"}
  /\ setter \in {"none"} \cup Outcomes
  /\ taken \in 0 .. BufNum

(* rtlsdr_open hands out a zeroed structure: no stream, no transfers.       *)
Init ==
  /\ async_status = "INACTIVE"
  /\ async_cancel = FALSE
  /\ dev_lost = FALSE
  /\ xfer_errors = 0
  /\ rpc = "idle"
  /\ i = 1
  /\ next_status = "INACTIVE"
  /\ usb = [t \in Xfers |-> "none"]
  /\ status = [t \in Xfers |-> "COMPLETED"]
  /\ batch = {}
  /\ cpc = [c \in Cancellers |-> "idle"]
  /\ closer = "open"
  /\ setter = "none"
  /\ taken = 0

----------------------------------------------------------------------------
(* rtlsdr_read_async: entering, setting up the transfers.                   *)

(* The guard on async_status and the write that claims the stream.          *)
ReadEnter ==
  /\ rpc = "idle"
  /\ closer = "open"
  /\ async_status = "INACTIVE"
  /\ async_status' = "RUNNING"
  /\ next_status' = "INACTIVE"
  /\ rpc' = "prepare"
  /\ UNCHANGED <<async_cancel, dev_lost, xfer_errors, i, transfers, batch,
                 cpc, closer, setting>>

(* async_cancel is reset only after the stream has been claimed, then the   *)
(* transfers are allocated (zeroed, so their status reads COMPLETED).       *)
Prepare ==
  /\ rpc = "prepare"
  /\ async_cancel' = FALSE
  /\ usb' = [t \in Xfers |-> "idle"]
  /\ status' = [t \in Xfers |-> "COMPLETED"]
  /\ i' = 1
  /\ rpc' = "submit"
  /\ UNCHANGED <<async_status, dev_lost, xfer_errors, next_status, batch,
                 cpc, closer, setting>>

(* Mutant: a loop that runs to xfer_buf_num inclusive.                      *)
Submit_Inclusive ==
  /\ rpc = "submit"
  /\ usb' = [t \in Xfers |-> IF t = i THEN "inflight" ELSE usb[t]]
  /\ i' = i + 1
  /\ rpc' = IF i > BufNum THEN "loop" ELSE "submit"
  /\ UNCHANGED <<async_status, async_cancel, dev_lost, xfer_errors,
                 next_status, status, batch, cpc, closer, setting>>

Submit ==
  /\ rpc = "submit"
  /\ usb' = [usb EXCEPT ![i] = "inflight"]
  /\ i' = IF i = BufNum THEN 1 ELSE i + 1
  /\ rpc' = IF i = BufNum THEN "loop" ELSE "submit"
  /\ UNCHANGED <<async_status, async_cancel, dev_lost, xfer_errors,
                 next_status, status, batch, cpc, closer, setting>>

(* A failed submission stops the set-up and cancels what was submitted; the *)
(* write does not look at async_status first and leaves async_cancel alone. *)
SubmitFails ==
  /\ "submit" \in Faults
  /\ rpc = "submit"
  /\ async_status' = "CANCELING"
  /\ i' = 1
  /\ rpc' = "loop"
  /\ UNCHANGED <<async_cancel, dev_lost, xfer_errors, next_status, transfers,
                 batch, cpc, closer, setting>>

----------------------------------------------------------------------------
(* libusb_handle_events_timeout_completed, called from the reader in three  *)
(* places: "events" (up to one second), "drain" and "final" (no waiting).   *)
(* A call handles at least the transfers that have ended when it starts.    *)

Handling == rpc \in {"events", "drain", "final"}

(* With async_cancel set the call returns at once and handles nothing.      *)
EnterEvents ==
  /\ rpc = "loop"
  /\ async_status # "INACTIVE"
  /\ IF async_cancel
       THEN rpc' = "check" /\ UNCHANGED batch
       ELSE rpc' = "events" /\ batch' = Pending(usb)
  /\ UNCHANGED <<async_status, async_cancel, dev_lost, xfer_errors, i,
                 next_status, transfers, cpc, closer, setting>>

(* Mutant: the branch librtlsdr.c has disabled, which forces the status of  *)
(* a stream that is being cancelled to INACTIVE.                            *)
CancelFromReader_Force ==
  /\ async_status' = IF async_status = "RUNNING" THEN "CANCELING"
                                                 ELSE "INACTIVE"
  /\ async_cancel' = (async_status = "RUNNING" \/ async_cancel)

(* What rtlsdr_cancel_async does when the reader's own thread calls it.     *)
CancelFromReader ==
  IF async_status = "RUNNING"
    THEN async_status' = "CANCELING" /\ async_cancel' = TRUE
    ELSE UNCHANGED <<async_status, async_cancel>>

(* A transfer handed back to libusb, or left to the reader; of one that has *)
(* been freed meanwhile (0) the model follows nothing.                      *)
Give(t, u) == usb' = [s \in Xfers |-> IF s = t THEN u ELSE usb[s]]

(* _libusb_callback on COMPLETED: the client sees the data (and may cancel  *)
(* the stream), then the transfer is submitted again whatever the stream's  *)
(* state; the result of that call is not looked at.                         *)
Resubmit(t) ==
  /\ \/ UNCHANGED <<async_status, async_cancel>>
     \/ CallbackCancels /\ CancelFromReader
  /\ Give(t, "inflight") \/ ("resubmit" \in Faults /\ Give(t, "idle"))
  /\ xfer_errors' = 0
  /\ UNCHANGED dev_lost

(* Mutant: the lost device is noted but the stream is not cancelled.        *)
Failed_NoCancel(t, outcome) ==
  /\ Give(t, "idle")
  /\ dev_lost' = (dev_lost \/ outcome = "NO_DEVICE")
  /\ UNCHANGED <<xfer_errors, async_status, async_cancel>>

(* _libusb_callback on an error: the transfer is not submitted again; after *)
(* xfer_buf_num of them, or when the device is gone, the stream is ended.   *)
Failed(t, outcome) ==
  LET errors == IF outcome = "ERROR" /\ xfer_errors < BufNum
                  THEN xfer_errors + 1 ELSE xfer_errors
  IN /\ Give(t, "idle")
     /\ xfer_errors' = errors
     /\ IF errors >= BufNum \/ outcome = "NO_DEVICE"
          THEN dev_lost' = TRUE /\ CancelFromReader
          ELSE UNCHANGED <<dev_lost, async_status, async_cancel>>

Cancelled(t) ==
  /\ Give(t, "idle")
  /\ UNCHANGED <<async_status, async_cancel, dev_lost, xfer_errors>>

Callback(t, outcome) ==
  \/ outcome = "COMPLETED" /\ Resubmit(t)
  \/ outcome \in {"ERROR", "OTHER", "NO_DEVICE"} /\ Failed(t, outcome)
  \/ outcome = "CANCELLED" /\ Cancelled(t)

(* libusb hands an ended transfer to _libusb_callback, in the reader; one   *)
(* thread at a time has the lock under which events are handled.            *)
Dispatch(t) ==
  /\ Handling
  /\ setter = "none"
  /\ t \in Pending(usb)
  /\ batch' = batch \ {t}
  /\ status' = [status EXCEPT ![t] = usb[t]]
  /\ Callback(t, usb[t])
  /\ UNCHANGED <<rpc, i, next_status, cpc, closer, setting>>

(* The control transfer of a setter finds the lock free and an ended        *)
(* transfer, and the callback runs in the setter's thread while the reader  *)
(* goes on.  The callback's call of rtlsdr_cancel_async is one step here,   *)
(* as the cancellers take two.                                              *)
SetterTakes(t) ==
  /\ Setting
  /\ closer # "closed"
  /\ setter = "none"
  /\ t \in Pending(usb)
  /\ setter' = usb[t]
  /\ taken' = t
  /\ status' = [status EXCEPT ![t] = usb[t]]
  /\ usb' = [usb EXCEPT ![t] = "idle"]
  /\ batch' = batch \ {t}
  /\ UNCHANGED <<async_status, async_cancel, dev_lost, xfer_errors, rpc, i,
                 next_status, cpc, closer>>

SetterReturns ==
  /\ setter # "none"
  /\ Callback(taken, setter)
  /\ setter' = "none"
  /\ taken' = 0
  /\ UNCHANGED <<rpc, i, next_status, status, batch, cpc, closer>>

(* A handling of events comes to an end when it has worked off what there   *)
(* was, or finds another thread at it and waits no longer.                  *)
Handled == batch = {} \/ Setting

(* The call in the loop returns 0: what had ended is handled, or one second *)
(* has passed.                                                              *)
EventsReturn ==
  /\ rpc = "events"
  /\ Handled
  /\ batch' = {}
  /\ rpc' = "check"
  /\ UNCHANGED <<async_status, async_cancel, dev_lost, xfer_errors, i,
                 next_status, transfers, cpc, closer, setting>>

(* The call in the loop fails: a stray signal is retried, anything else     *)
(* leaves the loop with whatever next_status was before.                    *)
EventsFail ==
  /\ rpc = "events"
  /\ batch' = {}
  /\ \/ "interrupted" \in Faults /\ rpc' = "loop"
     \/ "events" \in Faults /\ rpc' = "free"
  /\ UNCHANGED <<async_status, async_cancel, dev_lost, xfer_errors, i,
                 next_status, transfers, cpc, closer, setting>>

----------------------------------------------------------------------------
(* The pass over the transfers when the stream is being cancelled.          *)

CheckCanceling ==
  /\ rpc = "check"
  /\ IF async_status = "CANCELING"
       THEN next_status' = "INACTIVE" /\ rpc' = "pass"
       ELSE UNCHANGED next_status /\ rpc' = "loop"
  /\ UNCHANGED <<async_status, async_cancel, dev_lost, xfer_errors, i,
                 transfers, batch, cpc, closer, setting>>

SkipCancelled ==
  /\ rpc = "pass"
  /\ i \in Xfers
  /\ status[i] = "CANCELLED"
  /\ i' = i + 1
  /\ UNCHANGED <<async_status, async_cancel, dev_lost, xfer_errors, rpc,
                 next_status, transfers, batch, cpc, closer, setting>>

(* Mutant: another pass also after a transfer that could not be cancelled.  *)
CancelTransfer_Retry ==
  /\ rpc = "pass"
  /\ i \in Xfers
  /\ status[i] # "CANCELLED"
  /\ usb' = [usb EXCEPT ![i] = IF @ = "inflight" THEN "CANCELLED" ELSE @]
  /\ next_status' = "CANCELING"
  /\ rpc' = "drain"
  /\ batch' = Pending(usb')
  /\ UNCHANGED <<async_status, async_cancel, dev_lost, xfer_errors, i,
                 status, cpc, closer, setting>>

(* libusb_cancel_transfer succeeds only for a transfer that is in flight    *)
(* and not being cancelled already: one that has ended but is not handled   *)
(* yet, one that is aborting and one that is idle are NOT_FOUND.  Only a    *)
(* success makes the reader come back for another pass.                     *)
CancelTransfer ==
  /\ rpc = "pass"
  /\ i \in Xfers
  /\ status[i] # "CANCELLED"
  /\ IF usb[i] = "inflight"
       THEN /\ \/ usb' = [usb EXCEPT ![i] = "CANCELLED"]
               \/ /\ "late_abort" \in Faults
                  /\ usb' = [usb EXCEPT ![i] = "aborting"]
            /\ next_status' = "CANCELING"
       ELSE UNCHANGED <<usb, next_status>>
  /\ rpc' = "drain"
  /\ batch' = Pending(usb')
  /\ UNCHANGED <<async_status, async_cancel, dev_lost, xfer_errors, i,
                 status, cpc, closer, setting>>

(* The result of this handling of events is ignored: with the fault it may  *)
(* have handled nothing.                                                    *)
DrainReturn ==
  /\ rpc = "drain"
  /\ Handled \/ "events" \in Faults
  /\ batch' = {}
  /\ i' = i + 1
  /\ rpc' = "pass"
  /\ UNCHANGED <<async_status, async_cancel, dev_lost, xfer_errors,
                 next_status, transfers, cpc, closer, setting>>

(* The pass is over: either a last handling of events, or another round.    *)
PassEnd ==
  /\ rpc = "pass"
  /\ i = BufNum + 1
  /\ i' = 1
  /\ IF dev_lost \/ next_status = "INACTIVE"
       THEN rpc' = "final" /\ batch' = Pending(usb)
       ELSE rpc' = "loop" /\ UNCHANGED batch
  /\ UNCHANGED <<async_status, async_cancel, dev_lost, xfer_errors,
                 next_status, transfers, cpc, closer, setting>>

FinalReturn ==
  /\ rpc = "final"
  /\ Handled \/ "events" \in Faults
  /\ batch' = {}
  /\ rpc' = "free"
  /\ UNCHANGED <<async_status, async_cancel, dev_lost, xfer_errors, i,
                 next_status, transfers, cpc, closer, setting>>

(* Mutant: the call returns without leaving a status behind.                *)
FreeReturn_NoReset ==
  /\ rpc = "free"
  /\ usb' = [t \in Xfers |-> "none"]
  /\ status' = [t \in Xfers |-> "COMPLETED"]
  /\ next_status' = "INACTIVE"
  /\ rpc' = "idle"
  /\ taken' = 0
  /\ UNCHANGED <<async_status, async_cancel, dev_lost, xfer_errors, i, batch,
                 cpc, closer, setter>>

(* _rtlsdr_free_async_buffers frees every transfer, then the stream's state *)
(* is overwritten and the call returns.                                     *)
FreeReturn ==
  /\ rpc = "free"
  /\ usb' = [t \in Xfers |-> "none"]
  /\ status' = [t \in Xfers |-> "COMPLETED"]
  /\ async_status' = next_status
  /\ next_status' = "INACTIVE"
  /\ rpc' = "idle"
  /\ taken' = 0
  /\ UNCHANGED <<async_cancel, dev_lost, xfer_errors, i, batch, cpc, closer,
                 setter>>

----------------------------------------------------------------------------
(* rtlsdr_cancel_async from another thread: the test, then the two writes.  *)

(* Mutant: any stream that is not inactive is cancelled (again).            *)
CancelCheck_Again(c) ==
  /\ cpc[c] = "idle"
  /\ closer # "closed"
  /\ async_status # "INACTIVE"
  /\ cpc' = [cpc EXCEPT ![c] = "checked"]
  /\ UNCHANGED <<async_status, async_cancel, dev_lost, xfer_errors, reader,
                 transfers, closer, setting>>

CancelCheck(c) ==
  /\ cpc[c] = "idle"
  /\ closer # "closed"
  /\ async_status = "RUNNING"
  /\ cpc' = [cpc EXCEPT ![c] = "checked"]
  /\ UNCHANGED <<async_status, async_cancel, dev_lost, xfer_errors, reader,
                 transfers, closer, setting>>

CancelWrite(c) ==
  /\ cpc[c] = "checked"
  /\ async_status' = "CANCELING"
  /\ cpc' = [cpc EXCEPT ![c] = "wrote"]
  /\ UNCHANGED <<async_cancel, dev_lost, xfer_errors, reader, transfers,
                 closer, setting>>

CancelFlag(c) ==
  /\ cpc[c] = "wrote"
  /\ async_cancel' = TRUE
  /\ cpc' = [cpc EXCEPT ![c] = "idle"]
  /\ UNCHANGED <<async_status, dev_lost, xfer_errors, reader, transfers,
                 closer, setting>>

----------------------------------------------------------------------------
(* rtlsdr_close: dev_lost is looked at once; a lost device is closed at     *)
(* once, another one when async_status reads INACTIVE.                      *)

CloseBegin ==
  /\ closer = "open"
  /\ closer' = IF dev_lost THEN "closed" ELSE "closing"
  /\ UNCHANGED <<async_status, async_cancel, dev_lost, xfer_errors, reader,
                 transfers, cpc, setting>>

(* Mutant: close waits only for a stream to stop running.                   *)
CloseSpin_NotRunning ==
  /\ closer = "closing"
  /\ async_status # "RUNNING"
  /\ closer' = "closed"
  /\ UNCHANGED <<async_status, async_cancel, dev_lost, xfer_errors, reader,
                 transfers, cpc, setting>>

CloseSpin ==
  /\ closer = "closing"
  /\ async_status = "INACTIVE"
  /\ closer' = "closed"
  /\ UNCHANGED <<async_status, async_cancel, dev_lost, xfer_errors, reader,
                 transfers, cpc, setting>>

----------------------------------------------------------------------------
(* The USB stack: a transfer in flight ends with data or a failure, one     *)
(* that is aborting ends cancelled.                                         *)
Complete(t) ==
  /\ \E o \in {"COMPLETED"} \cup (Faults \cap Outcomes) :
        /\ usb[t] = "inflight"
        /\ usb' = [usb EXCEPT ![t] = o]
  /\ UNCHANGED <<async_status, async_cancel, dev_lost, xfer_errors, reader,
                 status, cpc, closer, setting>>

AbortLands(t) ==
  /\ usb[t] = "aborting"
  /\ usb' = [usb EXCEPT ![t] = "CANCELLED"]
  /\ UNCHANGED <<async_status, async_cancel, dev_lost, xfer_errors, reader,
                 status, cpc, closer, setting>>

----------------------------------------------------------------------------
HandlingReturns == EventsReturn \/ DrainReturn \/ FinalReturn

ReaderStep ==
  \/ Prepare \/ Submit \/ SubmitFails
  \/ EnterEvents \/ EventsFail \/ HandlingReturns
  \/ \E t \in Xfers : Dispatch(t)
  \/ CheckCanceling \/ SkipCancelled \/ CancelTransfer \/ PassEnd
  \/ FreeReturn

CancellerStep(c) == CancelWrite(c) \/ CancelFlag(c)

Next ==
  \/ ReadEnter
  \/ ReaderStep
  \/ \E c \in Cancellers : CancelCheck(c) \/ CancellerStep(c)
  \/ CloseBegin \/ CloseSpin
  \/ (\E t \in Xfers : SetterTakes(t)) \/ SetterReturns
  \/ \E t \in Xfers : Complete(t) \/ AbortLands(t)

Spec == Init /\ [][Next]_vars

(* A handling of events works off the transfers that had ended before it    *)
(* started and comes to an end even when others keep ending meanwhile.      *)
HandlingProgress == HandlingReturns \/ \E t \in batch : Dispatch(t)

(* Stray signals do not interrupt the handling of events for ever.          *)
SignalsEnd == <>[][~ (rpc = "events" /\ rpc' = "loop")]_vars

(* Threads that are inside a call go on with it.  Nobody has to start,      *)
(* cancel or close a stream, and the device has to send nothing.            *)
Fairness ==
  /\ SignalsEnd
  /\ WF_vars(ReaderStep)
  /\ WF_vars(HandlingProgress)
  /\ \A c \in Cancellers : WF_vars(CancellerStep(c))
  /\ WF_vars(CloseSpin)
  /\ WF_vars(SetterReturns)

FairSpec == Spec /\ Fairness

----------------------------------------------------------------------------
(* Properties                                                               *)

(* The reader owns async_status: while rtlsdr_read_async is between its     *)
(* claim and its last write nobody sees INACTIVE (so no second read starts  *)
(* and no close goes ahead), and once it has returned nobody sees RUNNING.  *)
StatusOwner ==
  /\ rpc # "idle" => async_status # "INACTIVE"
  /\ rpc = "idle" => async_status # "RUNNING"

(* rtlsdr_close goes ahead only when the reader has left rtlsdr_read_async, *)
(* unless the device is lost (librtlsdr.c does not wait then).              *)
CloseWaits == closer = "closed" /\ rpc # "idle" => dev_lost

(* Until the stream is cancelled every transfer stays in the hands of       *)
(* libusb or of the callback, but for those that ended with an error: none  *)
(* is dropped or forgotten by the set-up, in whichever thread it is handled,*)
(* and a lost device ends the stream.                                       *)
(* Needs that submitting a transfer again does not fail.                    *)
Served(t) == Held(t) \/ t = taken \/ status[t] \in {"ERROR", "OTHER"}
FullPipeline ==
  rpc \in {"loop", "events", "check"} /\ async_status = "RUNNING"
    => \A t \in Xfers : Served(t)

(* When rtlsdr_read_async has returned, the device can stream again.  Holds *)
(* when there is one source of cancellation only.                           *)
ReadyAgain == rpc = "idle" => async_status = "INACTIVE"

(* A stream that is being cancelled comes to an end: rtlsdr_read_async      *)
(* returns, whatever the device, late aborts and failing submissions do.    *)
CancelReturns ==
  (async_status = "CANCELING" /\ rpc # "idle") ~> (rpc = "idle")

(* One source of cancellation and a healthy device: the code implements the *)
(* interface its callers program against.  A stream whose transfers are     *)
(* gone but whose status still says CANCELING counts as stopping, so a      *)
(* stale status would break the refinement.                                 *)
Api == INSTANCE StreamApi WITH
         phase <- CASE async_status = "INACTIVE"  -> "Idle"
                    [] async_status = "RUNNING"   -> "Streaming"
                    [] async_status = "CANCELING" -> "Stopping",
         device <- closer
ImplementsApi == Api!ApiSpec

(* The transfers are freed only when libusb has none of them any more: the  *)
(* comment at librtlsdr.c:1962 says the events that still need to be        *)
(* handled are handled before exiting.                                      *)
NoFreeInFlight == rpc = "free" => \A t \in Xfers : ~ Held(t)
============================================================================
