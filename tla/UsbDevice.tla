----------------------------- MODULE UsbDevice -----------------------------
(***************************************************************************)
(* RTLSDR_USB and its RTLSDRHandler: the Swift object for a dongle on this *)
(* machine.  asyncReadSamples runs rtlsdr_read_async on the thread that    *)
(* calls it; other threads, or the client's own callback, stop it.  Two    *)
(* flags without a lock say whether a read is going on: isActive of        *)
(* RTLSDR_USB (usbActive) and isActive of RTLSDRHandler (handlerActive).   *)
(* The device is the one StreamApi describes, and may be lost.             *)
(***************************************************************************)
EXTENDS Naturals, FiniteSets

CONSTANTS
  Threads,        \* the client's threads
  Starters,       \* those that call asyncReadSamples and syncReadSamples
  Stoppers,       \* those that call stopAsyncRead
  CallbackStops,  \* may the client's callback call stopAsyncRead?
  DeviceFails,    \* may the device be lost?
  None,           \* no callback
  MaxRetains      \* bound on the references to the handler

ASSUME ThreadsAssumption ==
  /\ IsFiniteSet(Threads)
  /\ Starters \subseteq Threads /\ Stoppers \subseteq Threads
ASSUME ClientAssumption == CallbackStops \in BOOLEAN /\ DeviceFails \in BOOLEAN
ASSUME NoneAssumption == None \notin Threads
ASSUME RetainsAssumption == MaxRetains \in Nat

VARIABLES
  usbActive,      \* RTLSDR_USB.isActive
  handlerActive,  \* RTLSDRHandler.isActive
  callback,       \* RTLSDRHandler.callback: the thread that gave it, or None
  retains,        \* references to the handler taken with passRetained
  reads,          \* where each thread is in asyncReadSamples or sync...
  stops,          \* where each thread is in stopAsyncRead
  phase, device,  \* the device, see StreamApi
  lost,           \* it was unplugged
  careful,        \* history: has the client made safe calls only?
  turnedAway      \* history: calls the handler's guard has turned away

Stream == INSTANCE StreamApi

handlerVars == <<handlerActive, callback, retains>>
deviceVars == <<phase, device, lost>>
history == <<careful, turnedAway>>
vars == <<usbActive, handlerVars, reads, stops, deviceVars, history>>

InHandler == {"guard", "begin", "claim", "reading", "ended"}

Init ==
  /\ usbActive = FALSE /\ handlerActive = FALSE /\ retains = 0
  /\ callback = None
  /\ reads = [t \in Threads |-> "out"]
  /\ stops = [t \in Threads |-> "out"]
  /\ phase = "Idle" /\ device = "open" /\ lost = FALSE
  /\ careful = TRUE /\ turnedAway = 0

Out(t) == reads[t] = "out" /\ stops[t] = "out"
Quiet == \A t \in Threads : Out(t)
GoTo(t, from, to) == reads[t] = from /\ reads' = [reads EXCEPT ![t] = to]
StopGoTo(t, from, to) == stops[t] = from /\ stops' = [stops EXCEPT ![t] = to]

(* The calls that a client can make safely: it starts a read when nobody is *)
(* in a call, or beside a stream that runs and that nobody stops (the start *)
(* is refused); it stops a stream that runs, from a thread or the callback. *)
SafeStart ==
  \A t \in Threads :
    /\ stops[t] = "out"
    /\ reads[t] = "out" \/ (reads[t] = "reading" /\ phase = "Streaming")
SafeStop(t) == phase = "Streaming" \/ reads[t] = "reading"
CalledSafely(safe) == careful' = (careful /\ safe) /\ UNCHANGED turnedAway

----------------------------------------------------------------------------
(* asyncReadSamples: the guard, then the flag, then startAsyncRead.         *)

(* Mutant: there is no guard.                                               *)
AsyncRead_NoGuard(t) ==
  /\ t \in Starters /\ Out(t)
  /\ device = "open"
  /\ GoTo(t, "out", "activate")
  /\ CalledSafely(SafeStart)
  /\ UNCHANGED <<usbActive, handlerVars, stops, deviceVars>>

AsyncRead(t) ==
  /\ t \in Starters /\ Out(t)
  /\ device = "open"
  /\ GoTo(t, "out", IF usbActive THEN "refused" ELSE "activate")
  /\ CalledSafely(SafeStart)
  /\ UNCHANGED <<usbActive, handlerVars, stops, deviceVars>>

Refuse(t) ==
  /\ GoTo(t, "refused", "out")
  /\ UNCHANGED <<usbActive, handlerVars, stops, deviceVars, history>>

Activate(t) ==
  /\ GoTo(t, "activate", "enter")
  /\ usbActive' = TRUE
  /\ UNCHANGED <<handlerVars, stops, deviceVars, history>>

(* The reference is taken before the handler's guard is looked at.          *)
Retain(t) ==
  /\ GoTo(t, "enter", "guard")
  /\ retains < MaxRetains
  /\ retains' = retains + 1
  /\ UNCHANGED <<usbActive, handlerActive, callback, stops, deviceVars, history>>

(* A call that finds the handler active leaves its reference behind.        *)
HandlerGuard(t) ==
  /\ GoTo(t, "guard", IF handlerActive THEN "out" ELSE "begin")
  /\ turnedAway' = IF handlerActive THEN turnedAway + 1 ELSE turnedAway
  /\ UNCHANGED <<careful, usbActive, handlerVars, stops, deviceVars>>

HandlerBegin(t) ==
  /\ GoTo(t, "begin", "claim")
  /\ callback' = t
  /\ handlerActive' = TRUE
  /\ UNCHANGED <<usbActive, retains, stops, deviceVars, history>>

(* rtlsdr_read_async claims the stream, or returns -2 at once.              *)
Claim(t) ==
  /\ \/ Stream!Begin /\ GoTo(t, "claim", "reading")
     \/ phase # "Idle" /\ GoTo(t, "claim", "ended") /\ UNCHANGED <<phase, device>>
  /\ UNCHANGED <<usbActive, handlerVars, stops, lost, history>>

(* It returns once the stream is cancelled and the callback has returned;   *)
(* a lost device keeps the status CANCELING.                                *)
ReadReturns(t) ==
  /\ phase = "Stopping"
  /\ stops[t] = "out"
  /\ GoTo(t, "reading", "ended")
  /\ IF lost THEN UNCHANGED <<phase, device>> ELSE Stream!Return
  /\ UNCHANGED <<usbActive, handlerVars, stops, lost, history>>

(* startAsyncRead clears the handler's flag and its reference; isActive of  *)
(* RTLSDR_USB is left as it is.                                             *)
HandlerEnd(t) ==
  /\ GoTo(t, "ended", "out")
  /\ handlerActive' = FALSE
  /\ retains' = retains - 1
  /\ UNCHANGED <<usbActive, callback, stops, deviceVars, history>>

----------------------------------------------------------------------------
(* stopAsyncRead, from a thread of its own or from the callback.            *)

MayStop(t) ==
  \/ t \in Stoppers /\ Out(t)
  \/ CallbackStops /\ reads[t] = "reading" /\ stops[t] = "out"

(* Mutant: the flag is cleared before the stream is cancelled.              *)
Stop_ClearFirst(t) ==
  /\ MayStop(t)
  /\ device = "open"
  /\ StopGoTo(t, "out", IF handlerActive THEN "cancel" ELSE "deactivate")
  /\ handlerActive' = FALSE
  /\ CalledSafely(SafeStop(t))
  /\ UNCHANGED <<usbActive, callback, retains, reads, deviceVars>>

Stop(t) ==
  /\ MayStop(t)
  /\ device = "open"
  /\ StopGoTo(t, "out", IF handlerActive THEN "cancel" ELSE "deactivate")
  /\ CalledSafely(SafeStop(t))
  /\ UNCHANGED <<usbActive, handlerVars, reads, deviceVars>>

(* Mutant: the flags are cleared and the stream is left alone.              *)
StopCancel_Forgets(t) ==
  /\ StopGoTo(t, "cancel", "clear")
  /\ UNCHANGED <<usbActive, handlerVars, reads, deviceVars, history>>

StopCancel(t) ==
  /\ StopGoTo(t, "cancel", "clear")
  /\ IF phase = "Streaming" THEN Stream!Cancel
                            ELSE UNCHANGED <<phase, device>>
  /\ UNCHANGED <<usbActive, handlerVars, reads, lost, history>>

StopClear(t) ==
  /\ StopGoTo(t, "clear", "deactivate")
  /\ handlerActive' = FALSE
  /\ UNCHANGED <<usbActive, callback, retains, reads, deviceVars, history>>

StopDeactivate(t) ==
  /\ StopGoTo(t, "deactivate", "out")
  /\ usbActive' = FALSE
  /\ UNCHANGED <<handlerVars, reads, deviceVars, history>>

----------------------------------------------------------------------------
(* syncReadSamples: no guard; the flag is set, and cleared when the read    *)
(* returns, whatever else is going on.                                      *)

SyncRead(t) ==
  /\ t \in Starters /\ Out(t)
  /\ device = "open"
  /\ GoTo(t, "out", "sync")
  /\ usbActive' = TRUE
  /\ CalledSafely(Quiet)
  /\ UNCHANGED <<handlerVars, stops, deviceVars>>

SyncReturns(t) ==
  /\ GoTo(t, "sync", "out")
  /\ usbActive' = FALSE
  /\ UNCHANGED <<handlerVars, stops, deviceVars, history>>

----------------------------------------------------------------------------
LoseDevice ==
  /\ DeviceFails
  /\ ~ lost
  /\ Stream!Cancel
  /\ lost' = TRUE
  /\ UNCHANGED <<usbActive, handlerVars, reads, stops, history>>

(* The object goes away when nobody is in a call of it; closeRTLSDR.        *)
Deinit ==
  /\ Quiet
  /\ device = "open"
  /\ phase = "Idle" \/ lost
  /\ device' = "closed"
  /\ UNCHANGED <<usbActive, handlerVars, reads, stops, phase, lost, history>>

ReadStep(t) ==
  \/ Refuse(t) \/ Activate(t) \/ Retain(t) \/ HandlerGuard(t)
  \/ HandlerBegin(t) \/ Claim(t) \/ ReadReturns(t) \/ HandlerEnd(t)
  \/ SyncReturns(t)

StopStep(t) == StopCancel(t) \/ StopClear(t) \/ StopDeactivate(t)

Next ==
  \/ \E t \in Threads :
       \/ AsyncRead(t) \/ SyncRead(t) \/ Stop(t)
       \/ ReadStep(t) \/ StopStep(t)
  \/ LoseDevice \/ Deinit

Spec == Init /\ [][Next]_vars

(* A call that can go on does; nobody has to call anything.  Only finitely  *)
(* many callbacks follow a cancel, so that a callback which stops again and *)
(* again does not keep the read from returning: strong fairness.            *)
FairSpec ==
  /\ Spec
  /\ \A t \in Threads : /\ WF_vars(ReadStep(t)) /\ SF_vars(ReadReturns(t))
                         /\ WF_vars(StopStep(t))

----------------------------------------------------------------------------
(* Properties                                                               *)

(* A stream that runs is known to run, and is the one of its callback: both *)
(* flags say so until a stop has been asked for, so that the guards refuse  *)
(* a second read, which does not take the samples of the first, and a stop  *)
(* is not taken for superfluous.  And when nobody is in a call no flag is   *)
(* left set that would refuse the next read, but after an unplug, where     *)
(* isActive outlives the stream.  Holds for a careful client.               *)
StreamIsKnown ==
  careful =>
    /\ phase = "Streaming" =>
         /\ usbActive /\ handlerActive
         /\ \E t \in Threads : reads[t] = "reading" /\ callback = t
    /\ Quiet /\ ~lost => ~usbActive /\ ~handlerActive

(* Whatever the client does, the references to the handler are those of the *)
(* calls inside it and those of the calls its guard turned away, which are  *)
(* never released: nothing else leaks, and no reference a read still uses   *)
(* is released.  The guard of asyncReadSamples spares a careful client the  *)
(* leak, also when it starts a read beside a stream that runs.              *)
ReferencesCounted ==
  /\ retains = Cardinality({t \in Threads : reads[t] \in InHandler}) + turnedAway
  /\ careful => turnedAway = 0

(* Whatever else the client does, a stop that finds the handler active ends *)
(* the read: the call of asyncReadSamples returns after stopAsyncRead.      *)
StopEndsRead ==
  \A t \in Threads :
    (\E s \in Threads : stops[s] = "cancel") /\ reads[t] = "reading"
      ~> reads[t] = "out"
=============================================================================
