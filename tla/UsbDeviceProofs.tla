-------------------------- MODULE UsbDeviceProofs --------------------------
(***************************************************************************)
(* Theorems about UsbDevice for any threads, any split of them into those  *)
(* that read and those that stop, with or without a callback that stops,   *)
(* whether or not the device may be lost: what holds for as long as the    *)
(* client is careful, and what becomes of the references whatever it does. *)
(***************************************************************************)
EXTENDS UsbDevice, FiniteSetTheorems, TLAPS

TypeOK ==
  /\ usbActive \in BOOLEAN /\ handlerActive \in BOOLEAN
  /\ callback \in Threads \cup {None}
  /\ retains \in Int
  /\ reads \in [Threads -> {"out", "refused", "activate", "enter", "sync"}
                             \cup InHandler]
  /\ stops \in [Threads -> {"out", "cancel", "clear", "deactivate"}]
  /\ phase \in {"Idle", "Streaming", "Stopping"}
  /\ device \in {"open", "closing", "closed"} /\ lost \in BOOLEAN
  /\ careful \in BOOLEAN /\ turnedAway \in Nat

(* A second start is refused, so there is one reader and a stop finds it    *)
(* past its claim; once a stop is past its cancel the stream no longer      *)
(* runs.                                                                    *)
Aside(t) == reads[t] \in {"out", "refused"}

OneReader ==
  \A s, t \in Threads : ~ Aside(s) /\ ~ Aside(t) => s = t

StopsLate ==
  \A s \in Threads :
    /\ stops[s] # "out" => \A t \in Threads : Aside(t) \/ reads[t] \in {"reading", "ended"}
    /\ stops[s] \in {"clear", "deactivate"} => phase # "Streaming"

(* What the reader has set up, by where it is.                              *)
ReaderInv ==
  \A t \in Threads :
    /\ reads[t] \in {"enter", "guard", "begin", "claim"} => usbActive
    /\ reads[t] = "claim" => handlerActive
    /\ reads[t] \in {"claim", "reading"} => callback = t

(* What is left behind when nobody reads.                                   *)
LeftInv ==
  /\ phase = "Streaming" => \E t \in Threads : reads[t] = "reading"
  /\ handlerActive => \E t \in Threads : reads[t] \in {"claim", "reading", "ended"}

CarefulInv ==
  /\ OneReader /\ StopsLate /\ ReaderInv /\ LeftInv /\ turnedAway = 0
  /\ phase = "Streaming" => usbActive /\ handlerActive

(* As long as the device is there a flag that is set has somebody who will  *)
(* need it, or will clear it.                                               *)
FlagFalls ==
  ~ lost =>
    /\ phase = "Stopping" => \E t \in Threads : reads[t] = "reading"
    /\ usbActive =>
         \/ phase = "Streaming"
         \/ \E t \in Threads :
              \/ reads[t] \in {"enter", "guard", "begin", "claim", "sync"}
              \/ stops[t] \in {"clear", "deactivate"}

Inv == TypeOK /\ (careful => CarefulInv /\ FlagFalls)

----------------------------------------------------------------------------
LEMMA InitInv == Init => Inv
<1> SUFFICES ASSUME Init PROVE Inv
  OBVIOUS
<1>1. TypeOK
  <2>1. reads \in [Threads -> {"out", "refused", "activate", "enter", "sync"}
                               \cup InHandler]
    BY DEF Init
  <2>2. stops \in [Threads -> {"out", "cancel", "clear", "deactivate"}]
    BY DEF Init
  <2>3. /\ usbActive \in BOOLEAN /\ handlerActive \in BOOLEAN
        /\ callback \in Threads \cup {None} /\ lost \in BOOLEAN
        /\ careful \in BOOLEAN
    BY DEF Init
  <2>4. retains \in Int /\ turnedAway \in Nat
    BY DEF Init
  <2>5. /\ phase \in {"Idle", "Streaming", "Stopping"}
        /\ device \in {"open", "closing", "closed"}
    BY DEF Init
  <2> QED BY <2>1, <2>2, <2>3, <2>4, <2>5 DEF TypeOK
<1>2. \A t \in Threads : reads[t] = "out" /\ stops[t] = "out"
  BY DEF Init
<1>3. turnedAway = 0 /\ ~ handlerActive /\ phase = "Idle"
  BY DEF Init
<1> QED
  BY <1>1, <1>2, <1>3
  DEF Inv, CarefulInv, OneReader, Aside, StopsLate, ReaderInv, LeftInv, InHandler,
      FlagFalls, Init

(* Types.                                                                   *)
LEMMA TypeStep == ASSUME TypeOK, [Next]_vars PROVE TypeOK'
<1> USE DEF TypeOK, GoTo, StopGoTo, handlerVars, deviceVars, history, InHandler
<1>1. ASSUME NEW t \in Threads, AsyncRead(t) \/ SyncRead(t) PROVE TypeOK'
  BY <1>1 DEF AsyncRead, SyncRead, CalledSafely, SafeStart, Quiet
<1>2. ASSUME NEW t \in Threads, Stop(t) PROVE TypeOK'
  BY <1>2 DEF Stop, CalledSafely, SafeStop
<1>3. ASSUME NEW t \in Threads, StopStep(t) PROVE TypeOK'
  BY <1>3 DEF StopStep, StopCancel, StopClear, StopDeactivate, Stream!Cancel
<1>4. ASSUME NEW t \in Threads, ReadStep(t) PROVE TypeOK'
  <2>1. CASE Refuse(t) \/ Activate(t) \/ SyncReturns(t)
    BY <2>1 DEF Refuse, Activate, SyncReturns
  <2>2. CASE Retain(t)
    <3>1. /\ retains' = retains + 1
          /\ UNCHANGED <<usbActive, handlerActive, callback, stops, deviceVars, history>>
      BY <2>2 DEF Retain
    <3>2. reads' \in [Threads -> {"out", "refused", "activate", "enter", "sync"}
                                   \cup InHandler]
      BY <2>2 DEF Retain
    <3>3. retains' \in Int
      BY <3>1
    <3> QED BY <3>1, <3>2, <3>3
  <2>6. CASE HandlerBegin(t)
    BY <2>6 DEF HandlerBegin
  <2>3. CASE HandlerGuard(t)
    BY <2>3 DEF HandlerGuard
  <2>4. CASE Claim(t) \/ ReadReturns(t)
    BY <2>4 DEF Claim, ReadReturns, Stream!Begin, Stream!Return
  <2>5. CASE HandlerEnd(t)
    <3>1. reads' \in [Threads -> {"out", "refused", "activate", "enter", "sync"}
                                   \cup InHandler]
      BY <2>5 DEF HandlerEnd
    <3>2. /\ retains' = retains - 1 /\ handlerActive' = FALSE
          /\ UNCHANGED <<usbActive, callback, stops, deviceVars, history>>
      BY <2>5 DEF HandlerEnd
    <3>3. retains' \in Int
      BY <3>2
    <3> QED BY <3>1, <3>2, <3>3
  <2> QED BY <1>4, <2>1, <2>2, <2>3, <2>4, <2>5, <2>6 DEF ReadStep
<1>5. CASE LoseDevice \/ Deinit \/ UNCHANGED vars
  BY <1>5 DEF LoseDevice, Stream!Cancel, Deinit, vars
<1> QED BY <1>1, <1>2, <1>3, <1>4, <1>5 DEF Next

(* A call that begins, a safe one, finds every other thread outside, or     *)
(* beside a running stream and is refused.                                  *)
LEMMA BeginInv ==
  ASSUME TypeOK, CarefulInv, NEW t \in Threads, AsyncRead(t) \/ SyncRead(t), careful'
  PROVE  CarefulInv'
<1> USE DEF TypeOK, GoTo, handlerVars, deviceVars, history, InHandler, CalledSafely
<1>1. CASE AsyncRead(t) /\ usbActive
  <2>1. /\ reads[t] = "out" /\ reads' = [reads EXCEPT ![t] = "refused"]
        /\ UNCHANGED <<usbActive, handlerVars, stops, deviceVars, turnedAway>>
    BY <1>1 DEF AsyncRead
  <2>2. \A s \in Threads : reads[s] # "out" => reads'[s] = reads[s]
    BY <2>1
  <2>3. \A s \in Threads : Aside(s)' <=> Aside(s)
    BY <2>1 DEF Aside
  <2>4. \A s \in Threads \ {t} : reads'[s] = reads[s]
    BY <2>1
  <2> QED
    BY <2>1, <2>2, <2>3, <2>4 DEF CarefulInv, OneReader, StopsLate, ReaderInv, LeftInv, Aside
<1>2. CASE ~ (AsyncRead(t) /\ usbActive)
  <2>1. \A s \in Threads : reads[s] = "out" /\ stops[s] = "out"
    <3>1. CASE AsyncRead(t)
      BY <1>2, <3>1 DEF AsyncRead, SafeStart, CarefulInv
    <3>2. CASE SyncRead(t)
      BY <3>2 DEF SyncRead, Quiet, Out
    <3> QED BY <3>1, <3>2
  <2>2. /\ \A s \in Threads \ {t} : reads'[s] = "out"
        /\ reads'[t] \in {"activate", "sync"}
        /\ UNCHANGED <<stops, phase, device, lost, handlerVars, turnedAway>>
    BY <1>2, <2>1 DEF AsyncRead, SyncRead
  <2>3. ~ handlerActive /\ phase # "Streaming"
    BY <2>1 DEF CarefulInv, LeftInv
  <2> QED
    BY <2>1, <2>2, <2>3 DEF CarefulInv, OneReader, StopsLate, ReaderInv, LeftInv, Aside
<1> QED BY <1>1, <1>2

(* A refused start returns.                                                 *)
LEMMA RefuseInv ==
  ASSUME TypeOK, CarefulInv, NEW t \in Threads, Refuse(t)
  PROVE  CarefulInv'
<1> USE DEF TypeOK, GoTo, handlerVars, deviceVars, history, InHandler
<1>1. /\ reads[t] = "refused" /\ reads' = [reads EXCEPT ![t] = "out"]
      /\ UNCHANGED <<usbActive, handlerVars, stops, deviceVars, turnedAway>>
  BY DEF Refuse
<1>2. \A s \in Threads : Aside(s)' <=> Aside(s)
  BY <1>1 DEF Aside
<1>3. \A s \in Threads \ {t} : reads'[s] = reads[s]
  BY <1>1
<1> QED
  BY <1>1, <1>2, <1>3 DEF CarefulInv, OneReader, StopsLate, ReaderInv, LeftInv, Aside

(* The one reader goes on.                                                  *)
LEMMA ReadInv ==
  ASSUME TypeOK, CarefulInv, NEW t \in Threads, ReadStep(t), ~ Refuse(t)
  PROVE  CarefulInv'
<1> USE DEF TypeOK, GoTo, handlerVars, deviceVars, history, InHandler, CarefulInv
<1>1. /\ ~ Aside(t)
      /\ \A s \in Threads \ {t} : Aside(s) /\ reads'[s] = reads[s]
      /\ stops' = stops /\ lost' = lost
  BY DEF ReadStep, Activate, Retain, HandlerGuard, HandlerBegin,
         Claim, ReadReturns, HandlerEnd, SyncReturns, OneReader, Aside
<1> USE DEF Aside
<1>9. CASE Activate(t)
  BY <1>1, <1>9 DEF Activate, OneReader, StopsLate, ReaderInv, LeftInv
<1>10. CASE SyncReturns(t)
  <2>1. phase # "Streaming"
    BY <1>1, <1>10 DEF SyncReturns, LeftInv
  <2> QED
    BY <1>1, <1>10, <2>1 DEF SyncReturns, OneReader, StopsLate, ReaderInv, LeftInv
<1>3. CASE Retain(t)
  BY <1>1, <1>3 DEF Retain, OneReader, StopsLate, ReaderInv, LeftInv
<1>4. CASE HandlerGuard(t)
  <2>1. ~ handlerActive
    BY <1>1, <1>4 DEF HandlerGuard, LeftInv
  <2> QED
    BY <1>1, <1>4, <2>1 DEF HandlerGuard, OneReader, StopsLate, ReaderInv, LeftInv
<1>5. CASE HandlerBegin(t)
  BY <1>1, <1>5 DEF HandlerBegin, OneReader, StopsLate, ReaderInv, LeftInv
<1>6. CASE Claim(t)
  BY <1>1, <1>6 DEF Claim, Stream!Begin, OneReader, StopsLate, ReaderInv, LeftInv
<1>7. CASE ReadReturns(t)
  BY <1>1, <1>7 DEF ReadReturns, Stream!Return, OneReader, StopsLate, ReaderInv, LeftInv
<1>8. CASE HandlerEnd(t)
  BY <1>1, <1>8 DEF HandlerEnd, OneReader, StopsLate, ReaderInv, LeftInv
<1> QED
  BY <1>3, <1>4, <1>5, <1>6, <1>7, <1>8, <1>9, <1>10 DEF ReadStep

(* A safe stop begins in a running stream or in its callback, and ends the  *)
(* stream before it takes the flags away.                                   *)
LEMMA StopInv ==
  ASSUME TypeOK, CarefulInv, NEW t \in Threads, Stop(t) \/ StopStep(t), careful'
  PROVE  CarefulInv'
<1> USE DEF TypeOK, Out, StopGoTo, handlerVars, deviceVars, history, InHandler,
            CarefulInv, Aside
<1>1. CASE Stop(t)
  <2>1. PICK r \in Threads : reads[r] = "reading"
    BY <1>1 DEF Stop, CalledSafely, SafeStop, LeftInv
  <2>2. \A s \in Threads : reads[s] \in {"out", "refused", "reading"}
    BY <2>1 DEF OneReader
  <2> QED
    BY <1>1, <2>2 DEF Stop, CalledSafely, OneReader, StopsLate, ReaderInv, LeftInv
<1>2. CASE StopCancel(t)
  BY <1>2 DEF StopCancel, Stream!Cancel, OneReader, StopsLate, ReaderInv, LeftInv
<1>3. CASE StopClear(t)
  <2>1. phase # "Streaming"
        /\ \A s \in Threads : reads[s] \in {"out", "refused", "reading", "ended"}
    BY <1>3 DEF StopClear, StopsLate
  <2> QED
    BY <1>3, <2>1 DEF StopClear, OneReader, StopsLate, ReaderInv, LeftInv
<1>4. CASE StopDeactivate(t)
  <2>1. phase # "Streaming"
        /\ \A s \in Threads : reads[s] \in {"out", "refused", "reading", "ended"}
    BY <1>4 DEF StopDeactivate, StopsLate
  <2> QED
    BY <1>4, <2>1 DEF StopDeactivate, OneReader, StopsLate, ReaderInv, LeftInv
<1> QED
  BY <1>1, <1>2, <1>3, <1>4 DEF StopStep

(* The flag falls when the reader has gone through a stop.                  *)
LEMMA FlagStep ==
  ASSUME TypeOK, CarefulInv, FlagFalls, [Next]_vars, careful'
  PROVE  FlagFalls'
<1> USE DEF TypeOK, GoTo, StopGoTo, handlerVars, deviceVars, history, FlagFalls
<1>1. ASSUME NEW t \in Threads, AsyncRead(t) \/ SyncRead(t) PROVE FlagFalls'
  <2>1. /\ reads[t] = "out" /\ UNCHANGED <<stops, phase, lost>>
        /\ \A s \in Threads \ {t} : reads'[s] = reads[s]
        /\ usbActive' = usbActive \/ reads'[t] = "sync"
    BY <1>1 DEF AsyncRead, SyncRead
  <2> QED BY <2>1
<1>2. ASSUME NEW t \in Threads, Refuse(t) \/ Activate(t) PROVE FlagFalls'
  <2>1. /\ reads[t] \in {"refused", "activate"} /\ UNCHANGED <<stops, phase, lost>>
        /\ \A s \in Threads \ {t} : reads'[s] = reads[s]
        /\ usbActive' = usbActive \/ reads'[t] = "enter"
    BY <1>2 DEF Refuse, Activate
  <2> QED BY <2>1
<1>3. ASSUME NEW t \in Threads, Retain(t) \/ HandlerGuard(t) \/ HandlerBegin(t)
      PROVE  FlagFalls'
  <2>1. ~ (HandlerGuard(t) /\ handlerActive)
    BY <1>3 DEF HandlerGuard, CarefulInv, OneReader, Aside, LeftInv, InHandler
  <2>2. /\ reads[t] \in {"enter", "guard", "begin"}
        /\ reads'[t] \in {"guard", "begin", "claim"}
        /\ UNCHANGED <<stops, phase, lost>>
        /\ \A s \in Threads \ {t} : reads'[s] = reads[s]
    BY <1>3, <2>1 DEF Retain, HandlerGuard, HandlerBegin
  <2> QED BY <2>2
<1>4. ASSUME NEW t \in Threads, Claim(t) PROVE FlagFalls'
  <2>1. \A s \in Threads : reads[s] # "reading"
    BY <1>4 DEF Claim, CarefulInv, OneReader, Aside
  <2>2. ~ lost => phase = "Idle"
    BY <2>1 DEF CarefulInv, LeftInv
  <2>3. ~ lost => phase' = "Streaming" /\ lost' = lost
    BY <1>4, <2>2 DEF Claim, Stream!Begin
  <2> QED BY <1>4, <2>3 DEF Claim
<1>5. ASSUME NEW t \in Threads, ReadReturns(t) PROVE FlagFalls'
  <2>1. /\ reads[t] = "reading" /\ phase = "Stopping"
        /\ \A s \in Threads : s # t => Aside(s) /\ reads'[s] = reads[s]
        /\ UNCHANGED <<stops, usbActive, lost>>
    BY <1>5 DEF ReadReturns, CarefulInv, OneReader, Aside
  <2>2. ~ lost => phase' = "Idle"
    BY <1>5 DEF ReadReturns, Stream!Return
  <2> QED BY <2>1, <2>2 DEF Aside
<1>6. ASSUME NEW t \in Threads, HandlerEnd(t) PROVE FlagFalls'
  <2>1. /\ reads[t] = "ended" /\ UNCHANGED <<stops, phase, usbActive, lost>>
        /\ \A s \in Threads \ {t} : reads'[s] = reads[s]
    BY <1>6 DEF HandlerEnd
  <2> QED BY <2>1
<1>7. ASSUME NEW t \in Threads, SyncReturns(t) PROVE FlagFalls'
  <2>1. /\ reads[t] = "sync" /\ ~ usbActive' /\ UNCHANGED <<phase, lost>>
        /\ \A s \in Threads \ {t} : reads'[s] = reads[s]
    BY <1>7 DEF SyncReturns
  <2> QED BY <2>1
<1>8. ASSUME NEW t \in Threads, Stop(t) \/ StopClear(t) PROVE FlagFalls'
  <2>1. /\ stops[t] \in {"out", "clear"} /\ UNCHANGED <<reads, phase, usbActive, lost>>
        /\ \A s \in Threads \ {t} : stops'[s] = stops[s]
        /\ stops[t] = "clear" => stops'[t] = "deactivate"
    BY <1>8 DEF Stop, StopClear, MayStop, Out
  <2> QED BY <2>1
<1>9. ASSUME NEW t \in Threads, StopCancel(t) PROVE FlagFalls'
  <2>1. /\ stops'[t] = "clear" /\ UNCHANGED <<reads, usbActive, lost>>
    BY <1>9 DEF StopCancel
  <2>2. phase' = phase \/ (phase = "Streaming" /\ phase' = "Stopping")
    BY <1>9 DEF StopCancel, Stream!Cancel
  <2> QED BY <2>1, <2>2 DEF CarefulInv, LeftInv
<1>10. ASSUME NEW t \in Threads, StopDeactivate(t) PROVE FlagFalls'
  <2>1. ~ usbActive' /\ UNCHANGED <<reads, phase, lost>>
    BY <1>10 DEF StopDeactivate
  <2> QED BY <2>1
<1>11. CASE LoseDevice
  BY <1>11 DEF LoseDevice
<1>12. CASE Deinit \/ UNCHANGED vars
  BY <1>12 DEF Deinit, vars
<1> QED
  BY <1>1, <1>2, <1>3, <1>4, <1>5, <1>6, <1>7, <1>8, <1>9, <1>10, <1>11, <1>12
  DEF Next, ReadStep, StopStep

LEMMA InvStep == ASSUME Inv, [Next]_vars PROVE Inv'
<1>1. TypeOK'
  BY TypeStep DEF Inv
<1>2. ASSUME careful' PROVE careful
  <2> USE DEF history
  <2> QED
    BY <1>2
    DEF Next, AsyncRead, SyncRead, Stop, CalledSafely, ReadStep, Refuse, Activate,
        Retain, HandlerGuard, HandlerBegin, Claim, ReadReturns, HandlerEnd,
        SyncReturns, StopStep, StopCancel, StopClear, StopDeactivate, LoseDevice,
        Deinit, vars, Inv, TypeOK
<1>3. ASSUME careful' PROVE CarefulInv' /\ FlagFalls'
  <2>1. TypeOK /\ CarefulInv /\ FlagFalls
    BY <1>2, <1>3 DEF Inv
  <2>8. FlagFalls'
    BY <1>3, <2>1, FlagStep
  <2>2. ASSUME NEW t \in Threads, AsyncRead(t) \/ SyncRead(t) PROVE CarefulInv'
    BY <1>3, <2>1, <2>2, BeginInv
  <2>3. ASSUME NEW t \in Threads, ReadStep(t) PROVE CarefulInv'
    BY <2>1, <2>3, ReadInv, RefuseInv
  <2>4. ASSUME NEW t \in Threads, Stop(t) \/ StopStep(t) PROVE CarefulInv'
    BY <1>3, <2>1, <2>4, StopInv
  <2>5. CASE LoseDevice
    BY <2>1, <2>5, <2>8
    DEF LoseDevice, Stream!Cancel, CarefulInv, OneReader, StopsLate, ReaderInv,
        LeftInv, Aside, handlerVars, history
  <2>6. CASE Deinit
    BY <2>1, <2>6, <2>8
    DEF Deinit, CarefulInv, OneReader, StopsLate, ReaderInv, LeftInv, Aside,
        handlerVars, history
  <2>7. CASE UNCHANGED vars
    BY <2>1, <2>7, <2>8
    DEF vars, handlerVars, deviceVars, history, CarefulInv, OneReader, StopsLate,
        ReaderInv, LeftInv, Aside
  <2> QED
    BY <2>2, <2>3, <2>4, <2>5, <2>6, <2>7, <2>8 DEF Next
<1> QED BY <1>1, <1>3 DEF Inv

LEMMA Invariant == Spec => []Inv
BY InitInv, InvStep, PTL DEF Spec

----------------------------------------------------------------------------
(* Both flags say that a stream runs for as long as nobody has stopped it,  *)
(* and its samples go to its own callback, whichever threads a careful      *)
(* client starts, starts beside it, and stops from; and both are clear when *)
(* nobody is in a call of a device that was not unplugged.                  *)
THEOREM AlwaysKnown == Spec => []StreamIsKnown
<1>1. Inv => StreamIsKnown
  <2> SUFFICES ASSUME TypeOK, CarefulInv, FlagFalls PROVE StreamIsKnown
    BY DEF Inv, StreamIsKnown
  <2>1. ASSUME phase = "Streaming"
        PROVE  /\ usbActive /\ handlerActive
               /\ \E t \in Threads : reads[t] = "reading" /\ callback = t
    BY <2>1 DEF CarefulInv, LeftInv, ReaderInv
  <2>2. ASSUME Quiet, ~ lost PROVE ~ usbActive /\ ~ handlerActive
    BY <2>2 DEF Quiet, Out, CarefulInv, LeftInv, FlagFalls
  <2> QED BY <2>1, <2>2 DEF StreamIsKnown
<1> QED BY <1>1, Invariant, PTL

----------------------------------------------------------------------------
(* References.                                                              *)
Inside == {t \in Threads : reads[t] \in InHandler}
CountInv == retains = Cardinality(Inside) + turnedAway

(* A call enters the handler or leaves it.                                  *)
LEMMA InsideSteps ==
  ASSUME TypeOK, NEW t \in Threads,
         \A s \in Threads \ {t} : reads'[s] = reads[s]
  PROVE  /\ (reads'[t] \in InHandler <=> reads[t] \in InHandler) => Inside' = Inside
         /\ reads[t] \notin InHandler /\ reads'[t] \in InHandler
              => Cardinality(Inside') = Cardinality(Inside) + 1
         /\ reads[t] \in InHandler /\ reads'[t] \notin InHandler
              => Cardinality(Inside') = Cardinality(Inside) - 1
         /\ Cardinality(Inside) \in Nat
<1>1. IsFiniteSet(Inside)
  BY ThreadsAssumption, FS_Subset DEF Inside
<1>2. Cardinality(Inside) \in Nat
  BY <1>1, FS_CardinalityType
<1>3. (reads'[t] \in InHandler <=> reads[t] \in InHandler) => Inside' = Inside
  BY DEF Inside, InHandler
<1>4. ASSUME reads[t] \notin InHandler, reads'[t] \in InHandler
      PROVE  Cardinality(Inside') = Cardinality(Inside) + 1
  <2>1. Inside' = Inside \cup {t} /\ t \notin Inside
    BY <1>4 DEF Inside, InHandler
  <2> QED BY <1>1, <2>1, FS_AddElement
<1>5. ASSUME reads[t] \in InHandler, reads'[t] \notin InHandler
      PROVE  Cardinality(Inside') = Cardinality(Inside) - 1
  <2>1. Inside' = Inside \ {t} /\ t \in Inside
    BY <1>5 DEF Inside, InHandler
  <2> QED BY <1>1, <2>1, FS_RemoveElement
<1> QED BY <1>2, <1>3, <1>4, <1>5

LEMMA CountStep ==
  ASSUME TypeOK, CountInv, [Next]_vars
  PROVE  CountInv'
<1> USE DEF handlerVars, history, CountInv
<1>1. ASSUME NEW t \in Threads, AsyncRead(t) \/ SyncRead(t) \/ ReadStep(t)
      PROVE  CountInv'
  <2>1. \A s \in Threads \ {t} : reads'[s] = reads[s]
    BY <1>1
    DEF TypeOK, GoTo, AsyncRead, SyncRead, ReadStep, Refuse, Activate, Retain,
        HandlerGuard, HandlerBegin, Claim, ReadReturns, HandlerEnd, SyncReturns
  <2> HIDE DEF CountInv
  <2>2. /\ (reads'[t] \in InHandler <=> reads[t] \in InHandler) => Inside' = Inside
        /\ reads[t] \notin InHandler /\ reads'[t] \in InHandler
             => Cardinality(Inside') = Cardinality(Inside) + 1
        /\ reads[t] \in InHandler /\ reads'[t] \notin InHandler
             => Cardinality(Inside') = Cardinality(Inside) - 1
        /\ Cardinality(Inside) \in Nat
    BY <2>1, InsideSteps
  <2> USE DEF CountInv
  <2>3. CASE Retain(t)
    BY <2>2, <2>3 DEF Retain, GoTo, InHandler, TypeOK
  <2>4. CASE HandlerEnd(t)
    BY <2>2, <2>4 DEF HandlerEnd, GoTo, InHandler, TypeOK
  <2>5. CASE HandlerGuard(t)
    BY <2>2, <2>5 DEF HandlerGuard, GoTo, InHandler, TypeOK
  <2>6. CASE \/ AsyncRead(t) \/ SyncRead(t) \/ Refuse(t) \/ Activate(t)
             \/ HandlerBegin(t) \/ Claim(t) \/ ReadReturns(t) \/ SyncReturns(t)
    <3>1. /\ reads'[t] \in InHandler <=> reads[t] \in InHandler
          /\ retains' = retains /\ turnedAway' = turnedAway
      BY <2>6
      DEF AsyncRead, SyncRead, CalledSafely, Refuse, Activate, HandlerBegin, Claim,
          ReadReturns, SyncReturns, GoTo, InHandler, TypeOK
    <3> QED BY <2>2, <3>1
  <2> QED BY <1>1, <2>3, <2>4, <2>5, <2>6 DEF ReadStep
<1>2. ASSUME NEW t \in Threads, Stop(t) \/ StopStep(t) PROVE CountInv'
  BY <1>2
  DEF Stop, CalledSafely, StopStep, StopCancel, StopClear, StopDeactivate, Inside
<1>3. CASE LoseDevice \/ Deinit \/ UNCHANGED vars
  BY <1>3 DEF LoseDevice, Deinit, vars, Inside
<1> QED BY <1>1, <1>2, <1>3 DEF Next

(* Whatever the client does, only the calls that the handler's guard turns  *)
(* away leave a reference behind; a careful client has no such call.        *)
THEOREM OnlyTurnedAwayLeak == Spec => []ReferencesCounted
<1>1. Init => CountInv
  <2> SUFFICES ASSUME Init PROVE CountInv
    OBVIOUS
  <2>1. Inside = {}
    BY DEF Init, Inside, InHandler
  <2> QED BY <2>1, FS_EmptySet DEF Init, CountInv
<1>2. Inv /\ CountInv /\ [Next]_vars => CountInv'
  BY CountStep DEF Inv
<1>3. Inv /\ CountInv => ReferencesCounted
  BY DEF Inv, CarefulInv, CountInv, Inside, ReferencesCounted
<1> QED BY <1>1, <1>2, <1>3, Invariant, PTL DEF Spec
=============================================================================
