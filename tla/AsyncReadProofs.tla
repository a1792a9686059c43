-------------------------- MODULE AsyncReadProofs --------------------------
(***************************************************************************)
(* Theorems about AsyncRead for any number of transfers, any set of        *)
(* cancelling threads and any failures of the USB stack.                   *)
(***************************************************************************)
EXTENDS AsyncRead, TLAPS

LEMMA StatusTypes ==
  /\ {"INACTIVE", "RUNNING", "CANCELING"} \subseteq Statuses
  /\ "COMPLETED" \in Outcomes
  /\ {"none", "idle", "inflight", "aborting"} \subseteq UsbStates
  /\ Outcomes \subseteq UsbStates
BY DEF Statuses, Outcomes, UsbStates

(* A callback, in the reader or in a setter's thread, keeps every variable  *)
(* it writes in its type, never starts a stream, and never finds a lost     *)
(* device again.                                                            *)
LEMMA CallbackWrites ==
  ASSUME TypeOK, NEW t, NEW outcome, Callback(t, outcome)
  PROVE  /\ async_status' \in Statuses /\ async_cancel' \in BOOLEAN
         /\ async_status' = async_status \/ async_status' = "CANCELING"
         /\ async_status = "INACTIVE" => async_status' = "INACTIVE"
         /\ \E u \in {"idle", "inflight"} : Give(t, u)
         /\ usb' \in [Xfers -> UsbStates]
         /\ dev_lost' \in BOOLEAN /\ (dev_lost => dev_lost')
         /\ xfer_errors' \in 0 .. BufNum
<1>1. /\ async_status' \in Statuses /\ async_cancel' \in BOOLEAN
      /\ async_status' = async_status \/ async_status' = "CANCELING"
      /\ async_status = "INACTIVE" => async_status' = "INACTIVE"
  BY StatusTypes
  DEF Callback, Resubmit, Failed, Cancelled, CancelFromReader, TypeOK
<1>2. \E u \in {"idle", "inflight"} : Give(t, u)
  BY DEF Callback, Resubmit, Failed, Cancelled
<1>3. usb' \in [Xfers -> UsbStates]
  BY <1>2 DEF Give, TypeOK, UsbStates
<1>4. dev_lost' \in BOOLEAN /\ (dev_lost => dev_lost')
  BY DEF Callback, Resubmit, Failed, Cancelled, TypeOK
<1>5. xfer_errors' \in 0 .. BufNum
  BY BufNumAssumption
  DEF Callback, Resubmit, Failed, Cancelled, TypeOK
<1> QED
  BY <1>1, <1>2, <1>3, <1>4, <1>5

LEMMA DispatchTypeOK ==
  ASSUME TypeOK, NEW t \in Xfers, Dispatch(t)
  PROVE  TypeOK'
<1>1. usb[t] \in Outcomes
  BY DEF Dispatch, Pending
<1>2. status' \in [Xfers -> Outcomes]
  BY <1>1 DEF Dispatch, TypeOK
<1>3. batch' \subseteq Xfers
  BY DEF Dispatch, TypeOK
<1> QED
  BY <1>2, <1>3, CallbackWrites DEF Dispatch, TypeOK, setting

LEMMA SetterTypeOK ==
  ASSUME TypeOK, (\E t \in Xfers : SetterTakes(t)) \/ SetterReturns
  PROVE  TypeOK'
<1>1. ASSUME NEW t \in Xfers, SetterTakes(t) PROVE TypeOK'
  <2>1. usb[t] \in Outcomes
    BY <1>1 DEF SetterTakes, Pending
  <2>2. usb' \in [Xfers -> UsbStates] /\ status' \in [Xfers -> Outcomes]
    BY <1>1, <2>1 DEF SetterTakes, TypeOK, UsbStates
  <2>3. batch' \subseteq Xfers /\ taken' \in 0 .. BufNum
    BY <1>1, BufNumAssumption DEF SetterTakes, TypeOK, Xfers
  <2> QED
    BY <1>1, <2>1, <2>2, <2>3 DEF SetterTakes, TypeOK
<1>2. CASE SetterReturns
  <2>1. taken' \in 0 .. BufNum /\ setter' \in {"none"} \cup Outcomes
    BY <1>2, BufNumAssumption DEF SetterReturns
  <2> QED
    BY <1>2, <2>1, CallbackWrites DEF SetterReturns, TypeOK
<1> QED
  BY <1>1, <1>2

(* The reader's index names a transfer whenever the array is indexed with   *)
(* it, and is back at the start when the next loop begins.                  *)
IndexOK ==
  /\ rpc \in {"submit", "drain"} => i \in Xfers
  /\ rpc \notin {"submit", "drain", "pass"} => i = 1

LEMMA IndexStep ==
  ASSUME TypeOK, IndexOK, [Next]_vars
  PROVE  IndexOK'
<1> USE BufNumAssumption DEF IndexOK
<1>1. CASE Prepare \/ Submit \/ SubmitFails \/ ReadEnter
  BY <1>1 DEF Prepare, Submit, SubmitFails, ReadEnter, TypeOK, Xfers
<1>2. CASE EnterEvents \/ EventsFail \/ HandlingReturns
  BY <1>2 DEF EnterEvents, EventsFail, HandlingReturns, EventsReturn,
              DrainReturn, FinalReturn
<1>3. ASSUME NEW t \in Xfers, Dispatch(t) PROVE IndexOK'
  BY <1>3 DEF Dispatch
<1>4. CASE CheckCanceling \/ SkipCancelled \/ CancelTransfer \/ PassEnd
           \/ FreeReturn
  BY <1>4 DEF CheckCanceling, SkipCancelled, CancelTransfer, PassEnd,
              FreeReturn
<1>5. ASSUME NEW c \in Cancellers, CancelCheck(c) \/ CancellerStep(c)
      PROVE  IndexOK'
  BY <1>5 DEF CancelCheck, CancellerStep, CancelWrite, CancelFlag, reader
<1>6. CASE CloseBegin \/ CloseSpin
  BY <1>6 DEF CloseBegin, CloseSpin, reader
<1>7. ASSUME NEW t \in Xfers, Complete(t) \/ AbortLands(t) PROVE IndexOK'
  BY <1>7 DEF Complete, AbortLands, reader
<1>8. CASE (\E t \in Xfers : SetterTakes(t)) \/ SetterReturns
  BY <1>8 DEF SetterTakes, SetterReturns
<1>9. CASE UNCHANGED vars
  BY <1>9 DEF vars
<1> QED
  BY <1>1, <1>2, <1>3, <1>4, <1>5, <1>6, <1>7, <1>8, <1>9
  DEF Next, ReaderStep

(* Every variable keeps its type: the transfers' indices stay within the    *)
(* array, and async_status is one of its three values.                      *)
THEOREM TypeCorrect == Spec => [](TypeOK /\ IndexOK)
<1>1. Init => TypeOK
  <2> SUFFICES ASSUME Init PROVE TypeOK
    OBVIOUS
  <2>1. usb \in [Xfers -> UsbStates] /\ status \in [Xfers -> Outcomes]
    BY StatusTypes DEF Init
  <2>2. i \in 1 .. BufNum + 1 /\ xfer_errors \in 0 .. BufNum
    BY BufNumAssumption DEF Init
  <2> QED
    BY <2>1, <2>2, StatusTypes, BufNumAssumption DEF Init, TypeOK, ReaderPCs
<1>2. Init => IndexOK
  BY DEF Init, IndexOK
<1>3. TypeOK /\ IndexOK /\ [Next]_vars => TypeOK' /\ IndexOK'
  <2> SUFFICES ASSUME TypeOK, IndexOK, [Next]_vars PROVE TypeOK'
    BY IndexStep
  <2> USE BufNumAssumption
  <2>1. CASE ReadEnter
    BY <2>1, StatusTypes DEF ReadEnter, TypeOK, transfers, setting, ReaderPCs
  <2>2. CASE Prepare
    <3>1. usb' \in [Xfers -> UsbStates] /\ status' \in [Xfers -> Outcomes]
      BY <2>2, StatusTypes DEF Prepare
    <3>2. i' \in 1 .. BufNum + 1
      BY <2>2 DEF Prepare
    <3> QED
      BY <2>2, <3>1, <3>2 DEF Prepare, TypeOK, ReaderPCs, setting
  <2>3. CASE Submit
    <3>1. usb' \in [Xfers -> UsbStates]
      BY <2>3, StatusTypes DEF Submit, TypeOK
    <3>2. i' \in 1 .. BufNum + 1
      BY <2>3 DEF Submit, TypeOK, IndexOK, Xfers
    <3> QED
      BY <2>3, <3>1, <3>2 DEF Submit, TypeOK, ReaderPCs, setting
  <2>4. CASE SubmitFails
    BY <2>4, StatusTypes DEF SubmitFails, TypeOK, transfers, setting, ReaderPCs
  <2>5. CASE EnterEvents
    BY <2>5 DEF EnterEvents, Pending, TypeOK, transfers, setting, ReaderPCs
  <2>6. CASE EventsFail
    BY <2>6 DEF EventsFail, TypeOK, transfers, setting, ReaderPCs
  <2>7. CASE HandlingReturns
    <3>1. i' \in 1 .. BufNum + 1
      BY <2>7 DEF HandlingReturns, EventsReturn, DrainReturn, FinalReturn,
                  TypeOK, IndexOK, Xfers
    <3> QED
      BY <2>7, <3>1 DEF HandlingReturns, EventsReturn, DrainReturn,
                        FinalReturn, TypeOK, transfers, setting,
                        ReaderPCs
  <2>8. ASSUME NEW t \in Xfers, Dispatch(t) PROVE TypeOK'
    BY <2>8, DispatchTypeOK, Zenon
  <2>9. CASE CheckCanceling
    BY <2>9, StatusTypes DEF CheckCanceling, TypeOK, transfers, setting, ReaderPCs
  <2>10. CASE SkipCancelled
    BY <2>10 DEF SkipCancelled, TypeOK, transfers, setting, Xfers
  <2>11. CASE CancelTransfer
    <3>1. usb' \in [Xfers -> UsbStates]
      BY <2>11 DEF CancelTransfer, TypeOK, UsbStates, Outcomes
    <3>2. batch' \subseteq Xfers
      BY <2>11 DEF CancelTransfer, Pending
    <3>3. next_status' \in Statuses
      BY <2>11, StatusTypes DEF CancelTransfer, TypeOK
    <3> QED
      BY <2>11, <3>1, <3>2, <3>3 DEF CancelTransfer, TypeOK, ReaderPCs, setting
  <2>12. CASE PassEnd
    BY <2>12 DEF PassEnd, Pending, TypeOK, transfers, setting, ReaderPCs
  <2>13. CASE FreeReturn
    BY <2>13, StatusTypes, BufNumAssumption
    DEF FreeReturn, TypeOK, ReaderPCs, UsbStates, Outcomes
  <2>14. ASSUME NEW c \in Cancellers, CancelCheck(c) \/ CancellerStep(c)
         PROVE  TypeOK'
    BY <2>14, StatusTypes
    DEF CancelCheck, CancellerStep, CancelWrite, CancelFlag, TypeOK, reader,
        transfers, setting
  <2>15. CASE CloseBegin \/ CloseSpin
    BY <2>15 DEF CloseBegin, CloseSpin, TypeOK, reader, transfers,
                 setting
  <2>16. ASSUME NEW t \in Xfers, Complete(t) \/ AbortLands(t) PROVE TypeOK'
    BY <2>16
    DEF Complete, AbortLands, TypeOK, reader, setting, UsbStates, Outcomes
  <2>17. CASE (\E t \in Xfers : SetterTakes(t)) \/ SetterReturns
    BY <2>17, SetterTypeOK, Zenon
  <2>18. CASE UNCHANGED vars
    BY <2>18 DEF vars, TypeOK
  <2> QED
    BY <2>1, <2>2, <2>3, <2>4, <2>5, <2>6, <2>7, <2>8, <2>9, <2>10, <2>11,
       <2>12, <2>13, <2>14, <2>15, <2>16, <2>17, <2>18
    DEF Next, ReaderStep
<1> QED
  BY <1>1, <1>2, <1>3, PTL DEF Spec

----------------------------------------------------------------------------
(* StatusOwner needs to know that the value the reader will leave behind is *)
(* not RUNNING; CloseWaits then follows because close is let through either *)
(* by INACTIVE or by a lost device, and a closed device is not read again.  *)
StatusInv ==
  /\ StatusOwner
  /\ next_status # "RUNNING"
  /\ rpc = "prepare" => next_status = "INACTIVE"
  /\ CloseWaits

LEMMA StatusStep ==
  ASSUME TypeOK, StatusInv, [Next]_vars
  PROVE  StatusInv'
<1> USE DEF StatusInv, StatusOwner, CloseWaits
<1>1. CASE ReadEnter \/ Prepare \/ Submit \/ SubmitFails
  BY <1>1 DEF ReadEnter, Prepare, Submit, SubmitFails
<1>2. CASE EnterEvents \/ EventsFail \/ HandlingReturns
  BY <1>2 DEF EnterEvents, EventsFail, HandlingReturns, EventsReturn,
              DrainReturn, FinalReturn
<1>3. ASSUME NEW t \in Xfers, Dispatch(t) PROVE StatusInv'
  <2>1. rpc # "idle" /\ rpc' = rpc /\ next_status' = next_status
        /\ closer' = closer /\ rpc # "prepare"
    BY <1>3 DEF Dispatch, Handling
  <2>2. /\ async_status' = async_status \/ async_status' = "CANCELING"
        /\ dev_lost => dev_lost'
    BY <1>3, CallbackWrites DEF Dispatch
  <2> QED
    BY <2>1, <2>2
<1>4. CASE CheckCanceling \/ SkipCancelled \/ CancelTransfer \/ PassEnd
           \/ FreeReturn
  BY <1>4 DEF CheckCanceling, SkipCancelled, CancelTransfer, PassEnd,
              FreeReturn
<1>5. ASSUME NEW c \in Cancellers, CancelCheck(c) \/ CancellerStep(c)
      PROVE  StatusInv'
  BY <1>5 DEF CancelCheck, CancellerStep, CancelWrite, CancelFlag, reader
<1>6. CASE CloseBegin \/ CloseSpin
  BY <1>6 DEF CloseBegin, CloseSpin, reader
<1>7. ASSUME NEW t \in Xfers, Complete(t) \/ AbortLands(t) PROVE StatusInv'
  BY <1>7 DEF Complete, AbortLands, reader
<1>8. ASSUME NEW t \in Xfers, SetterTakes(t) PROVE StatusInv'
  BY <1>8 DEF SetterTakes
<1>9. CASE SetterReturns
  <2>1. rpc' = rpc /\ next_status' = next_status /\ closer' = closer
    BY <1>9 DEF SetterReturns
  <2>2. /\ async_status' = async_status \/ async_status' = "CANCELING"
        /\ dev_lost => dev_lost'
    BY <1>9, CallbackWrites DEF SetterReturns
  <2> QED
    BY <2>1, <2>2
<1>10. CASE UNCHANGED vars
  BY <1>10 DEF vars
<1> QED
  BY <1>1, <1>2, <1>3, <1>4, <1>5, <1>6, <1>7, <1>8, <1>9, <1>10
  DEF Next, ReaderStep

(* While rtlsdr_read_async is active nobody reads INACTIVE, and after it    *)
(* has returned nobody reads RUNNING, whatever the cancellers interleave.   *)
THEOREM StatusOwned == Spec => []StatusOwner
<1>1. Init => StatusInv
  BY DEF Init, StatusInv, StatusOwner, CloseWaits
<1>2. StatusInv => StatusOwner
  BY DEF StatusInv
<1> QED
  BY <1>1, <1>2, StatusStep, TypeCorrect, PTL DEF Spec

(* rtlsdr_close never takes a healthy device away from an active reader.    *)
THEOREM CloseIsSafe == Spec => []CloseWaits
<1>1. Init => StatusInv
  BY DEF Init, StatusInv, StatusOwner, CloseWaits
<1>2. StatusInv => CloseWaits
  BY DEF StatusInv
<1> QED
  BY <1>1, <1>2, StatusStep, TypeCorrect, PTL DEF Spec

----------------------------------------------------------------------------
(* FullPipeline is not inductive by itself: during the set-up the transfers *)
(* before i are served, an idle reader has no transfers at all, what is     *)
(* handled on a setter's thread is a transfer that has ended that way, past *)
(* the check the stream is no longer running, and no transfer is cancelled  *)
(* while it is.                                                             *)
PipelineInv ==
  /\ rpc \in {"idle", "prepare"}
       => taken = 0 /\ \A t \in Xfers : usb[t] = "none"
  /\ rpc = "submit" /\ async_status = "RUNNING"
       => \A t \in 1 .. i - 1 : Served(t)
  /\ taken # 0
       => /\ setter = status[taken]
          /\ async_status = "RUNNING" => setter # "CANCELLED"
  /\ FullPipeline
  /\ rpc \in {"pass", "drain", "final"} => async_status = "CANCELING"
  /\ async_status = "RUNNING"
       => \A t \in Xfers : usb[t] \notin {"aborting", "CANCELLED"}

(* The callback gives a transfer back, drops one that ended with an error,  *)
(* or cancels the stream.                                                   *)
LEMMA CallbackServes ==
  ASSUME TypeOK, NEW t, NEW outcome, Callback(t, outcome),
         "resubmit" \notin Faults, outcome # "CANCELLED",
         async_status' = "RUNNING"
  PROVE  \/ Give(t, "inflight")
         \/ outcome \in {"ERROR", "OTHER"} /\ Give(t, "idle")
<1>1. CASE outcome = "COMPLETED"
  BY <1>1 DEF Callback, Resubmit
<1>2. CASE outcome = "NO_DEVICE"
  BY <1>2 DEF Callback, Failed, CancelFromReader
<1>3. CASE outcome \in {"ERROR", "OTHER"}
  BY <1>3 DEF Callback, Failed
<1> QED
  BY <1>1, <1>2, <1>3 DEF Callback

(* A transfer handled on a setter's thread is served all along.             *)
LEMMA PipelineSetter ==
  ASSUME TypeOK, IndexOK, PipelineInv,
         "resubmit" \notin Faults,
         (\E t \in Xfers : SetterTakes(t)) \/ SetterReturns
  PROVE  PipelineInv'
<1> USE DEF PipelineInv, FullPipeline, Served, Held
<1>1. ASSUME NEW t \in Xfers, SetterTakes(t) PROVE PipelineInv'
  <2>1. /\ usb[t] \in Outcomes /\ setter = "none"
        /\ setter' = usb[t] /\ taken' = t
        /\ status'[t] = usb[t] /\ \A s \in Xfers \ {t} : status'[s] = status[s]
        /\ \A s \in Xfers \ {t} : usb'[s] = usb[s]
        /\ usb'[t] = "idle"
        /\ rpc' = rpc /\ i' = i /\ async_status' = async_status
    BY <1>1 DEF SetterTakes, Pending, TypeOK
  <2>2. taken = 0
    BY <2>1 DEF TypeOK, Xfers, Outcomes
  <2>3. \A s \in Xfers : Served(s) => Served(s)'
    BY <2>1, <2>2 DEF Xfers
  <2>4. rpc \notin {"idle", "prepare"}
    BY <2>1 DEF Outcomes
  <2>5. rpc = "submit" => \A s \in 1 .. i - 1 : Served(s) => Served(s)'
    BY <2>3, BufNumAssumption DEF IndexOK, Xfers
  <2>6. async_status' = "RUNNING"
          => \A s \in Xfers : usb'[s] \notin {"aborting", "CANCELLED"}
    BY <2>1
  <2>7. (FullPipeline)'
    BY <2>1, <2>3
  <2> QED
    BY <2>1, <2>4, <2>5, <2>6, <2>7
<1>2. CASE SetterReturns
  <2>1. /\ taken' = 0 /\ rpc' = rpc /\ i' = i /\ status' = status
        /\ Callback(taken, setter)
    BY <1>2 DEF SetterReturns
  <2>2. PICK u \in {"idle", "inflight"} : Give(taken, u)
    BY <2>1, CallbackWrites
  <2>3. \A s \in Xfers : usb'[s] = IF s = taken THEN u ELSE usb[s]
    BY <2>2 DEF Give
  <2>4. async_status' = async_status \/ async_status' = "CANCELING"
    BY <2>1, CallbackWrites
  <2>5. ASSUME async_status' = "RUNNING", NEW s \in Xfers, Served(s)
        PROVE  Served(s)'
    <3>1. CASE s = taken
      <4>1. setter = status[s] /\ setter # "CANCELLED"
        BY <2>4, <2>5, <3>1 DEF Xfers
      <4>2. \/ Give(taken, "inflight")
            \/ setter \in {"ERROR", "OTHER"} /\ Give(taken, "idle")
        BY <2>1, <2>5, <4>1, CallbackServes
      <4> QED
        BY <2>1, <3>1, <4>1, <4>2 DEF Give
    <3>2. CASE s # taken
      BY <2>1, <2>3, <2>5, <3>2
    <3> QED
      BY <3>1, <3>2
  <2>6. (FullPipeline)'
    BY <2>1, <2>4, <2>5
  <2>7. rpc = "submit" /\ async_status' = "RUNNING"
          => \A s \in 1 .. i - 1 : Served(s) => Served(s)'
    BY <2>5, BufNumAssumption DEF IndexOK, Xfers
  <2>8. async_status' = "RUNNING"
          => \A s \in Xfers : usb'[s] \notin {"aborting", "CANCELLED"}
    BY <2>3, <2>4
  <2>9. rpc \in {"idle", "prepare"} => \A s \in Xfers : usb'[s] = "none"
    BY <2>3 DEF Xfers
  <2> QED
    BY <2>1, <2>4, <2>6, <2>7, <2>8, <2>9
<1> QED
  BY <1>1, <1>2

(* A step of the environment or of the USB stack takes no transfer away.    *)
LEMMA PipelineOutside ==
  ASSUME TypeOK, IndexOK, PipelineInv,
         "resubmit" \notin Faults,
         \/ \E c \in Cancellers : CancelCheck(c) \/ CancellerStep(c)
         \/ CloseBegin \/ CloseSpin
         \/ \E t \in Xfers : Complete(t) \/ AbortLands(t)
  PROVE  PipelineInv'
<1> USE DEF PipelineInv, FullPipeline, Served, Held
<1>1. ASSUME NEW c \in Cancellers, CancelCheck(c) \/ CancellerStep(c)
      PROVE  PipelineInv'
  <2>1. usb' = usb /\ status' = status /\ rpc' = rpc /\ i' = i
        /\ setter' = setter /\ taken' = taken
        /\ (async_status' = async_status \/ async_status' = "CANCELING")
    BY <1>1 DEF CancelCheck, CancellerStep, CancelWrite, CancelFlag, reader,
                transfers, setting
  <2> QED
    BY <2>1
<1>2. CASE CloseBegin \/ CloseSpin
  BY <1>2 DEF CloseBegin, CloseSpin, reader, transfers, setting
<1>3. ASSUME NEW t \in Xfers, Complete(t) \/ AbortLands(t) PROVE PipelineInv'
  <2>1. rpc' = rpc /\ i' = i /\ async_status' = async_status
        /\ status' = status /\ setter' = setter /\ taken' = taken
    BY <1>3 DEF Complete, AbortLands, reader, setting
  <2>2. PICK o \in Outcomes :
          /\ usb' = [usb EXCEPT ![t] = o]
          /\ \/ usb[t] = "inflight" /\ o # "CANCELLED"
             \/ usb[t] = "aborting"
    BY <1>3, FaultsAssumption
    DEF Complete, AbortLands, Outcomes, FaultKinds
  <2>3. /\ usb'[t] = o
        /\ \A s \in Xfers \ {t} : usb'[s] = usb[s]
    BY <2>2 DEF TypeOK
  <2>4. \A s \in Xfers : Served(s) => Served(s)'
    BY <2>1, <2>3
  <2>5. (FullPipeline)'
    BY <2>1, <2>4
  <2>6. rpc = "submit" => \A s \in 1 .. i - 1 : Served(s) => Served(s)'
    BY <2>1, <2>4, BufNumAssumption DEF IndexOK, Xfers
  <2>7. async_status' = "RUNNING"
          => \A s \in Xfers : usb'[s] \notin {"aborting", "CANCELLED"}
    BY <2>1, <2>2, <2>3 DEF Outcomes
  <2>8. rpc \notin {"idle", "prepare"}
    BY <2>2
  <2> QED
    BY <2>1, <2>5, <2>6, <2>7, <2>8
<1> QED
  BY <1>1, <1>2, <1>3

(* What the reader itself does, one step per action.                        *)
LEMMA PipelineReader ==
  ASSUME TypeOK, IndexOK, PipelineInv,
         "resubmit" \notin Faults,
         ReadEnter \/ ReaderStep
  PROVE  PipelineInv'
<1> USE DEF PipelineInv, FullPipeline, Served, Held
<1>1. CASE ReadEnter
  BY <1>1 DEF ReadEnter, transfers, setting
<1>2. CASE Prepare
  <2>1. rpc' = "submit" /\ i' = 1 /\ \A t \in Xfers : usb'[t] = "idle"
    BY <1>2 DEF Prepare
  <2>2. taken' = 0
    BY <1>2 DEF Prepare, setting
  <2>3. \A t \in 1 .. i' - 1 : Served(t)'
    BY <2>1
  <2>4. \A t \in Xfers : usb'[t] \notin {"aborting", "CANCELLED"}
    BY <2>1
  <2> QED
    BY <2>1, <2>2, <2>3, <2>4
<1>3. CASE Submit
  <2>1. /\ usb'[i] = "inflight" /\ i \in Xfers
        /\ \A t \in Xfers \ {i} : usb'[t] = usb[t]
        /\ async_status' = async_status /\ status' = status
        /\ setter' = setter /\ taken' = taken
    BY <1>3 DEF Submit, TypeOK, IndexOK, setting
  <2>2. async_status = "RUNNING" => \A t \in 1 .. i : Served(t)'
    BY <1>3, <2>1, BufNumAssumption DEF Submit, Xfers
  <2>3. CASE i = BufNum
    BY <1>3, <2>1, <2>2, <2>3 DEF Submit, Xfers
  <2>4. CASE i # BufNum
    <3>1. i' = i + 1 /\ rpc' = "submit" /\ rpc = "submit"
      BY <1>3, <2>4 DEF Submit
    <3>2. 1 .. i' - 1 = 1 .. i
      BY <2>1, <3>1, BufNumAssumption DEF Xfers
    <3> QED
      BY <2>1, <2>2, <3>1, <3>2
  <2> QED
    BY <2>3, <2>4
<1>4. CASE SubmitFails
  BY <1>4 DEF SubmitFails, transfers, setting
<1>5. CASE EnterEvents \/ EventsFail \/ EventsReturn
  BY <1>5 DEF EnterEvents, EventsFail, EventsReturn, transfers, setting
<1>6. CASE DrainReturn \/ FinalReturn \/ PassEnd \/ SkipCancelled
  BY <1>6 DEF DrainReturn, FinalReturn, PassEnd, SkipCancelled, transfers,
              setting
<1>7. CASE CheckCanceling
  BY <1>7 DEF CheckCanceling, transfers, setting
<1>8. ASSUME NEW t \in Xfers, Dispatch(t) PROVE PipelineInv'
  <2>1. /\ rpc' = rpc /\ rpc \in {"events", "drain", "final"} /\ i' = i
        /\ setter' = setter /\ taken' = taken /\ setter = "none"
        /\ usb[t] \in Outcomes /\ Callback(t, usb[t])
    BY <1>8 DEF Dispatch, Handling, Pending, setting
  <2>2. async_status' = async_status \/ async_status' = "CANCELING"
    BY <2>1, CallbackWrites
  <2>3. PICK u \in {"idle", "inflight"} : Give(t, u)
    BY <2>1, CallbackWrites
  <2>4. usb'[t] = u /\ \A s \in Xfers \ {t} : usb'[s] = usb[s]
    BY <2>3 DEF Give
  <2>5. status'[t] = usb[t] /\ \A s \in Xfers \ {t} : status'[s] = status[s]
    BY <1>8 DEF Dispatch, TypeOK
  <2>6. taken = 0
    BY <2>1 DEF TypeOK, Xfers, Outcomes
  <2>7. async_status' = "RUNNING"
          => u = "inflight" \/ usb[t] \in {"ERROR", "OTHER"}
    <3> SUFFICES ASSUME async_status' = "RUNNING"
                 PROVE  u = "inflight" \/ usb[t] \in {"ERROR", "OTHER"}
      OBVIOUS
    <3>1. usb[t] # "CANCELLED"
      BY <2>2
    <3>2. Give(t, "inflight") \/ usb[t] \in {"ERROR", "OTHER"}
      BY <2>1, <3>1, CallbackServes
    <3> QED
      BY <2>4, <3>2 DEF Give
  <2> QED
    BY <2>1, <2>2, <2>4, <2>5, <2>6, <2>7
<1>9. CASE CancelTransfer
  <2>1. async_status = "CANCELING" /\ async_status' = "CANCELING"
        /\ rpc' = "drain" /\ rpc = "pass" /\ status' = status
        /\ setter' = setter /\ taken' = taken
    BY <1>9 DEF CancelTransfer, setting
  <2> QED
    BY <2>1
<1>10. CASE FreeReturn
  BY <1>10 DEF FreeReturn
<1> QED
  BY <1>1, <1>2, <1>3, <1>4, <1>5, <1>6, <1>7, <1>8, <1>9, <1>10
  DEF ReaderStep, HandlingReturns

(* Until it is cancelled, a stream keeps every one of its transfers with    *)
(* libusb but for those that ended with an error, however the completions   *)
(* interleave with the cancellers, when no resubmission fails.              *)
THEOREM PipelineFull ==
  ASSUME "resubmit" \notin Faults
  PROVE  Spec => []FullPipeline
<1>1. Init => PipelineInv
  BY DEF Init, PipelineInv, FullPipeline
<1>2. TypeOK /\ IndexOK /\ PipelineInv /\ [Next]_vars => PipelineInv'
  <2> SUFFICES ASSUME TypeOK, IndexOK, PipelineInv, [Next]_vars
               PROVE  PipelineInv'
    OBVIOUS
  <2>1. CASE UNCHANGED vars
    BY <2>1 DEF vars, PipelineInv, FullPipeline, Served, Held
  <2> QED
    BY <2>1, PipelineOutside, PipelineReader, PipelineSetter DEF Next
<1>3. PipelineInv => FullPipeline
  BY DEF PipelineInv
<1> QED
  BY <1>1, <1>2, <1>3, TypeCorrect, PTL DEF Spec
----------------------------------------------------------------------------
(* With one source of cancellation - one cancelling thread, or the client's *)
(* callback - and a device that stays, a stream ends as the callers of the  *)
(* library expect.  Transfers may still time out or stall, submitting them  *)
(* again may fail, signals may interrupt the handling of events and aborts  *)
(* may be late.                                                             *)
OneSource ==
  /\ \A c, d \in Cancellers : c = d
  /\ CallbackCancels => Cancellers = {}

Healthy == Faults \subseteq {"resubmit", "OTHER", "interrupted", "late_abort"}

(* ReadyAgain needs the reader to leave INACTIVE behind: past the pass      *)
(* nothing is left to come back for, as no error has marked the device      *)
(* lost, and nobody who found the stream running is left to write CANCELING.*)
ReadyInv ==
  /\ ~ dev_lost /\ xfer_errors = 0
  /\ \A t \in Xfers : usb[t] \notin {"ERROR", "NO_DEVICE"}
  /\ setter \notin {"ERROR", "NO_DEVICE"}
  /\ ReadyAgain
  /\ rpc \in {"pass", "drain", "final", "free"} => async_status = "CANCELING"
  /\ rpc \in {"final", "free"} => next_status = "INACTIVE"
  /\ \A c \in Cancellers : cpc[c] = "checked" => async_status = "RUNNING"

(* What a callback may do to a stream that nobody else cancels.             *)
LEMMA CallbackHealthy ==
  ASSUME TypeOK, OneSource, Healthy, ReadyInv,
         NEW t, NEW outcome \in Outcomes \ {"ERROR", "NO_DEVICE"},
         Callback(t, outcome)
  PROVE  /\ dev_lost' = dev_lost /\ xfer_errors' = 0
         /\ \E u \in {"idle", "inflight"} : Give(t, u)
         /\ \/ async_status' = async_status
            \/ /\ async_status = "RUNNING" /\ async_status' = "CANCELING"
               /\ Cancellers = {}
<1>1. CASE outcome = "COMPLETED"
  BY <1>1 DEF Callback, Resubmit, CancelFromReader, OneSource
<1>2. CASE outcome = "OTHER"
  BY <1>2, BufNumAssumption DEF Callback, Failed, ReadyInv
<1>3. CASE outcome = "CANCELLED"
  BY <1>3 DEF Callback, Cancelled, ReadyInv
<1> QED
  BY <1>1, <1>2, <1>3 DEF Outcomes

LEMMA ReadyStep ==
  ASSUME TypeOK, IndexOK, StatusOwner, OneSource, Healthy, ReadyInv, [Next]_vars
  PROVE  ReadyInv'
<1> USE DEF ReadyInv, ReadyAgain
<1>1. CASE ReadEnter \/ Prepare
  BY <1>1 DEF ReadEnter, Prepare, transfers, setting, StatusOwner
<1>2. CASE Submit
  BY <1>2 DEF Submit, TypeOK, IndexOK, setting
<1>3. CASE SubmitFails
  BY <1>3 DEF SubmitFails, Healthy
<1>4. CASE EnterEvents \/ EventsReturn \/ DrainReturn \/ FinalReturn
  BY <1>4 DEF EnterEvents, EventsReturn, DrainReturn, FinalReturn, transfers, setting
<1>5. CASE EventsFail
  BY <1>5 DEF EventsFail, Healthy, transfers, setting
<1>6. ASSUME NEW t \in Xfers, Dispatch(t) PROVE ReadyInv'
  <2>1. /\ usb[t] \in Outcomes \ {"ERROR", "NO_DEVICE"} /\ Callback(t, usb[t])
        /\ rpc' = rpc /\ next_status' = next_status /\ cpc' = cpc
        /\ setter' = setter /\ rpc # "idle"
    BY <1>6 DEF Dispatch, Pending, Handling, setting
  <2>2. /\ dev_lost' = dev_lost /\ xfer_errors' = 0
        /\ \E u \in {"idle", "inflight"} : Give(t, u)
        /\ \/ async_status' = async_status
           \/ /\ async_status = "RUNNING" /\ async_status' = "CANCELING"
              /\ Cancellers = {}
    BY <2>1, CallbackHealthy
  <2>3. \A s \in Xfers : usb'[s] \notin {"ERROR", "NO_DEVICE"}
    BY <2>2 DEF Give
  <2> QED
    BY <2>1, <2>2, <2>3
<1>7. CASE CheckCanceling \/ SkipCancelled \/ PassEnd
  BY <1>7 DEF CheckCanceling, SkipCancelled, PassEnd, transfers, setting, StatusOwner
<1>8. CASE CancelTransfer
  BY <1>8 DEF CancelTransfer, TypeOK, setting
<1>9. CASE FreeReturn
  <2>1. async_status = "CANCELING" /\ async_status' = "INACTIVE"
    BY <1>9 DEF FreeReturn
  <2> QED
    BY <1>9, <2>1 DEF FreeReturn
<1>10. ASSUME NEW c \in Cancellers, CancelCheck(c) \/ CancellerStep(c)
       PROVE  ReadyInv'
  <2>1. \A d \in Cancellers : d = c
    BY DEF OneSource
  <2>2. CASE CancelCheck(c)
    BY <1>10, <2>2 DEF CancelCheck, TypeOK, reader, transfers, setting
  <2>3. CASE CancelWrite(c)
    BY <1>10, <2>1, <2>3, StatusTypes DEF CancelWrite, TypeOK, reader, transfers, setting
  <2>4. CASE CancelFlag(c)
    BY <1>10, <2>1, <2>4 DEF CancelFlag, TypeOK, reader, transfers, setting
  <2> QED
    BY <1>10, <2>2, <2>3, <2>4 DEF CancellerStep
<1>11. CASE CloseBegin \/ CloseSpin
  BY <1>11 DEF CloseBegin, CloseSpin, reader, transfers, setting
<1>12. ASSUME NEW t \in Xfers, Complete(t) \/ AbortLands(t) PROVE ReadyInv'
  <2>1. /\ rpc' = rpc /\ next_status' = next_status /\ cpc' = cpc
        /\ async_status' = async_status /\ dev_lost' = dev_lost
        /\ xfer_errors' = xfer_errors /\ setter' = setter
    BY <1>12 DEF Complete, AbortLands, reader, setting
  <2>2. \A s \in Xfers : usb'[s] \notin {"ERROR", "NO_DEVICE"}
    BY <1>12 DEF Complete, AbortLands, Healthy, Outcomes, TypeOK
  <2> QED
    BY <2>1, <2>2
<1>13. ASSUME NEW t \in Xfers, SetterTakes(t) PROVE ReadyInv'
  BY <1>13 DEF SetterTakes, TypeOK
<1>14. CASE SetterReturns
  <2>1. /\ setter \in Outcomes \ {"ERROR", "NO_DEVICE"} /\ Callback(taken, setter)
        /\ rpc' = rpc /\ next_status' = next_status /\ cpc' = cpc
        /\ setter' = "none"
    BY <1>14 DEF SetterReturns, TypeOK
  <2>2. /\ dev_lost' = dev_lost /\ xfer_errors' = 0
        /\ \E u \in {"idle", "inflight"} : Give(taken, u)
        /\ \/ async_status' = async_status
           \/ /\ async_status = "RUNNING" /\ async_status' = "CANCELING"
              /\ Cancellers = {}
    BY <2>1, CallbackHealthy
  <2>3. \A s \in Xfers : usb'[s] \notin {"ERROR", "NO_DEVICE"}
    BY <2>2 DEF Give
  <2> QED
    BY <2>1, <2>2, <2>3
<1>15. CASE UNCHANGED vars
  BY <1>15 DEF vars
<1> QED
  BY <1>1, <1>2, <1>3, <1>4, <1>5, <1>6, <1>7, <1>8, <1>9, <1>10, <1>11,
     <1>12, <1>13, <1>14, <1>15
  DEF Next, ReaderStep, HandlingReturns

LEMMA ReadyAlways == ASSUME OneSource, Healthy PROVE Spec => []ReadyInv
<1>1. Init => ReadyInv
  BY DEF Init, ReadyInv, ReadyAgain
<1> QED
  BY <1>1, ReadyStep, TypeCorrect, StatusOwned, PTL DEF Spec

(* A device whose stream has been cancelled can stream again, however many  *)
(* transfers there are and however the cancel meets their completions.      *)
THEOREM AlwaysReadyAgain ==
  ASSUME OneSource, Healthy
  PROVE  Spec => []ReadyAgain
<1>1. ReadyInv => ReadyAgain
  BY DEF ReadyInv
<1> QED
  BY <1>1, ReadyAlways, PTL

(* Every step of the four threads is a step of the interface of StreamApi   *)
(* or changes nothing that can be seen there: a read begins on an open      *)
(* device without a stream, is cancelled once, and returns only after that; *)
(* a close finishes when there is no stream.                                *)
THEOREM ApiImplemented ==
  ASSUME OneSource, Healthy
  PROVE  Spec => Api!ApiInit /\ [][Api!ApiNext]_(Api!apiVars)
<1>1. Init => Api!ApiInit
  BY DEF Init, Api!ApiInit
<1>2. TypeOK /\ IndexOK /\ StatusOwner /\ ReadyInv /\ [Next]_vars => [Api!ApiNext]_(Api!apiVars)
  <2> SUFFICES ASSUME TypeOK, IndexOK, StatusOwner, ReadyInv, [Next]_vars
               PROVE  Api!ApiNext \/ UNCHANGED Api!apiVars
    OBVIOUS
  <2> DEFINE Stays == async_status' = async_status /\ closer' = closer
             Cancels == async_status = "RUNNING" /\ async_status' = "CANCELING"
                        /\ closer' = closer
  <2>1. Stays => UNCHANGED Api!apiVars
    BY DEF Api!apiVars
  <2>2. Cancels => Api!ApiNext
    BY DEF Api!ApiNext, Api!Cancel
  <2>3. CASE ReadEnter
    BY <2>3 DEF ReadEnter, Api!ApiNext, Api!Begin
  <2>4. CASE FreeReturn
    BY <2>4 DEF FreeReturn, ReadyInv, Api!ApiNext, Api!Return
  <2>5. CASE CloseBegin
    BY <2>5 DEF CloseBegin, ReadyInv, Api!ApiNext, Api!Close
  <2>6. CASE CloseSpin
    BY <2>6 DEF CloseSpin, Api!ApiNext, Api!Closed
  <2>7. ASSUME NEW c \in Cancellers, CancelCheck(c) \/ CancellerStep(c)
        PROVE  Stays \/ Cancels
    BY <2>7 DEF CancelCheck, CancellerStep, CancelWrite, CancelFlag, ReadyInv
  <2>8. ASSUME NEW t \in Xfers, Dispatch(t) PROVE Stays \/ Cancels
    <3>1. usb[t] \in Outcomes \ {"ERROR", "NO_DEVICE"} /\ Callback(t, usb[t])
          /\ closer' = closer
      BY <2>8 DEF Dispatch, Pending, ReadyInv
    <3> QED
      BY <3>1, CallbackHealthy
  <2>9. CASE SetterReturns
    <3>1. setter \in Outcomes \ {"ERROR", "NO_DEVICE"} /\ Callback(taken, setter)
          /\ closer' = closer
      BY <2>9 DEF SetterReturns, TypeOK, ReadyInv
    <3>2. Stays \/ Cancels
      BY <3>1, CallbackHealthy
    <3> QED
      BY <2>1, <2>2, <3>2
  <2>10. CASE SubmitFails
    BY <2>10 DEF SubmitFails, Healthy
  <2>11. CASE Prepare \/ Submit \/ EnterEvents \/ EventsFail \/ HandlingReturns
              \/ CheckCanceling \/ SkipCancelled \/ CancelTransfer \/ PassEnd
    <3>1. Stays
      BY <2>11
      DEF Prepare, Submit, EnterEvents, EventsFail, HandlingReturns,
          EventsReturn, DrainReturn, FinalReturn, CheckCanceling,
          SkipCancelled, CancelTransfer, PassEnd
    <3> QED
      BY <2>1, <3>1
  <2>12. ASSUME NEW t \in Xfers, SetterTakes(t) \/ Complete(t) \/ AbortLands(t)
         PROVE  Stays
    BY <2>12 DEF SetterTakes, Complete, AbortLands
  <2>13. CASE UNCHANGED vars
    BY <2>1, <2>13 DEF vars
  <2> HIDE DEF Stays, Cancels
  <2> QED
    BY <2>1, <2>2, <2>3, <2>4, <2>5, <2>6, <2>7, <2>8, <2>9, <2>10, <2>11,
       <2>12, <2>13
    DEF Next, ReaderStep
<1> QED
  BY <1>1, <1>2, ReadyAlways, TypeCorrect, StatusOwned, PTL DEF Spec
============================================================================
