---------------------------- MODULE RtlFmProofs ------------------------------
(***************************************************************************)
(* The threads of rtl_fm, for any number of channels: who holds a lock is  *)
(* a matter of where it is, so that each buffer is whole whenever another  *)
(* thread may read it; and main passes from one thread to the next only    *)
(* over those that are done.                                               *)
(***************************************************************************)
EXTENDS RtlFm, TLAPS

Threads == {"callback", "demod", "output", "controller", "main"}

Places == {"idle", "top", "wait", "lock", "copy", "copied", "signal", "done",
           "demod", "hop", "out", "write", "loop", "callback", "output",
           "controller", "close", "closed"}

(* Only a thread that is at "wait" is inside pthread_cond_wait.             *)
PcInv ==
  /\ pc \in [Threads -> Places]
  /\ waiting \subseteq {"demod", "output", "controller"}
  /\ \A t \in waiting : pc[t] = "wait"

(* A lock is held exactly from the step that takes it to the one that gives *)
(* it back.                                                                 *)
LockInv ==
  /\ lock \in [{"demod", "output"} -> {Free, "callback", "demod", "output"}]
  /\ lock["demod"] = "callback" <=> pc["callback"] \in {"copy", "copied"}
  /\ lock["demod"] = "demod" <=> pc["demod"] = "demod"
  /\ lock["output"] = "demod" <=> pc["demod"] \in {"copy", "copied"}
  /\ lock["output"] = "output" <=> pc["output"] = "write"

Wholes == {Whole(0), Whole(1)}

(* A buffer is torn only between the two halves of its copy.                *)
BufferInv ==
  /\ lowpassed \in {0, 1} \X {0, 1} /\ written \in {0, 1} \X {0, 1}
  /\ pc["callback"] # "copied" => lowpassed \in Wholes
  /\ pc["demod"] # "copied" => written \in Wholes
  /\ pc["demod"] = "copied" => written[1] = result[1]
  /\ result \in Wholes /\ last \in Wholes

(* main has passed the threads that are done.                               *)
JoinInv ==
  /\ pc["main"] \in {"loop", "callback", "demod", "output", "controller",
                     "close", "closed"}
  /\ pc["main"] \in {"demod", "output", "controller", "close", "closed"}
       => pc["callback"] = "done"
  /\ pc["main"] \in {"output", "controller", "close", "closed"} => pc["demod"] = "done"
  /\ pc["main"] \in {"controller", "close", "closed"} => pc["output"] = "done"
  /\ pc["main"] \in {"close", "closed"} => pc["controller"] = "done"

(* A thread that does not wait goes on to another place.                    *)
LEMMA GotoKeeps ==
  ASSUME PcInv, NEW t \in Threads, NEW l \in Places,
         pc' = [pc EXCEPT ![t] = l], waiting' \subseteq waiting, t \notin waiting'
  PROVE  PcInv'
<1>1. pc' \in [Threads -> Places]
  BY DEF PcInv
<1>2. \A s \in waiting' : s \in Threads /\ s # t /\ pc[s] = "wait"
  BY DEF PcInv, Threads
<1>3. \A s \in waiting' : pc'[s] = "wait"
  BY <1>2 DEF PcInv
<1> QED BY <1>1, <1>3 DEF PcInv

(* A thread that does not wait wakes another.                               *)
LEMMA SignalKeeps ==
  ASSUME PcInv, NEW t \in Threads, NEW from \in Threads, NEW l \in Places,
         from \notin waiting, from # t, Signal(t, from, l)
  PROVE  PcInv'
<1>0. AfterWait(t) \in Places
  BY DEF AfterWait, Places
<1>1. pc' \in [Threads -> Places]
  BY <1>0 DEF PcInv, Signal
<1>2. \A s \in waiting' : s \in Threads /\ s # t /\ s # from /\ pc[s] = "wait"
  BY DEF PcInv, Threads, Signal
<1>3. \A s \in waiting' : pc'[s] = "wait"
  BY <1>2 DEF PcInv, Signal
<1>4. waiting' \subseteq waiting
  BY DEF Signal
<1> QED BY <1>1, <1>3, <1>4 DEF PcInv

(* Every step is one of these two, or starts or spuriously ends a wait.     *)
LEMMA PcKept ==
  ASSUME PcInv, Next PROVE PcInv'
<1> USE DEF Threads, Workers, Places
<1>1. CASE StartStream
  BY <1>1 DEF StartStream, PcInv
<1>2. CASE BlockArrives
  <2>1. pc["callback"] # "wait"
    BY <1>2 DEF BlockArrives
  <2> QED BY <1>2, <2>1, GotoKeeps DEF BlockArrives, Goto, PcInv
<1>3. CASE CallbackLock
  <2>1. pc["callback"] # "wait"
    BY <1>3 DEF CallbackLock
  <2> QED BY <1>3, <2>1, GotoKeeps DEF CallbackLock, Goto, PcInv
<1>4. CASE CopyHalf
  <2>1. pc["callback"] # "wait"
    BY <1>4 DEF CopyHalf
  <2> QED BY <1>4, <2>1, GotoKeeps DEF CopyHalf, Goto, PcInv
<1>5. CASE CopyRest
  <2>1. pc["callback"] # "wait"
    BY <1>5 DEF CopyRest
  <2> QED BY <1>5, <2>1, GotoKeeps DEF CopyRest, Goto, PcInv
<1>6. CASE CallbackSignal
  BY <1>6, SignalKeeps DEF CallbackSignal, PcInv
<1>7. CASE StreamEnds
  <2>1. pc["callback"] # "wait"
    BY <1>7 DEF StreamEnds
  <2> QED BY <1>7, <2>1, GotoKeeps DEF StreamEnds, Goto, PcInv
<1>8. CASE LoseDevice
  <2>1. pc["callback"] # "wait"
    BY <1>8 DEF LoseDevice
  <2> QED BY <1>8, <2>1, GotoKeeps DEF LoseDevice, Goto, PcInv
<1>9. CASE Top("demod")
  <2>1. pc["demod"] # "wait"
    BY <1>9 DEF Top
  <2>2. CASE do_exit
    BY <1>9, <2>1, <2>2, GotoKeeps DEF Top, Goto, PcInv
  <2>3. CASE ~do_exit
    BY <1>9, <2>1, <2>3, GotoKeeps DEF Top, Goto, PcInv
  <2> QED BY <2>2, <2>3
<1>10. CASE Wait("demod")
  BY <1>10 DEF Wait, PcInv
<1>11. CASE DemodLock
  <2>1. pc["demod"] # "wait"
    BY <1>11 DEF DemodLock
  <2> QED BY <1>11, <2>1, GotoKeeps DEF DemodLock, Goto, PcInv
<1>12. CASE FullDemod
  <2>1. pc["demod"] # "wait"
    BY <1>12 DEF FullDemod
  <2> QED BY <1>12, <2>1, GotoKeeps DEF FullDemod, Goto, PcInv
<1>13. CASE AskForHop
  BY <1>13, SignalKeeps DEF AskForHop, PcInv
<1>14. CASE OutLock
  <2>1. pc["demod"] # "wait"
    BY <1>14 DEF OutLock
  <2> QED BY <1>14, <2>1, GotoKeeps DEF OutLock, Goto, PcInv
<1>15. CASE OutHalf
  <2>1. pc["demod"] # "wait"
    BY <1>15 DEF OutHalf
  <2> QED BY <1>15, <2>1, GotoKeeps DEF OutHalf, Goto, PcInv
<1>16. CASE OutRest
  <2>1. pc["demod"] # "wait"
    BY <1>16 DEF OutRest
  <2> QED BY <1>16, <2>1, GotoKeeps DEF OutRest, Goto, PcInv
<1>17. CASE DemodSignal
  BY <1>17, SignalKeeps DEF DemodSignal, PcInv
<1>18. CASE Top("output")
  <2>1. pc["output"] # "wait"
    BY <1>18 DEF Top
  <2>2. CASE do_exit
    BY <1>18, <2>1, <2>2, GotoKeeps DEF Top, Goto, PcInv
  <2>3. CASE ~do_exit
    BY <1>18, <2>1, <2>3, GotoKeeps DEF Top, Goto, PcInv
  <2> QED BY <2>2, <2>3
<1>19. CASE Wait("output")
  BY <1>19 DEF Wait, PcInv
<1>20. CASE OutputLock
  <2>1. pc["output"] # "wait"
    BY <1>20 DEF OutputLock
  <2> QED BY <1>20, <2>1, GotoKeeps DEF OutputLock, Goto, PcInv
<1>21. CASE OutputWrite
  <2>1. pc["output"] # "wait"
    BY <1>21 DEF OutputWrite
  <2> QED BY <1>21, <2>1, GotoKeeps DEF OutputWrite, Goto, PcInv
<1>22. CASE Top("controller")
  <2>1. pc["controller"] # "wait"
    BY <1>22 DEF Top
  <2>2. CASE do_exit
    BY <1>22, <2>1, <2>2, GotoKeeps DEF Top, Goto, PcInv
  <2>3. CASE ~do_exit
    BY <1>22, <2>1, <2>3, GotoKeeps DEF Top, Goto, PcInv
  <2> QED BY <2>2, <2>3
<1>23. CASE Wait("controller")
  BY <1>23 DEF Wait, PcInv
<1>24. CASE Hop
  <2>1. pc["controller"] # "wait"
    BY <1>24 DEF Hop
  <2> QED BY <1>24, <2>1, GotoKeeps DEF Hop, Goto, PcInv
<1>25. CASE SigHandler
  BY <1>25 DEF SigHandler, PcInv
<1>26. CASE Cancel
  <2>1. pc["main"] # "wait"
    BY <1>26 DEF Cancel
  <2> QED BY <1>26, <2>1, GotoKeeps DEF Cancel, Goto, PcInv
<1>27. CASE \E t \in Workers : Join(t)
  <2>1. PICK t \in Workers : Join(t)
    BY <1>27
  <2>2. pc["main"] = t /\ "main" \notin waiting
    BY <2>1 DEF Join, PcInv
  <2>3. CASE t = "controller"
    BY <2>1, <2>2, <2>3, GotoKeeps DEF Join, NextOf, Goto, PcInv
  <2>4. CASE t # "controller"
    <3>1. NextOf[t] \in {"demod", "output", "controller"}
      BY <2>4 DEF NextOf
    <3>2. Signal(NextOf[t], "main", NextOf[t])
      BY <2>1, <3>1 DEF Join
    <3> QED BY <2>2, <3>1, <3>2, SignalKeeps
  <2> QED BY <2>3, <2>4
<1>28. CASE Close
  <2>1. pc["main"] # "wait"
    BY <1>28 DEF Close
  <2> QED BY <1>28, <2>1, GotoKeeps DEF Close, Goto, PcInv
<1>29. CASE \E t \in Workers : Spurious(t)
  <2>1. PICK t \in Workers : Spurious(t)
    BY <1>29
  <2>2. AfterWait(t) \in Places /\ t \in waiting
    BY <2>1 DEF Spurious, AfterWait
  <2>3. pc' = [pc EXCEPT ![t] = AfterWait(t)] /\ waiting' = waiting \ {t}
    BY <2>1 DEF Spurious, Wake
  <2> QED BY <2>2, <2>3, GotoKeeps
<1> QED
  BY <1>1, <1>2, <1>3, <1>4, <1>5, <1>6, <1>7, <1>8, <1>9, <1>10, <1>11,
     <1>12, <1>13, <1>14, <1>15, <1>16, <1>17, <1>18, <1>19, <1>20, <1>21,
     <1>22, <1>23, <1>24, <1>25, <1>26, <1>27, <1>28, <1>29
  DEF Next, Callback, Demod, Output, Controller, Main

(* Taking and giving back go with the step of the thread that does it.      *)
LEMMA LocksKept ==
  ASSUME PcInv, LockInv, Next PROVE LockInv'
<1> USE DEF Threads, Workers, Places, PcInv, LockInv, Free, locks
<1>1. CASE StartStream
  BY <1>1 DEF StartStream
<1>2. CASE BlockArrives
  BY <1>2 DEF BlockArrives, Goto
<1>3. CASE CallbackLock
  BY <1>3 DEF CallbackLock, Goto, Take
<1>4. CASE CopyHalf
  BY <1>4 DEF CopyHalf, Goto
<1>5. CASE CopyRest
  BY <1>5 DEF CopyRest, Goto, Give
<1>6. CASE CallbackSignal
  BY <1>6 DEF CallbackSignal, Signal, AfterWait
<1>7. CASE StreamEnds
  BY <1>7 DEF StreamEnds, Goto
<1>8. CASE LoseDevice
  BY <1>8 DEF LoseDevice, Goto
<1>9. CASE Top("demod")
  BY <1>9 DEF Top, Goto
<1>10. CASE Wait("demod")
  BY <1>10 DEF Wait
<1>11. CASE DemodLock
  BY <1>11 DEF DemodLock, Goto, Take
<1>12. CASE FullDemod
  BY <1>12 DEF FullDemod, Goto, Give
<1>13. CASE AskForHop
  BY <1>13 DEF AskForHop, Signal, AfterWait
<1>14. CASE OutLock
  BY <1>14 DEF OutLock, Goto, Take
<1>15. CASE OutHalf
  BY <1>15 DEF OutHalf, Goto
<1>16. CASE OutRest
  BY <1>16 DEF OutRest, Goto, Give
<1>17. CASE DemodSignal
  BY <1>17 DEF DemodSignal, Signal, AfterWait
<1>18. CASE Top("output")
  BY <1>18 DEF Top, Goto
<1>19. CASE Wait("output")
  BY <1>19 DEF Wait
<1>20. CASE OutputLock
  BY <1>20 DEF OutputLock, Goto, Take
<1>21. CASE OutputWrite
  BY <1>21 DEF OutputWrite, Goto, Give
<1>22. CASE Top("controller")
  BY <1>22 DEF Top, Goto
<1>23. CASE Wait("controller")
  BY <1>23 DEF Wait
<1>24. CASE Hop
  BY <1>24 DEF Hop, Goto
<1>25. CASE SigHandler
  BY <1>25 DEF SigHandler
<1>26. CASE Cancel
  BY <1>26 DEF Cancel, Goto
<1>27. CASE \E t \in Workers : Join(t)
  BY <1>27 DEF Join, Goto, Signal, NextOf, AfterWait
<1>28. CASE Close
  BY <1>28 DEF Close, Goto
<1>29. CASE \E t \in Workers : Spurious(t)
  BY <1>29 DEF Spurious, AfterWait, Wake
<1> QED
  BY <1>1, <1>2, <1>3, <1>4, <1>5, <1>6, <1>7, <1>8, <1>9, <1>10, <1>11,
     <1>12, <1>13, <1>14, <1>15, <1>16, <1>17, <1>18, <1>19, <1>20, <1>21,
     <1>22, <1>23, <1>24, <1>25, <1>26, <1>27, <1>28, <1>29
  DEF Next, Callback, Demod, Output, Controller, Main

(* No thread reads a buffer that another is in the middle of.               *)
LEMMA BuffersKept ==
  ASSUME PcInv, LockInv, BufferInv, Next PROVE BufferInv'
<1> USE DEF Threads, Workers, PcInv, LockInv, BufferInv, Wholes, Whole, Free,
            buffers
<1>1. CASE StartStream
  BY <1>1 DEF StartStream
<1>2. CASE BlockArrives
  BY <1>2 DEF BlockArrives, Goto
<1>3. CASE CallbackLock
  BY <1>3 DEF CallbackLock, Goto, Take
<1>4. CASE CopyHalf
  BY <1>4 DEF CopyHalf, Goto
<1>5. CASE CopyRest
  BY <1>5 DEF CopyRest, Goto, Give
<1>6. CASE CallbackSignal
  BY <1>6 DEF CallbackSignal, Signal, AfterWait
<1>7. CASE StreamEnds
  BY <1>7 DEF StreamEnds, Goto
<1>8. CASE LoseDevice
  BY <1>8 DEF LoseDevice, Goto
<1>9. CASE Top("demod")
  BY <1>9 DEF Top, Goto
<1>10. CASE Wait("demod")
  BY <1>10 DEF Wait
<1>11. CASE DemodLock
  BY <1>11 DEF DemodLock, Goto, Take
<1>12. CASE FullDemod
  BY <1>12 DEF FullDemod, Goto, Give
<1>13. CASE AskForHop
  BY <1>13 DEF AskForHop, Signal, AfterWait
<1>14. CASE OutLock
  BY <1>14 DEF OutLock, Goto, Take
<1>15. CASE OutHalf
  BY <1>15 DEF OutHalf, Goto
<1>16. CASE OutRest
  BY <1>16 DEF OutRest, Goto, Give
<1>17. CASE DemodSignal
  BY <1>17 DEF DemodSignal, Signal, AfterWait
<1>18. CASE Top("output")
  BY <1>18 DEF Top, Goto
<1>19. CASE Wait("output")
  BY <1>19 DEF Wait
<1>20. CASE OutputLock
  BY <1>20 DEF OutputLock, Goto, Take
<1>21. CASE OutputWrite
  BY <1>21 DEF OutputWrite, Goto, Give
<1>22. CASE Top("controller")
  BY <1>22 DEF Top, Goto
<1>23. CASE Wait("controller")
  BY <1>23 DEF Wait
<1>24. CASE Hop
  BY <1>24 DEF Hop, Goto
<1>25. CASE SigHandler
  BY <1>25 DEF SigHandler
<1>26. CASE Cancel
  BY <1>26 DEF Cancel, Goto
<1>27. CASE \E t \in Workers : Join(t)
  BY <1>27 DEF Join, Goto, Signal, NextOf, AfterWait
<1>28. CASE Close
  BY <1>28 DEF Close, Goto
<1>29. CASE \E t \in Workers : Spurious(t)
  BY <1>29 DEF Spurious, AfterWait, Wake
<1> QED
  BY <1>1, <1>2, <1>3, <1>4, <1>5, <1>6, <1>7, <1>8, <1>9, <1>10, <1>11,
     <1>12, <1>13, <1>14, <1>15, <1>16, <1>17, <1>18, <1>19, <1>20, <1>21,
     <1>22, <1>23, <1>24, <1>25, <1>26, <1>27, <1>28, <1>29
  DEF Next, Callback, Demod, Output, Controller, Main

(* A thread that is done stays done, and main waits for it.                 *)
LEMMA JoinsKept ==
  ASSUME PcInv, JoinInv, Next PROVE JoinInv'
<1> USE DEF Threads, Workers, PcInv, JoinInv
<1>1. CASE StartStream
  BY <1>1 DEF StartStream
<1>2. CASE BlockArrives
  BY <1>2 DEF BlockArrives, Goto
<1>3. CASE CallbackLock
  BY <1>3 DEF CallbackLock, Goto, Take
<1>4. CASE CopyHalf
  BY <1>4 DEF CopyHalf, Goto
<1>5. CASE CopyRest
  BY <1>5 DEF CopyRest, Goto, Give
<1>6. CASE CallbackSignal
  BY <1>6 DEF CallbackSignal, Signal, AfterWait
<1>7. CASE StreamEnds
  BY <1>7 DEF StreamEnds, Goto
<1>8. CASE LoseDevice
  BY <1>8 DEF LoseDevice, Goto
<1>9. CASE Top("demod")
  BY <1>9 DEF Top, Goto
<1>10. CASE Wait("demod")
  BY <1>10 DEF Wait
<1>11. CASE DemodLock
  BY <1>11 DEF DemodLock, Goto, Take
<1>12. CASE FullDemod
  BY <1>12 DEF FullDemod, Goto, Give
<1>13. CASE AskForHop
  BY <1>13 DEF AskForHop, Signal, AfterWait
<1>14. CASE OutLock
  BY <1>14 DEF OutLock, Goto, Take
<1>15. CASE OutHalf
  BY <1>15 DEF OutHalf, Goto
<1>16. CASE OutRest
  BY <1>16 DEF OutRest, Goto, Give
<1>17. CASE DemodSignal
  BY <1>17 DEF DemodSignal, Signal, AfterWait
<1>18. CASE Top("output")
  BY <1>18 DEF Top, Goto
<1>19. CASE Wait("output")
  BY <1>19 DEF Wait
<1>20. CASE OutputLock
  BY <1>20 DEF OutputLock, Goto, Take
<1>21. CASE OutputWrite
  BY <1>21 DEF OutputWrite, Goto, Give
<1>22. CASE Top("controller")
  BY <1>22 DEF Top, Goto
<1>23. CASE Wait("controller")
  BY <1>23 DEF Wait
<1>24. CASE Hop
  BY <1>24 DEF Hop, Goto
<1>25. CASE SigHandler
  BY <1>25 DEF SigHandler
<1>26. CASE Cancel
  BY <1>26 DEF Cancel, Goto
<1>27. CASE \E t \in Workers : Join(t)
  BY <1>27 DEF Join, Goto, Signal, NextOf, AfterWait
<1>28. CASE Close
  BY <1>28 DEF Close, Goto
<1>29. CASE \E t \in Workers : Spurious(t)
  BY <1>29 DEF Spurious, AfterWait, Wake
<1> QED
  BY <1>1, <1>2, <1>3, <1>4, <1>5, <1>6, <1>7, <1>8, <1>9, <1>10, <1>11,
     <1>12, <1>13, <1>14, <1>15, <1>16, <1>17, <1>18, <1>19, <1>20, <1>21,
     <1>22, <1>23, <1>24, <1>25, <1>26, <1>27, <1>28, <1>29
  DEF Next, Callback, Demod, Output, Controller, Main

(* The inductive invariant.                                                 *)
FmInv == PcInv /\ LockInv /\ BufferInv /\ JoinInv

LEMMA FmInductive == Spec => []FmInv
<1>1. Init => FmInv
  BY DEF Init, FmInv, PcInv, LockInv, BufferInv, JoinInv, Wholes, Whole, Threads,
     Workers, Places, Free
<1>2. FmInv /\ [Next]_vars => FmInv'
  <2> SUFFICES ASSUME FmInv, [Next]_vars PROVE FmInv'
    OBVIOUS
  <2>1. CASE Next
    BY <2>1, PcKept, LocksKept, BuffersKept, JoinsKept DEF FmInv
  <2>2. CASE UNCHANGED vars
    BY <2>2 DEF FmInv, PcInv, LockInv, BufferInv, JoinInv, vars, locks, buffers
  <2> QED BY <2>1, <2>2
<1> QED BY <1>1, <1>2, PTL DEF Spec

(* What is demodulated and what is written to the file is never the half of *)
(* one block and the half of another.                                       *)
THEOREM NeverTorn == Spec => []NotTorn
<1>1. FmInv => NotTorn
  BY DEF FmInv, BufferInv, Wholes, NotTorn
<1> QED BY <1>1, FmInductive, PTL

(* The device is closed, and the locks destroyed, after every thread.       *)
THEOREM AlwaysClosedLast == Spec => []ClosedLast
<1>1. FmInv => ClosedLast
  BY DEF FmInv, JoinInv, ClosedLast, Workers
<1> QED BY <1>1, FmInductive, PTL
=============================================================================
