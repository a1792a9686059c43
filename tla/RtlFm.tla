-------------------------------- MODULE RtlFm --------------------------------
(* rtl_fm (rtl_fm.c): the callback hands a block to the demodulator, which   *)
(* hands its result to the writer and asks the controller for the next       *)
(* channel when it has been quiet for long enough; main ends them all.       *)
(* Blocks are told apart from their neighbours only (0 and 1 in turn), and a *)
(* buffer is a pair of halves, since it is filled by more than one store.    *)
EXTENDS Naturals

CONSTANTS Channels,      \* controller.freq_len
          ConseqSquelch  \* demod.conseq_squelch

ASSUME FmAssumption == Channels \in Nat \ {0} /\ ConseqSquelch \in Nat


Workers == {"callback", "demod", "output", "controller"}

VARIABLES pc,         \* where each thread is
          waiting,    \* the threads inside pthread_cond_wait
          do_exit,
          stream,     \* "off", "running", "cancelled" or "over"
          lock,       \* who holds demod.rw and output.rw
          lowpassed, result, written,   \* demod's input, its output, output.result
          last,       \* what output has written to the file last
          hits,       \* demod.squelch_hits
          freq_now    \* the channel; the device is tuned to it between two hops

locks   == <<lock>>
buffers == <<lowpassed, result, written, last>>
control == <<do_exit, stream>>
scan    == <<hits, freq_now>>
vars == <<pc, waiting, locks, buffers, control, scan>>

Free == "free"
Whole(b) == <<b, b>>
Goto(t, l) == pc' = [pc EXCEPT ![t] = l]

Init ==
  /\ pc = [t \in Workers \cup {"main"} |->
             CASE t = "main" -> "loop" [] t = "callback" -> "idle"
               [] OTHER -> "top"]
  /\ waiting = {} /\ do_exit = FALSE /\ stream = "off"
  /\ lock = [l \in {"demod", "output"} |-> Free]
  /\ lowpassed = Whole(0) /\ result = Whole(0) /\ written = Whole(0)
  /\ last = Whole(0) /\ hits = ConseqSquelch + 1 /\ freq_now = 0

------------------------------------------------------------------------------
(* safe_cond_wait and safe_cond_signal: no predicate is looked at, so a      *)
(* signal that finds nobody waiting is gone.  A wait may also end by itself. *)
Top(t) ==
  /\ pc[t] = "top"
  /\ Goto(t, IF do_exit THEN "done" ELSE "wait")
  /\ UNCHANGED <<waiting, locks, buffers, control, scan>>

Wait(t) ==
  /\ pc[t] = "wait" /\ t \notin waiting
  /\ waiting' = waiting \cup {t}
  /\ UNCHANGED <<pc, locks, buffers, control, scan>>

Wake(t, l) == IF t \in waiting THEN [pc EXCEPT ![t] = l] ELSE pc
AfterWait(t) == IF t = "controller" THEN "hop" ELSE "lock"

(* The signalling thread goes on at l.                                       *)
Signal(t, from, l) ==
  /\ pc' = [pc EXCEPT ![from] = l, ![t] = IF t \in waiting THEN AfterWait(t) ELSE @]
  /\ waiting' = waiting \ {t}

Spurious(t) ==
  /\ t \in waiting
  /\ pc' = Wake(t, AfterWait(t)) /\ waiting' = waiting \ {t}
  /\ UNCHANGED <<locks, buffers, control, scan>>

Take(l, t) == lock[l] = Free /\ lock' = [lock EXCEPT ![l] = t]
Give(l) == lock' = [lock EXCEPT ![l] = Free]

------------------------------------------------------------------------------
(* dongle_thread_fn and rtlsdr_callback.                                     *)
StartStream ==
  /\ pc["callback"] = "idle" /\ stream = "off" /\ stream' = "running"
  /\ UNCHANGED <<pc, waiting, locks, buffers, do_exit, scan>>

BlockArrives ==
  /\ pc["callback"] = "idle" /\ stream = "running" /\ ~do_exit
  /\ Goto("callback", "lock")
  /\ UNCHANGED <<waiting, locks, buffers, control, scan>>

CallbackLock ==
  /\ pc["callback"] = "lock" /\ Take("demod", "callback") /\ Goto("callback", "copy")
  /\ UNCHANGED <<waiting, buffers, control, scan>>

CopyHalf ==
  /\ pc["callback"] = "copy"
  /\ lowpassed' = [lowpassed EXCEPT ![1] = 1 - @]
  /\ Goto("callback", "copied")
  /\ UNCHANGED <<waiting, locks, result, written, last, control, scan>>

CopyRest ==
  /\ pc["callback"] = "copied"
  /\ lowpassed' = Whole(lowpassed[1])
  /\ Give("demod") /\ Goto("callback", "signal")
  /\ UNCHANGED <<waiting, result, written, last, control, scan>>

CallbackSignal ==
  /\ pc["callback"] = "signal" /\ Signal("demod", "callback", "idle")
  /\ UNCHANGED <<locks, buffers, control, scan>>

StreamEnds ==
  /\ pc["callback"] = "idle" /\ stream = "cancelled"
  /\ stream' = "over" /\ Goto("callback", "done")
  /\ UNCHANGED <<waiting, locks, buffers, do_exit, scan>>

(* The device is unplugged: rtlsdr_read_async returns, and nobody is told.   *)
LoseDevice ==
  /\ pc["callback"] = "idle" /\ stream = "running"
  /\ stream' = "over" /\ Goto("callback", "done")
  /\ UNCHANGED <<waiting, locks, buffers, do_exit, scan>>

Callback ==
  BlockArrives \/ CallbackLock \/ CopyHalf \/ CopyRest \/ CallbackSignal \/ StreamEnds

------------------------------------------------------------------------------
(* demod_thread_fn and the squelch of full_demod; exit_flag is never set.    *)
DemodLock ==
  /\ pc["demod"] = "lock" /\ Take("demod", "demod") /\ Goto("demod", "demod")
  /\ UNCHANGED <<waiting, buffers, control, scan>>

(* Mutant: "continue" leaves the loop's body with the lock held.             *)
FullDemod_KeepsLock ==
  \E quiet \in BOOLEAN :
    LET h == IF quiet THEN hits + 1 ELSE 0 IN
    /\ pc["demod"] = "demod"
    /\ result' = lowpassed
    /\ IF h > ConseqSquelch THEN UNCHANGED lock ELSE Give("demod")
    /\ hits' = IF h > ConseqSquelch THEN ConseqSquelch + 1 ELSE h
    /\ Goto("demod", IF h > ConseqSquelch THEN "hop" ELSE "out")
    /\ UNCHANGED <<waiting, lowpassed, written, last, control, freq_now>>

(* Mutant: the squelch opens only on the very block that is one too many.    *)
FullDemod_Once ==
  \E quiet \in BOOLEAN :
    LET h == IF quiet THEN hits + 1 ELSE 0 IN
    /\ pc["demod"] = "demod"
    /\ result' = lowpassed /\ Give("demod")
    /\ hits' = IF h > ConseqSquelch + 2 THEN ConseqSquelch + 2 ELSE h
    /\ Goto("demod", IF h = ConseqSquelch + 1 THEN "hop"
                     ELSE IF h > ConseqSquelch THEN "top" ELSE "out")
    /\ UNCHANGED <<waiting, lowpassed, written, last, control, freq_now>>

FullDemod ==
  \E quiet \in BOOLEAN :
    LET h == IF quiet THEN hits + 1 ELSE 0 IN
    /\ pc["demod"] = "demod"
    /\ result' = lowpassed /\ Give("demod")
    /\ hits' = IF h > ConseqSquelch THEN ConseqSquelch + 1 ELSE h
    /\ Goto("demod", IF h > ConseqSquelch THEN "hop" ELSE "out")
    /\ UNCHANGED <<waiting, lowpassed, written, last, control, freq_now>>

AskForHop ==
  /\ pc["demod"] = "hop" /\ Signal("controller", "demod", "top")
  /\ UNCHANGED <<locks, buffers, control, scan>>

OutLock ==
  /\ pc["demod"] = "out" /\ Take("output", "demod") /\ Goto("demod", "copy")
  /\ UNCHANGED <<waiting, buffers, control, scan>>

OutHalf ==
  /\ pc["demod"] = "copy" /\ Goto("demod", "copied")
  /\ written' = [written EXCEPT ![1] = result[1]]
  /\ UNCHANGED <<waiting, locks, lowpassed, result, last, control, scan>>

OutRest ==
  /\ pc["demod"] = "copied" /\ Goto("demod", "signal")
  /\ written' = [written EXCEPT ![2] = result[2]] /\ Give("output")
  /\ UNCHANGED <<waiting, lowpassed, result, last, control, scan>>

DemodSignal ==
  /\ pc["demod"] = "signal" /\ Signal("output", "demod", "top")
  /\ UNCHANGED <<locks, buffers, control, scan>>

Demod ==
  \/ Top("demod") \/ Wait("demod") \/ DemodLock \/ FullDemod \/ AskForHop
  \/ OutLock \/ OutHalf \/ OutRest \/ DemodSignal

------------------------------------------------------------------------------
(* Mutant: the result is written out without its lock.                       *)
OutputLock_None ==
  /\ pc["output"] = "lock" /\ Goto("output", "write")
  /\ UNCHANGED <<waiting, locks, buffers, control, scan>>

(* output_thread_fn.                                                         *)
OutputLock ==
  /\ pc["output"] = "lock" /\ Take("output", "output") /\ Goto("output", "write")
  /\ UNCHANGED <<waiting, buffers, control, scan>>

OutputWrite ==
  /\ pc["output"] = "write" /\ Goto("output", "top")
  /\ last' = written /\ Give("output")
  /\ UNCHANGED <<waiting, lowpassed, result, written, control, scan>>

Output == Top("output") \/ Wait("output") \/ OutputLock \/ OutputWrite

(* controller_thread_fn: one channel is never left.                          *)
Hop ==
  /\ pc["controller"] = "hop" /\ Goto("controller", "top")
  /\ freq_now' = (freq_now + 1) % Channels
  /\ UNCHANGED <<waiting, locks, buffers, control, hits>>

Controller == Top("controller") \/ Wait("controller") \/ Hop

------------------------------------------------------------------------------
(* rtlsdr_cancel_async does nothing to a stream that does not run.  A signal *)
(* may come again and again; one that comes after rtlsdr_close still reads   *)
(* the device record, which the model does not follow.                       *)
Cancelled == IF stream = "running" THEN "cancelled" ELSE stream

SigHandler ==
  /\ do_exit' = TRUE /\ stream' = Cancelled
  /\ UNCHANGED <<pc, waiting, locks, buffers, scan>>

(* main, from its loop to rtlsdr_close: each thread is woken and joined in   *)
(* turn.                                                                     *)
Cancel ==
  /\ pc["main"] = "loop" /\ do_exit
  /\ stream' = Cancelled /\ Goto("main", "callback")
  /\ UNCHANGED <<waiting, locks, buffers, do_exit, scan>>

(* Mutant: the controller is not joined.                                     *)
NextOf_NoController == [callback |-> "demod", demod |-> "output", output |-> "close",
                        controller |-> "close"]

NextOf == [callback |-> "demod", demod |-> "output", output |-> "controller",
           controller |-> "close"]

Join(t) ==
  /\ pc["main"] = t /\ pc[t] = "done"
  /\ LET u == NextOf[t] IN
       IF u \in Workers THEN Signal(u, "main", u)
       ELSE Goto("main", u) /\ UNCHANGED waiting
  /\ UNCHANGED <<locks, buffers, control, scan>>

Close ==
  /\ pc["main"] = "close" /\ Goto("main", "closed")
  /\ UNCHANGED <<waiting, locks, buffers, control, scan>>

Main == Cancel \/ (\E t \in Workers : Join(t)) \/ Close

Next ==
  \/ StartStream \/ Callback \/ LoseDevice \/ Demod \/ Output \/ Controller
  \/ SigHandler \/ Main \/ \E t \in Workers : Spurious(t)

Fairness ==
  /\ WF_vars(StartStream) /\ WF_vars(Callback) /\ WF_vars(Demod)
  /\ WF_vars(Output) /\ WF_vars(Controller) /\ WF_vars(Main)
  /\ SF_vars(CallbackLock) /\ SF_vars(DemodLock) /\ SF_vars(OutLock)

Spec == Init /\ [][Next]_vars /\ Fairness
------------------------------------------------------------------------------
(* What is demodulated, and what is written to the file, is one block or     *)
(* another, never the beginning of one and the end of the other, although    *)
(* three threads copy through two shared buffers.                            *)
NotTorn == result \in {Whole(0), Whole(1)} /\ last \in {Whole(0), Whole(1)}

(* The device and the locks are given up only when no thread is left that    *)
(* could use them.                                                           *)
ClosedLast == pc["main"] = "closed" => \A t \in Workers : pc[t] = "done"

(* A stream that has been cancelled ends: the callback is never left waiting *)
(* for a buffer.                                                             *)
CancelledStreamEnds == stream = "cancelled" ~> stream = "over"

(* While the channel stays quiet the scan goes on, however many of the       *)
(* requests to hop find the controller busy.                                 *)
ScanGoesOn ==
  <>[](~do_exit /\ stream = "running" /\ hits > 0) => []<>(pc["controller"] = "hop")
==============================================================================
