------------------------------ MODULE RtlTcp ------------------------------
(***************************************************************************)
(* The server of rtl_tcp.c: one process that serves one TCP client at a    *)
(* time.  The main thread listens, accepts, starts two workers and sits in *)
(* rtlsdr_read_async, where rtlsdr_callback appends each block of samples  *)
(* to the linked list ll_buffers; tcp_worker takes the list and sends it;  *)
(* command_worker reads commands.  Any of the workers, and the handler of  *)
(* SIGINT, ends the session by calling sighandler, whose two steps are to  *)
(* cancel the asynchronous read and then to set do_exit.                   *)
(*                                                                         *)
(* The device is the one StreamApi describes (AsyncRead implements it);    *)
(* it may also be lost, which AsyncRead shows to leave a stream that can   *)
(* never be started again.  The client and its TCP connection are          *)
(* external.  What the commands do to the device is not modelled here.     *)
(***************************************************************************)
EXTENDS Naturals, Sequences, SequencesExt

CONSTANTS
  llbuf_num,    \* blocks of samples to keep queued; 0 for no limit
  MaxSessions,  \* bound: clients that connect
  MaxBlocks,    \* bound: blocks of samples the device delivers
  MaxSignals,   \* bound: signals sent to the process
  DeviceFails   \* may the device be lost?

ASSUME BoundsAssumption ==
  /\ llbuf_num \in Nat /\ MaxSessions \in Nat
  /\ MaxBlocks \in Nat /\ MaxSignals \in Nat
ASSUME DeviceFailsAssumption == DeviceFails \in BOOLEAN

VARIABLES
  main,        \* where main() is
  worker,      \* where tcp_worker is
  command,     \* where command_worker is
  handler,     \* where the signal handler is
  do_exit,
  phase,       \* the device's stream, see StreamApi
  device,      \* and whether it is open
  lost,        \* the device was unplugged
  ll_buffers,  \* the linked list: a sequence of block numbers
  curelem,     \* what tcp_worker has taken and not sent yet
  client,      \* the client's end of the connection
  sessions,    \* how many clients have been accepted
  signals,     \* how many signals have arrived
  made,        \* history: blocks put on the list since the program started
  base,        \* history: made when this session was accepted
  sent,        \* history: blocks sent in this session
  dropped      \* history: blocks dropped from a full list in this session

Stream == INSTANCE StreamApi

threads == <<main, worker, command, handler>>
stream == <<phase, device, lost>>
queue == <<ll_buffers, curelem>>
counters == <<sessions, signals>>
history == <<made, base, sent, dropped>>
vars == <<threads, do_exit, stream, queue, client, counters, history>>

Init ==
  /\ main = "listen" /\ worker = "dead" /\ command = "dead"
  /\ handler = "idle"
  /\ do_exit = FALSE
  /\ phase = "Idle" /\ device = "open" /\ lost = FALSE
  /\ ll_buffers = <<>> /\ curelem = <<>>
  /\ client = "none"
  /\ sessions = 0 /\ signals = 0
  /\ made = 0 /\ base = 0 /\ sent = <<>> /\ dropped = {}

----------------------------------------------------------------------------
(* sighandler, step one: cancel the read.  When there is no stream in the   *)
(* RUNNING state the call returns -2 and nothing happens.                   *)
CancelAsync ==
  IF phase = "Streaming" THEN Stream!Cancel ELSE UNCHANGED <<phase, device>>

----------------------------------------------------------------------------
(* main()                                                                   *)

(* The listening loop wakes for a client: do_exit is looked at first.       *)
Accept ==
  /\ main = "listen" /\ ~ do_exit
  /\ client = "waiting"
  /\ main' = "accepted"
  /\ client' = "open"
  /\ sessions' = sessions + 1
  /\ base' = made /\ sent' = <<>> /\ dropped' = {}
  /\ UNCHANGED <<worker, command, handler, do_exit, stream, queue, signals,
                 made>>

StartThreads ==
  /\ main = "accepted"
  /\ main' = "started"
  /\ worker' = "top" /\ command' = "recv"
  /\ UNCHANGED <<handler, do_exit, stream, queue, client, counters, history>>

(* rtlsdr_read_async claims the stream; on a device whose last stream never *)
(* became inactive it returns -2 at once.                                   *)
StartRead ==
  /\ main = "started"
  /\ \/ Stream!Begin /\ main' = "reading"
     \/ phase # "Idle" /\ main' = "join" /\ UNCHANGED <<phase, device>>
  /\ UNCHANGED <<worker, command, handler, do_exit, lost, queue, client,
                 counters, history>>

(* Mutant: the count is compared one later.                                 *)
Callback_OffByOne ==
  LET full == /\ ll_buffers # <<>>
              /\ llbuf_num > 0
              /\ llbuf_num + 3 = Len(ll_buffers) - 1
      kept == IF full THEN Tail(ll_buffers) ELSE ll_buffers
  IN /\ main = "reading" /\ ~ do_exit
     /\ made < MaxBlocks
     /\ made' = made + 1
     /\ ll_buffers' = Append(kept, made + 1)
     /\ dropped' = IF full THEN dropped \cup {Head(ll_buffers)} ELSE dropped
     /\ worker' = IF worker = "wait" THEN "woken" ELSE worker
     /\ UNCHANGED <<main, command, handler, do_exit, stream, curelem, client,
                    counters, base, sent>>

(* rtlsdr_callback, run by main inside rtlsdr_read_async: the queue is      *)
(* counted without its last element (num_queued), and when the count is     *)
(* llbuf_num + 2 the oldest block is dropped.  The worker is woken if it is *)
(* waiting.  Once do_exit is set the samples are thrown away.               *)
Callback ==
  LET num_queued == Len(ll_buffers) - 1
      full == /\ ll_buffers # <<>>
              /\ llbuf_num > 0
              /\ llbuf_num + 2 = num_queued
      kept == IF full THEN Tail(ll_buffers) ELSE ll_buffers
  IN /\ main = "reading" /\ ~ do_exit
     /\ made < MaxBlocks
     /\ made' = made + 1
     /\ ll_buffers' = Append(kept, made + 1)
     /\ dropped' = IF full THEN dropped \cup {Head(ll_buffers)} ELSE dropped
     /\ worker' = IF worker = "wait" THEN "woken" ELSE worker
     /\ UNCHANGED <<main, command, handler, do_exit, stream, curelem, client,
                    counters, base, sent>>

(* The device is unplugged while it streams: the stream cancels itself.     *)
LoseDevice ==
  /\ DeviceFails
  /\ main = "reading" /\ ~ lost
  /\ lost' = TRUE
  /\ CancelAsync
  /\ UNCHANGED <<threads, do_exit, queue, client, counters, history>>

(* rtlsdr_read_async returns; that of a lost device leaves CANCELING behind *)
ReadReturns ==
  /\ main = "reading"
  /\ phase = "Stopping"
  /\ main' = "join"
  /\ IF lost THEN UNCHANGED <<phase, device>> ELSE Stream!Return
  /\ UNCHANGED <<worker, command, handler, do_exit, lost, queue, client,
                 counters, history>>

(* Mutant: the list is not emptied between two clients.                     *)
EndSession_KeepList ==
  /\ main = "join"
  /\ worker = "dead" /\ command = "dead"
  /\ main' = "listen"
  /\ client' = "none"
  /\ do_exit' = FALSE
  /\ UNCHANGED <<worker, command, handler, stream, queue, counters, history>>

(* Mutant: only tcp_worker is joined.                                       *)
EndSession_JoinOne ==
  /\ main = "join"
  /\ worker = "dead"
  /\ main' = "listen"
  /\ client' = "none"
  /\ ll_buffers' = <<>>
  /\ do_exit' = FALSE
  /\ UNCHANGED <<worker, command, handler, stream, curelem, counters,
                 history>>

(* Both workers are joined, the connection is closed, the list is emptied   *)
(* and do_exit is reset before the server listens again.                    *)
EndSession ==
  /\ main = "join"
  /\ worker = "dead" /\ command = "dead"
  /\ main' = "listen"
  /\ client' = "none"
  /\ ll_buffers' = <<>>
  /\ do_exit' = FALSE
  /\ UNCHANGED <<worker, command, handler, stream, curelem, counters,
                 history>>

(* The listening loop wakes and finds do_exit.                              *)
LeaveLoop ==
  /\ main = "listen" /\ do_exit
  /\ main' = "out"
  /\ UNCHANGED <<worker, command, handler, do_exit, stream, queue, client,
                 counters, history>>

(* rtlsdr_close waits for the stream unless the device is lost.             *)
Close ==
  /\ main = "out"
  /\ phase = "Idle" \/ lost
  /\ main' = "done"
  /\ device' = "closed"
  /\ UNCHANGED <<worker, command, handler, do_exit, phase, lost, queue,
                 client, counters, history>>

Main == \/ Accept \/ StartThreads \/ StartRead \/ ReadReturns \/ EndSession
        \/ LeaveLoop \/ Close

----------------------------------------------------------------------------
(* tcp_worker                                                               *)

WorkerOnly == UNCHANGED <<main, command, handler, stream, counters, client,
                          made, base, dropped>>

(* With do_exit set the thread ends at once, without calling sighandler.    *)
WorkerTop ==
  /\ worker = "top"
  /\ worker' = IF do_exit THEN "dead" ELSE "wait"
  /\ WorkerOnly /\ UNCHANGED <<do_exit, queue, sent>>

(* Mutant: the thread ends after its time-out without calling sighandler.   *)
WorkerTimeout_Quiet ==
  /\ worker = "wait"
  /\ worker' = "dead"
  /\ WorkerOnly /\ UNCHANGED <<do_exit, queue, sent>>

(* The five seconds of pthread_cond_timedwait pass without a signal.        *)
WorkerTimeout ==
  /\ worker = "wait"
  /\ worker' = "cancel"
  /\ WorkerOnly /\ UNCHANGED <<do_exit, queue, sent>>

(* Mutant: the head is taken and the rest of the list forgotten.            *)
WorkerTake_HeadOnly ==
  /\ worker \in {"wait", "woken"}
  /\ ll_buffers # <<>>
  /\ curelem' = <<Head(ll_buffers)>>
  /\ ll_buffers' = <<>>
  /\ worker' = "send"
  /\ WorkerOnly /\ UNCHANGED <<do_exit, sent>>

(* The wait ends, by a signal or spuriously: whatever is on the list is     *)
(* taken as a whole.                                                        *)
WorkerTake ==
  /\ worker \in {"wait", "woken"}
  /\ curelem' = ll_buffers
  /\ ll_buffers' = <<>>
  /\ worker' = IF ll_buffers = <<>> THEN "top" ELSE "send"
  /\ WorkerOnly /\ UNCHANGED <<do_exit, sent>>

(* The select finds room for a part of the block only: the send, on a       *)
(* socket that blocks, now waits for the client to read.                    *)
WorkerBlocks ==
  /\ worker = "send"
  /\ client \in {"open", "full"}
  /\ worker' = "blocked"
  /\ WorkerOnly /\ UNCHANGED <<do_exit, queue, sent>>

(* A block goes out (in one send or several, which may have waited);        *)
(* do_exit is looked at after each send, also when the block is complete.   *)
(* To a client that does not read nothing goes out: the select times out    *)
(* and is tried again, and a send that waits goes on waiting.               *)
WorkerSend ==
  /\ worker \in {"send", "blocked"}
  /\ client \in {"open", "fin"}
  /\ sent' = Append(sent, Head(curelem))
  /\ IF do_exit
       THEN worker' = "cancel" /\ curelem' = <<>>
       ELSE /\ curelem' = Tail(curelem)
            /\ worker' = IF Len(curelem) = 1 THEN "top" ELSE "send"
  /\ WorkerOnly /\ UNCHANGED <<do_exit, ll_buffers>>

(* The send fails, or select times out (or only a part was sent) and        *)
(* do_exit is set: what the thread has taken is never sent.  A send that    *)
(* waits does not look at do_exit.                                          *)
WorkerBye ==
  /\ \/ worker \in {"send", "blocked"} /\ client = "reset"
     \/ worker = "send" /\ do_exit
  /\ worker' = "cancel"
  /\ curelem' = <<>>
  /\ WorkerOnly /\ UNCHANGED <<do_exit, ll_buffers, sent>>

(* The thread calls sighandler and ends.                                    *)
WorkerCancel ==
  /\ worker = "cancel"
  /\ CancelAsync
  /\ worker' = "exit"
  /\ UNCHANGED <<main, command, handler, do_exit, lost, queue, client,
                 counters, history>>

WorkerExit ==
  /\ worker = "exit"
  /\ do_exit' = TRUE
  /\ worker' = "dead"
  /\ WorkerOnly /\ UNCHANGED <<queue, sent>>

Worker == \/ WorkerTop \/ WorkerTimeout \/ WorkerTake \/ WorkerBlocks
          \/ WorkerSend \/ WorkerBye \/ WorkerCancel \/ WorkerExit

----------------------------------------------------------------------------
(* command_worker: only a reset connection or do_exit make it leave.  A     *)
(* connection the client has closed reads as zero bytes, which the loop     *)
(* takes for data that is still to come.                                    *)

CommandBye ==
  /\ command = "recv"
  /\ client = "reset" \/ do_exit
  /\ command' = "cancel"
  /\ UNCHANGED <<main, worker, handler, do_exit, stream, queue, client,
                 counters, history>>

CommandCancel ==
  /\ command = "cancel"
  /\ CancelAsync
  /\ command' = "exit"
  /\ UNCHANGED <<main, worker, handler, do_exit, lost, queue, client,
                 counters, history>>

CommandExit ==
  /\ command = "exit"
  /\ do_exit' = TRUE
  /\ command' = "dead"
  /\ UNCHANGED <<main, worker, handler, stream, queue, client, counters,
                 history>>

Command == CommandBye \/ CommandCancel \/ CommandExit

----------------------------------------------------------------------------
(* SIGINT, SIGTERM or SIGQUIT, handled beside whatever the threads do.      *)

SignalArrives ==
  /\ main # "done"
  /\ handler = "idle"
  /\ signals < MaxSignals
  /\ signals' = signals + 1
  /\ handler' = "cancel"
  /\ UNCHANGED <<main, worker, command, do_exit, stream, queue, client,
                 sessions, history>>

HandlerCancel ==
  /\ handler = "cancel"
  /\ CancelAsync
  /\ handler' = "exit"
  /\ UNCHANGED <<main, worker, command, do_exit, lost, queue, client,
                 counters, history>>

HandlerExit ==
  /\ handler = "exit"
  /\ do_exit' = TRUE
  /\ handler' = "idle"
  /\ UNCHANGED <<main, worker, command, stream, queue, client, counters,
                 history>>

Handler == HandlerCancel \/ HandlerExit

----------------------------------------------------------------------------
(* The client: it connects, may stop reading (soon the buffers between the  *)
(* two are full) and read on, may close its end in an orderly way (sends    *)
(* still succeed until the network answers them with a reset), or resets.   *)

Connect ==
  /\ client = "none"
  /\ main = "listen"
  /\ sessions < MaxSessions
  /\ client' = "waiting"
  /\ UNCHANGED <<threads, do_exit, stream, queue, counters, history>>

ClientCloses ==
  /\ client = "open"
  /\ client' = "fin"
  /\ UNCHANGED <<threads, do_exit, stream, queue, counters, history>>

ClientStalls ==
  /\ client = "open"
  /\ client' = "full"
  /\ UNCHANGED <<threads, do_exit, stream, queue, counters, history>>

ClientReadsOn ==
  /\ client = "full"
  /\ client' = "open"
  /\ UNCHANGED <<threads, do_exit, stream, queue, counters, history>>

ClientResets ==
  /\ client \in {"open", "full", "fin"}
  /\ client' = "reset"
  /\ UNCHANGED <<threads, do_exit, stream, queue, counters, history>>

----------------------------------------------------------------------------
Next ==
  \/ Main \/ Callback \/ LoseDevice
  \/ Worker
  \/ Command
  \/ SignalArrives \/ Handler
  \/ Connect \/ ClientStalls \/ ClientReadsOn \/ ClientCloses
  \/ ClientResets

Spec == Init /\ [][Next]_vars

(* Every thread goes on with what it can do: the operating system schedules *)
(* them, rtlsdr_read_async returns once it is cancelled (AsyncRead), and    *)
(* both the wait of tcp_worker and the select of the loops time out.  When  *)
(* no more blocks come, spurious wake-ups do not go on for ever: some wait  *)
(* lasts its five seconds.  A block gets through to a client that reads     *)
(* again and again.  Nothing is assumed of the client, which may for ever   *)
(* stop reading: nothing then makes a send succeed or fail, or a select     *)
(* find room for a part of a block.                                         *)
FairSpec ==
  /\ Spec
  /\ WF_vars(Main) /\ WF_vars(Worker /\ worker' # "blocked")
  /\ WF_vars(Command)
  /\ WF_vars(Handler)
  /\ SF_vars(WorkerTimeout) /\ SF_vars(WorkerSend)

----------------------------------------------------------------------------
(* Properties                                                               *)

Increasing(q) == \A j, k \in DOMAIN q : j < k => q[j] < q[k]

(* What the client gets, what tcp_worker holds and what is queued are, in   *)
(* this order, this session's blocks in the order of their sampling: none   *)
(* twice, none out of order, and none left over from an earlier client.     *)
InOrder ==
  main \in {"accepted", "started", "reading", "join"} =>
    LET all == sent \o curelem \o ll_buffers
    IN Increasing(all) /\ \A k \in DOMAIN all : all[k] > base

(* While the server streams, every block of the session is sent, held by    *)
(* tcp_worker, queued, or was dropped because the list was full: the swap   *)
(* of the list and the wake-ups that nobody hears lose nothing.             *)
NothingLost ==
  main = "reading" /\ ~ do_exit /\ worker \notin {"dead", "cancel", "exit"}
    => base + 1 .. made
         = ToSet(sent \o curelem \o ll_buffers) \cup dropped

(* The list never grows past llbuf_num + 3 blocks, the bound the code has;  *)
(* a block is dropped only when the list has reached it.                    *)
QueueBound == llbuf_num > 0 => Len(ll_buffers) <= llbuf_num + 3

(* The workers of one session are gone before another is accepted, whoever  *)
(* ended it; and the device is closed only when nobody reads it.            *)
SessionsApart ==
  /\ main \in {"listen", "accepted", "out", "done"}
       => worker = "dead" /\ command = "dead"
  /\ device = "closed" => main = "done" /\ phase # "Streaming"

(* A session whose stream has been cancelled, or whose device is lost, ends *)
(* and the server listens again or leaves, whatever the threads were doing. *)
(* Only a client that stops reading for good can keep main in its joins:    *)
(* while tcp_worker is in a send that waits for it, or tries its select     *)
(* again and again and nobody sets do_exit (the device was lost).           *)
CancelledSessionEnds ==
  \/ <>[] /\ client = "full"
          /\ worker = "blocked" \/ (worker = "send" /\ ~ do_exit)
  \/ (main = "reading" /\ phase = "Stopping") ~> (main \in {"listen", "done"})
============================================================================
