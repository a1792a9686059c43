--------------------------- MODULE StreamPrograms ---------------------------
(* The programs that read until they are told to stop: rtl_sdr (rtl_sdr.c),  *)
(* which records a number of bytes, and rtl_adsb (rtl_adsb.c), whose decoder *)
(* runs in a thread of its own.  One of them runs in a behaviour; sizes are  *)
(* in units of which Block make a transfer.                                  *)
EXTENDS Integers

CONSTANTS Block,      \* out_block_size
          Asked,      \* the sizes asked for with -n; 0 is no limit
          MaxWritten  \* bound: what a recording without a limit gets

ASSUME ProgramsAssumption ==
  Block \in Nat \ {0, 1} /\ Asked \subseteq Nat /\ MaxWritten \in Nat

VARIABLES program,         \* "rtl_sdr", "rtl_sdr -S" or "rtl_adsb"
          main,            \* "setup", "reading", "joining" or "closed"
          stream,          \* "off", "running", "cancelled" or "over"
          do_exit,
          asked, bytes_to_read, written,
          lost,            \* what writes that were too short have lost
          met,             \* history: has a block ended exactly at the size?
          short,           \* history: has a transfer been shorter than Block?
          decoder,         \* where rtl_adsb's thread is
          cancelled        \* pthread_cancel has been called on it

recording == <<asked, bytes_to_read, written, lost, met, short>>
thread    == <<decoder, cancelled>>
vars == <<program, main, stream, do_exit, recording, thread>>

Recorders == {"rtl_sdr", "rtl_sdr -S"}

Init ==
  /\ program \in Recorders \cup {"rtl_adsb"}
  /\ main = "setup" /\ stream = "off" /\ do_exit = FALSE
  /\ asked \in IF program \in Recorders THEN Asked ELSE {0}
  /\ bytes_to_read = asked /\ written = 0 /\ lost = 0
  /\ met = FALSE /\ short = FALSE
  /\ decoder = IF program = "rtl_adsb" THEN "top" ELSE "none"
  /\ cancelled = FALSE

(* rtlsdr_cancel_async does nothing to a stream that does not run.           *)
CancelAsync == IF stream = "running" THEN "cancelled" ELSE stream

(* Every signal runs the handler, also one that comes after do_exit is set.  *)
SigHandler ==
  /\ main # "closed" /\ do_exit' = TRUE /\ stream' = CancelAsync
  /\ UNCHANGED <<program, main, recording, thread>>

StartRead ==
  /\ main = "setup" /\ main' = "reading"
  /\ stream' = IF program = "rtl_sdr -S" THEN stream ELSE "running"
  /\ UNCHANGED <<program, do_exit, recording, thread>>

LoseDevice ==
  /\ stream = "running" /\ stream' = "cancelled"
  /\ UNCHANGED <<program, main, do_exit, recording, thread>>

------------------------------------------------------------------------------
(* The last block is cut to what is left of the size asked for.              *)
LastBlock(len) == bytes_to_read > 0 /\ bytes_to_read < len
Cut(len) == IF LastBlock(len) THEN bytes_to_read ELSE len

(* Mutant: the count is not decremented.                                     *)
Left_Forgotten(len) == bytes_to_read

Left(len) == IF bytes_to_read > 0 THEN bytes_to_read - len ELSE bytes_to_read

(* A block that ends exactly at the size leaves a count of 0: no limit.      *)
Meets(len) == bytes_to_read = len

(* rtl_sdr's rtlsdr_callback gets what the transfer brought, a whole block   *)
(* or less.  A write that is too short cancels the stream but not the blocks *)
(* that are still to come.                                                   *)
RecorderCallback ==
  /\ program = "rtl_sdr" /\ stream \in {"running", "cancelled"} /\ ~do_exit
  /\ written + lost + Block <= MaxWritten
  /\ \E actual_length \in {Block, Block - 1} :
       LET len == Cut(actual_length) IN
       \E wrote \in {len, len - 1} :
         /\ written' = written + wrote /\ lost' = lost + len - wrote
         /\ bytes_to_read' = Left(len)
         /\ do_exit' = LastBlock(actual_length)
         /\ stream' = IF LastBlock(actual_length) \/ wrote # len
                      THEN CancelAsync ELSE stream
         /\ met' = (met \/ Meets(actual_length))
         /\ short' = (short \/ actual_length # Block)
  /\ UNCHANGED <<program, main, asked, thread>>

(* One turn of the synchronous loop: the read fails, or gets a whole block,  *)
(* or less; the loop ends on a failure, a short read or write, or do_exit.   *)
SyncTurn ==
  /\ program = "rtl_sdr -S" /\ main = "reading"
  /\ \/ do_exit /\ main' = "joining" /\ UNCHANGED <<do_exit, recording>>
     \/ ~do_exit /\ main' = "joining" /\ UNCHANGED <<do_exit, recording>>
     \/ /\ ~do_exit /\ written + lost + Block <= MaxWritten
        /\ \E n_read \in {Block, Block - 1} :
             LET len == Cut(n_read) IN
             \E wrote \in {len, len - 1} :
               /\ written' = written + wrote /\ lost' = lost + len - wrote
               /\ do_exit' = LastBlock(n_read)
               /\ IF wrote # len \/ len < Block
                  THEN main' = "joining" /\ UNCHANGED <<bytes_to_read, met>>
                  ELSE /\ main' = main /\ bytes_to_read' = Left(len)
                       /\ met' = (met \/ Meets(n_read))
        /\ UNCHANGED <<asked, short>>
  /\ UNCHANGED <<program, stream, thread>>

------------------------------------------------------------------------------
(* rtl_adsb: the callback copies over the one buffer, whatever the decoder   *)
(* is doing with it, and wakes the decoder if it waits.                      *)
AdsbCallback ==
  /\ program = "rtl_adsb" /\ stream \in {"running", "cancelled"} /\ ~do_exit
  /\ decoder = "waiting" /\ decoder' = "decoding"
  /\ UNCHANGED <<program, main, stream, do_exit, recording, cancelled>>

(* demod_thread_fn; the wait and the output are where pthread_cancel ends it. *)
DecoderTop ==
  /\ decoder = "top" /\ decoder' = IF do_exit THEN "leaving" ELSE "waiting"
  /\ UNCHANGED <<program, main, stream, do_exit, recording, cancelled>>

DecoderWork ==
  /\ decoder = "decoding" /\ decoder' = "top"
  /\ UNCHANGED <<program, main, stream, do_exit, recording, cancelled>>

DecoderLeaves ==
  /\ decoder = "leaving" /\ decoder' = "done" /\ stream' = CancelAsync
  /\ UNCHANGED <<program, main, do_exit, recording, cancelled>>

DecoderCancelled ==
  /\ cancelled /\ decoder \in {"waiting", "decoding"} /\ decoder' = "done"
  /\ UNCHANGED <<program, main, stream, do_exit, recording, cancelled>>

Decoder == DecoderTop \/ DecoderWork \/ DecoderLeaves \/ DecoderCancelled

------------------------------------------------------------------------------
(* The read returns; rtl_adsb cancels its decoder and waits for it.          *)
StreamEnds ==
  /\ stream = "cancelled" /\ main = "reading"
  /\ stream' = "over" /\ main' = "joining"
  /\ UNCHANGED <<program, do_exit, recording, thread>>

(* Mutant: the decoder is cancelled only when the user wants to leave.       *)
CancelDecoder_OnExit ==
  /\ main = "joining" /\ program = "rtl_adsb" /\ do_exit
  /\ ~cancelled /\ cancelled' = TRUE
  /\ UNCHANGED <<program, main, stream, do_exit, recording, decoder>>

CancelDecoder ==
  /\ main = "joining" /\ program = "rtl_adsb" /\ ~cancelled /\ cancelled' = TRUE
  /\ UNCHANGED <<program, main, stream, do_exit, recording, decoder>>

Close ==
  /\ main = "joining" /\ decoder \in {"none", "done"} /\ main' = "closed"
  /\ UNCHANGED <<program, stream, do_exit, recording, thread>>

Main == StartRead \/ StreamEnds \/ CancelDecoder \/ Close

Next ==
  SigHandler \/ LoseDevice \/ RecorderCallback \/ SyncTurn \/ AdsbCallback
  \/ Decoder \/ Main

Spec ==
  /\ Init /\ [][Next]_vars
  /\ WF_vars(Main) /\ WF_vars(Decoder) /\ WF_vars(SyncTurn)
  /\ WF_vars(RecorderCallback)
------------------------------------------------------------------------------
(* Every unit of a recording is accounted for: what has been written, what a *)
(* short write has lost and what is still to come are what was asked for, so *)
(* it never gets larger - until a block ends exactly at the size, which      *)
(* makes the limit vanish.  That takes a size that is a multiple of the      *)
(* block, or a transfer that was shorter than a block.                       *)
BudgetKept ==
  /\ asked > 0 /\ ~met =>
       /\ written + lost <= asked
       /\ (program = "rtl_sdr" \/ main = "reading")
            => written + lost = asked - bytes_to_read
  /\ met => short \/ asked % Block = 0

(* Once its stream is cancelled - by the user, by the size reached, by a     *)
(* short write, by an unplugged device - the program closes the device, also *)
(* when its decoder sleeps in a wait that nobody will end; and a recording   *)
(* with a size is cancelled by its own callback, unless a block has ended    *)
(* exactly at the size.  (A signal before the stream runs has its cancel     *)
(* lost, and the callback then throws every block away.)                     *)
ProgramEnds ==
  /\ stream = "cancelled" ~> main = "closed"
  /\ (program = "rtl_sdr" /\ asked > 0 /\ stream = "running" /\ ~do_exit)
       ~> (stream # "running" \/ met)
==============================================================================
