------------------------------- MODULE Eeprom -------------------------------
(***************************************************************************)
(* rtl_eeprom: the configuration EEPROM of a stick is read, decoded,       *)
(* changed by the options of the command line, encoded again and written   *)
(* back byte by byte (rtl_eeprom.c; rtlsdr_read_eeprom and                 *)
(* rtlsdr_write_eeprom of librtlsdr.c).  Transfers fail, the program dies  *)
(* between two bytes, and is run again on what it left behind.             *)
(*                                                                         *)
(* The nine header bytes are three cells here: the two ids, the flag of    *)
(* the serial number and the one of the infrared endpoint.  A character    *)
(* is a member of Characters; its upper byte is 0 as in the code.          *)
(***************************************************************************)
EXTENDS Integers, Sequences, SequencesExt

CONSTANTS
    StrOffset,     \* STR_OFFSET: 9 in the code
    StringLimit,   \* no character starts at or behind it: 78 in the code
    ImageSize,     \* the bytes that are written: 128 in the code
    Characters,
    Longest,       \* bound: the length of a string
    MaxRuns,       \* bound: times the program is run
    MaxFaults      \* bound: failed transfers and crashes

VARIABLES
    eeprom,        \* the cells of the chip
    conf,          \* the configuration the user is shown and confirms
    image,         \* buf: what is to be written
    phase,         \* of the program; "off" when it does not run
    position,      \* i of rtlsdr_write_eeprom
    unread,        \* cells of this run whose read-back failed
    runs, faults

vars == <<eeprom, conf, image, phase, position, unread, runs, faults>>

Strings == BoundedSeq(Characters, Longest)

Cells == 0 .. ImageSize - 1

ASSUME EepromAssumption ==
    /\ StrOffset = 3 /\ StringLimit > StrOffset + 6 /\ StringLimit % 2 = 0
    /\ ImageSize \in Nat /\ StringLimit \in Nat /\ ImageSize > StringLimit + 3
    /\ Characters \subseteq Nat /\ Characters # {} /\ Longest \in Nat \ {0}

------------------------------------------------------------------------------

(* get_string_descriptor: the length byte counts itself and the tag.       *)
Decoded(data, pos) ==
    [i \in 1 .. ((data[pos] - 1) \div 2) |-> data[pos + 2 * i]]
Behind(data, pos) == pos + 2 + 2 * Len(Decoded(data, pos))

(* set_string_descriptor: -1 once a character would start at the limit.    *)
TooLong(pos, str) == Len(str) > 0 /\ pos + 2 * Len(str) >= StringLimit
Encoded(data, pos, str) ==
    [c \in Cells |->
        CASE c = pos -> 2 + 2 * Len(str)
          [] c = pos + 1 -> 3
          [] c \in pos + 2 .. pos + 1 + 2 * Len(str) ->
                IF (c - pos) % 2 = 0 THEN str[(c - pos) \div 2] ELSE 0
          [] OTHER -> data[c]]

(* parse_eeprom_to_conf.                                                   *)
Parsed(data) ==
    LET second == Behind(data, StrOffset)
        third  == Behind(data, second)
    IN  [ids |-> data[0], have_serial |-> data[1], enable_ir |-> data[2],
         strings |-> <<Decoded(data, StrOffset), Decoded(data, second),
                       Decoded(data, third)>>]

(* gen_eeprom_from_conf: into the buffer that was read; {} when a string   *)
(* is too long.                                                            *)
Generated(c, data) ==
    LET second == StrOffset + 2 + 2 * Len(c.strings[1])
        third  == second + 2 + 2 * Len(c.strings[2])
        header == [i \in Cells |-> CASE i = 0 -> c.ids
                                     [] i = 1 -> c.have_serial
                                     [] i = 2 -> c.enable_ir
                                     [] OTHER -> data[i]]
        first  == Encoded(header, StrOffset, c.strings[1])
        both   == Encoded(first, second, c.strings[2])
        all    == Encoded(both, third, c.strings[3])
    IN  IF \/ TooLong(StrOffset, c.strings[1])
           \/ TooLong(second, c.strings[2])
           \/ TooLong(third, c.strings[3])
        THEN {} ELSE {[all EXCEPT ![StringLimit] = 0]}

(* A half-written image may have its string lengths anywhere; the decoder  *)
(* is followed only while it stays inside the image.                       *)
Readable(data) ==
    /\ data[StrOffset] < ImageSize - StrOffset
    /\ LET second == Behind(data, StrOffset)
       IN  /\ second + 1 < ImageSize /\ data[second] < ImageSize - second
           /\ LET third == Behind(data, second)
              IN  third + 1 < ImageSize /\ data[third] < ImageSize - third

------------------------------------------------------------------------------

(* The options -m, -p, -s, -i and -g, as main() applies them.              *)
Default == [ids |-> 1, have_serial |-> 1, enable_ir |-> 0,
            strings |-> <<CHOOSE s \in Strings : Len(s) = 1, <<>>,
                          CHOOSE s \in Strings : Len(s) = 1>>]
Named(c) == {[c EXCEPT !.strings[k] = str] : k \in {1, 2}, str \in Strings}
Numbered(c) ==
    {[c EXCEPT !.strings[3] = str, !.have_serial = 1] : str \in Strings}
Switched(c) == [c EXCEPT !.enable_ir = 1 - @]
Changed(c) == Named(c) \cup Numbered(c) \cup {Switched(c), Default}

Stop == position' = 0 /\ UNCHANGED <<eeprom, conf, image, unread, runs, faults>>

(* main() up to the question: read, parse, change, encode.  A string that  *)
(* is too long ends the program with nothing written.                      *)
Prepare ==
    /\ phase = "off" /\ runs < MaxRuns /\ Readable(eeprom)
    /\ \E c \in Changed(Parsed(eeprom)) : \E data \in Generated(c, eeprom) :
        conf' = c /\ image' = data
    /\ phase' = "asked" /\ runs' = runs + 1 /\ unread' = {}
    /\ UNCHANGED <<eeprom, position, faults>>

(* -w: the image comes from a file, which may end early (the rest of the   *)
(* buffer is what was read from the chip, and is written all the same).    *)
FlashFile ==
    /\ phase = "off" /\ runs < MaxRuns
    /\ \E data \in Generated(Default, eeprom), length \in {StrOffset, ImageSize} :
        /\ image' = [c \in Cells |-> IF c < length THEN data[c] ELSE eeprom[c]]
        /\ Readable(image') /\ conf' = Parsed(image')
    /\ phase' = "asked" /\ runs' = runs + 1 /\ unread' = {}
    /\ UNCHANGED <<eeprom, position, faults>>

Answer == phase = "asked" /\ phase' \in {"writing", "off"} /\ Stop

(* One turn of rtlsdr_write_eeprom.  The result of reading the cell back   *)
(* is not looked at: when that fails cmd[1] still holds what the turn      *)
(* before left there, the byte before (or, in the first turn, anything).   *)
Stale == IF position = 0 THEN 0 .. 2 ELSE {image[position - 1]}

(* Mutant: the byte is skipped whenever its read-back fails.               *)
ReadBack_Trusting(value) ==
    \/ value = eeprom[position] /\ UNCHANGED <<unread, faults>>
    \/ /\ value = image[position] /\ faults < MaxFaults
       /\ unread' = unread \cup {position} /\ faults' = faults + 1

ReadBack(value) ==
    \/ value = eeprom[position] /\ UNCHANGED <<unread, faults>>
    \/ /\ value \in Stale /\ faults < MaxFaults
       /\ unread' = unread \cup {position} /\ faults' = faults + 1

Turn == phase = "writing" /\ position < ImageSize

Skip ==
    /\ Turn /\ ReadBack(image[position])
    /\ position' = position + 1
    /\ UNCHANGED <<eeprom, conf, image, phase, runs>>

WriteCell ==
    /\ Turn /\ \E value \in Stale \cup {eeprom[position]} :
                value # image[position] /\ ReadBack(value)
    /\ eeprom' = [eeprom EXCEPT ![position] = image[position]]
    /\ position' = position + 1
    /\ UNCHANGED <<conf, image, phase, runs>>

(* A cell that cannot be written: -3 and "Error while writing EEPROM".     *)
WriteFails ==
    /\ Turn /\ image[position] # eeprom[position]
    /\ faults < MaxFaults /\ faults' = faults + 1
    /\ phase' = "failed"
    /\ UNCHANGED <<eeprom, conf, image, position, unread, runs>>

Finish ==
    /\ phase = "writing" /\ position = ImageSize
    /\ phase' = "written"
    /\ UNCHANGED <<eeprom, conf, image, position, unread, runs, faults>>

Exit == phase \in {"written", "failed"} /\ phase' = "off" /\ Stop

Crash ==
    /\ phase = "writing" /\ faults < MaxFaults
    /\ phase' = "off" /\ faults' = faults + 1 /\ position' = 0
    /\ UNCHANGED <<eeprom, conf, image, unread, runs>>

Init ==
    /\ \E c \in Changed(Default) :
        eeprom \in Generated(c, [i \in Cells |-> 0]) /\ image = eeprom /\ conf = c
    /\ phase = "off" /\ position = 0 /\ unread = {} /\ runs = 0 /\ faults = 0

Next == \/ Prepare \/ FlashFile \/ Answer \/ Skip \/ WriteCell
        \/ WriteFails \/ Finish \/ Exit \/ Crash

Spec == Init /\ [][Next]_vars

------------------------------------------------------------------------------

(* A cell that holds what was to be written, or whose read-back failed     *)
(* unnoticed: then its new byte equals the one before it (or it is first). *)
Kept(i) ==
    \/ eeprom[i] = image[i]
    \/ i \in unread /\ (i = 0 \/ image[i] = image[i - 1])

CellsWritten == phase = "written" => \A i \in Cells : Kept(i)

(* "Configuration successfully written" is true: what the chip now decodes *)
(* to is the configuration the user confirmed, whatever was on it before   *)
(* (an image that an earlier run left half-written, too), and a read-back  *)
(* that fails unnoticed leaves an old byte in few cells.                   *)
SuccessIsWritten ==
    /\ CellsWritten
    /\ phase = "written" /\ unread = {} => Parsed(eeprom) = conf
=============================================================================
