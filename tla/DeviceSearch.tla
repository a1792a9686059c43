---------------------------- MODULE DeviceSearch ----------------------------
(* How a dongle is found on the bus: by librtlsdr, which counts the devices  *)
(* it knows, and by verbose_device_search (convenience.c) from what the user *)
(* typed.  The bus is a sequence of devices [known, serial, opens]; texts    *)
(* are sequences of characters, those from 1 to 9 being digits.              *)
EXTENDS Integers, Sequences, SequencesExt, FiniteSetsExt

(* find_known_device and the counting loops of rtlsdr_get_device_count,      *)
(* rtlsdr_get_device_name and rtlsdr_get_device_usb_strings.                 *)
KnownUpTo(bus, i) == Quantify(1 .. i, LAMBDA k : bus[k].known)
DeviceCount(bus) == KnownUpTo(bus, Len(bus))

None == 0
FirstIn(found) == IF found = {} THEN None ELSE Min(found)

DeviceAt(bus, index) ==
  FirstIn({i \in DOMAIN bus : bus[i].known /\ KnownUpTo(bus, i) - 1 = index})

(* Mutant: every device of the bus is counted.                               *)
OpenedAt_All(bus, index) == FirstIn({i \in DOMAIN bus : i - 1 = index})

(* rtlsdr_open compares after every device, known or not; -1 is its          *)
(* UINT32_MAX, the count of none less one.                                   *)
OpenedAt(bus, index) ==
  FirstIn({i \in DOMAIN bus : KnownUpTo(bus, i) - 1 = index})

(* The serial a caller finds in its buffer: that of the device, or, when it  *)
(* cannot be opened, what was there before.                                  *)
SerialAt(bus, index, before) ==
  LET d == bus[DeviceAt(bus, index)] IN IF d.opens THEN d.serial ELSE before

(* rtlsdr_get_index_by_serial.                                               *)
IndexBySerial(bus, text) ==
  LET same == {k \in 0 .. DeviceCount(bus) - 1 :
                 bus[DeviceAt(bus, k)].opens /\ bus[DeviceAt(bus, k)].serial = text}
  IN  IF same = {} THEN -3 ELSE Min(same)

------------------------------------------------------------------------------
(* strtol on the whole text, in decimal; the empty one is 0.                 *)
IsNumber(text) == \A k \in DOMAIN text : text[k] \in 1 .. 9
Number(text) == FoldLeft(LAMBDA n, c : 10 * n + c, 0, text)

(* The serials the loops of verbose_device_search see, one after another     *)
(* from the listing that leaves its last one in the buffer.                  *)
Serials(bus, before) ==
  LET seen[k \in -1 .. DeviceCount(bus) - 1] ==
        IF k = -1 THEN before ELSE SerialAt(bus, k, seen[k - 1])
  IN  seen

VerboseDeviceSearch(bus, text) ==
  LET count  == DeviceCount(bus)
      last(before) == Serials(bus, before)[count - 1]
      first  == Serials(bus, last(<<>>))
      same   == {k \in 0 .. count - 1 : first[k] = text}
      prefix == {k \in 0 .. count - 1 : IsPrefix(text, first[k])}
      suffix == {k \in 0 .. count - 1 : IsSuffix(text, first[k])}
  IN  CASE count = 0 -> -1
        [] count > 0 /\ IsNumber(text) /\ Number(text) < count -> Number(text)
        [] OTHER -> IF same # {} THEN Min(same) ELSE IF prefix # {} THEN Min(prefix)
                    ELSE IF suffix # {} THEN Min(suffix) ELSE -1

(* openRTLSDR of the wrapper: UInt32(int:) makes a negative index 0.         *)
OpenRTLSDR(bus, index) == OpenedAt(bus, IF index < 0 THEN 0 ELSE index)
==============================================================================
