---------------------------- MODULE EepromProofs -----------------------------
(***************************************************************************)
(* What "Configuration successfully written" says of the chip, for any     *)
(* image and any failures: the order of the bytes is what limits the       *)
(* damage of a read-back whose result nobody looks at.                     *)
(***************************************************************************)
EXTENDS Eeprom, TLAPS

WriteInv ==
  /\ position \in 0 .. ImageSize
  /\ eeprom = [c \in Cells |-> eeprom[c]]
  /\ phase \in {"writing", "written"} =>
       \A i \in Cells : i < position => Kept(i)
  /\ phase = "written" => position = ImageSize

(* An image, a string and a configuration.                                   *)
Images == [Cells -> Int]
Texts == Seq(Int)
Configs == [ids : Int, have_serial : Int, enable_ir : Int, strings : [1 .. 3 -> Texts]]

(* The cells from pos on hold the string.                                   *)
Holds(data, pos, str) ==
  /\ data[pos] = 2 + 2 * Len(str)
  /\ \A i \in 1 .. Len(str) : data[pos + 2 * i] = str[i]

(* The string was put behind what was there.                                *)
Appended(data, pos, str, out) ==
  /\ out \in Images
  /\ \A c \in Cells : c < pos => out[c] = data[c]
  /\ pos \in Cells => out[pos] = 2 + 2 * Len(str)
  /\ \A i \in 1 .. Len(str) : pos + 2 * i \in Cells => out[pos + 2 * i] = str[i]

LEMMA EncodedCells ==
  ASSUME NEW data \in Images, NEW pos \in Nat, NEW str \in Texts
  PROVE  Appended(data, pos, str, Encoded(data, pos, str))
<1>1. Len(str) \in Nat /\ \A i \in 1 .. Len(str) : str[i] \in Int
  BY DEF Texts
<1>2. \A c \in Cells : c \in Int
  BY EepromAssumption DEF Cells
<1>3. \A c \in Cells : c \in pos + 2 .. pos + 1 + 2 * Len(str) /\ (c - pos) % 2 = 0
        => (c - pos) \div 2 \in 1 .. Len(str)
  BY <1>1, <1>2
<1>4. Encoded(data, pos, str) \in Images
  BY <1>1, <1>2, <1>3 DEF Encoded, Images
<1>5. \A c \in Cells : c < pos => Encoded(data, pos, str)[c] = data[c]
  BY <1>1, <1>2 DEF Encoded
<1>6. pos \in Cells => Encoded(data, pos, str)[pos] = 2 + 2 * Len(str)
  BY DEF Encoded
<1>7. ASSUME NEW i \in 1 .. Len(str), pos + 2 * i \in Cells
      PROVE  Encoded(data, pos, str)[pos + 2 * i] = str[i]
  <2>1. /\ pos + 2 * i # pos /\ pos + 2 * i # pos + 1
        /\ pos + 2 * i \in pos + 2 .. pos + 1 + 2 * Len(str)
        /\ (pos + 2 * i - pos) % 2 = 0 /\ (pos + 2 * i - pos) \div 2 = i
    BY <1>1
  <2> QED BY <1>7, <2>1 DEF Encoded
<1> QED BY <1>4, <1>5, <1>6, <1>7 DEF Appended

LEMMA DecodedText ==
  ASSUME NEW data, NEW pos \in Nat, NEW str \in Texts, Holds(data, pos, str)
  PROVE  Decoded(data, pos) = str /\ Behind(data, pos) = pos + 2 + 2 * Len(str)
<1>1. str = [i \in 1 .. Len(str) |-> str[i]] /\ Len(str) \in Nat
  BY DEF Texts
<1>2. (2 + 2 * Len(str) - 1) \div 2 = Len(str)
  <2>1. \A n \in Nat : (2 + 2 * n - 1) \div 2 = n
    OBVIOUS
  <2> QED BY <1>1, <2>1
<1>3. Decoded(data, pos) = [i \in 1 .. Len(str) |-> data[pos + 2 * i]]
  BY <1>2 DEF Decoded, Holds
<1>4. Decoded(data, pos) = str
  BY <1>1, <1>3 DEF Holds
<1> QED BY <1>4 DEF Behind

(* Three strings that are not too long, behind each other in the image.      *)
LaidOut(header, first, both, all, image1, s1, s2, s3, second, third) ==
  /\ second = StrOffset + 2 + 2 * Len(s1)
  /\ third = second + 2 + 2 * Len(s2)
  /\ Appended(header, StrOffset, s1, first)
  /\ Appended(first, second, s2, both)
  /\ Appended(both, third, s3, all)
  /\ image1 = [all EXCEPT ![StringLimit] = 0]
  /\ ~TooLong(StrOffset, s1) /\ ~TooLong(second, s2) /\ ~TooLong(third, s3)

(* What gen_eeprom_from_conf encodes, parse_eeprom_to_conf decodes: the      *)
(* three strings lie behind each other, and the cell that is cleared last    *)
(* is none of theirs, being even where lengths and characters are odd.       *)
LEMMA ThreeTexts ==
  ASSUME NEW header, NEW first, NEW both, NEW all, NEW image1,
         NEW s1 \in Texts, NEW s2 \in Texts, NEW s3 \in Texts,
         NEW second, NEW third,
         LaidOut(header, first, both, all, image1, s1, s2, s3, second, third)
  PROVE  /\ image1 \in Images
         /\ \A i \in 0 .. 2 : image1[i] = header[i]
         /\ Decoded(image1, StrOffset) = s1 /\ Behind(image1, StrOffset) = second
         /\ Decoded(image1, second) = s2 /\ Behind(image1, second) = third
         /\ Decoded(image1, third) = s3
<1> USE DEF LaidOut
<1>1. /\ Len(s1) \in Nat /\ Len(s2) \in Nat /\ Len(s3) \in Nat
      /\ second \in Nat /\ third \in Nat /\ StrOffset = 3 /\ StrOffset \in Nat
      /\ second % 2 = 1 /\ third % 2 = 1
  <2>1. Len(s1) \in Nat /\ Len(s2) \in Nat /\ Len(s3) \in Nat
    BY DEF Texts
  <2> QED BY <2>1, EepromAssumption
<1>2. /\ StringLimit \in Nat /\ StringLimit % 2 = 0 /\ StringLimit > 9
      /\ ImageSize \in Nat /\ ImageSize > StringLimit + 3
      /\ StringLimit \in Cells
  BY EepromAssumption DEF Cells
<1>3. /\ Len(s1) > 0 => StrOffset + 2 * Len(s1) < StringLimit
      /\ Len(s2) > 0 => second + 2 * Len(s2) < StringLimit
      /\ Len(s3) > 0 => third + 2 * Len(s3) < StringLimit
  BY <1>1, <1>2 DEF TooLong
<1>4. second \in Cells /\ third \in Cells /\ StrOffset \in Cells
  <2>1. second <= StringLimit + 1
    BY <1>1, <1>2, <1>3
  <2>2. third <= StringLimit + 3
    BY <1>1, <1>2, <1>3, <2>1
  <2> QED BY <1>1, <1>2, <2>1, <2>2 DEF Cells
<1>5. /\ StrOffset # StringLimit /\ second # StringLimit /\ third # StringLimit
      /\ StrOffset < second /\ second < third /\ StrOffset < third
  BY <1>1, <1>2
<1>6. /\ image1 \in Images
      /\ \A i \in Cells : i # StringLimit => image1[i] = all[i]
  BY <1>2 DEF Images, Appended
<1>7. Holds(image1, StrOffset, s1)
  <2>1. image1[StrOffset] = 2 + 2 * Len(s1)
    BY <1>4, <1>5, <1>6 DEF Appended
  <2>2. ASSUME NEW i \in 1 .. Len(s1)
        PROVE  image1[StrOffset + 2 * i] = s1[i]
    <3>1. /\ StrOffset + 2 * i \in Cells /\ StrOffset + 2 * i < second
          /\ StrOffset + 2 * i < third /\ StrOffset + 2 * i # StringLimit
      BY <1>1, <1>2, <1>3 DEF Cells
    <3>2. first[StrOffset + 2 * i] = s1[i]
      BY <3>1 DEF Appended
    <3>3. all[StrOffset + 2 * i] = first[StrOffset + 2 * i]
      BY <3>1 DEF Appended
    <3> QED BY <1>6, <3>1, <3>2, <3>3
  <2> QED BY <2>1, <2>2 DEF Holds
<1>8. Holds(image1, second, s2)
  <2>1. image1[second] = 2 + 2 * Len(s2)
    BY <1>4, <1>5, <1>6 DEF Appended
  <2>2. ASSUME NEW i \in 1 .. Len(s2)
        PROVE  image1[second + 2 * i] = s2[i]
    <3>1. /\ second + 2 * i \in Cells /\ second + 2 * i < third
          /\ second + 2 * i # StringLimit
      BY <1>1, <1>2, <1>3 DEF Cells
    <3>2. both[second + 2 * i] = s2[i]
      BY <3>1 DEF Appended
    <3>3. all[second + 2 * i] = both[second + 2 * i]
      BY <3>1 DEF Appended
    <3> QED BY <1>6, <3>1, <3>2, <3>3
  <2> QED BY <2>1, <2>2 DEF Holds
<1>9. Holds(image1, third, s3)
  <2>1. image1[third] = 2 + 2 * Len(s3)
    BY <1>4, <1>5, <1>6 DEF Appended
  <2>2. ASSUME NEW i \in 1 .. Len(s3)
        PROVE  image1[third + 2 * i] = s3[i]
    <3>1. third + 2 * i \in Cells /\ third + 2 * i # StringLimit
      BY <1>1, <1>2, <1>3 DEF Cells
    <3>2. all[third + 2 * i] = s3[i]
      BY <3>1 DEF Appended
    <3> QED BY <1>6, <3>1, <3>2
  <2> QED BY <2>1, <2>2 DEF Holds
<1>10. \A i \in 0 .. 2 : image1[i] = header[i]
  <2> SUFFICES ASSUME NEW i \in 0 .. 2 PROVE image1[i] = header[i]
    OBVIOUS
  <2>1. /\ i \in Cells /\ i < StrOffset /\ i < second /\ i < third
        /\ i # StringLimit
    BY <1>1, <1>2 DEF Cells
  <2>2. first[i] = header[i]
    BY <2>1 DEF Appended
  <2>3. all[i] = first[i]
    BY <2>1 DEF Appended
  <2> QED BY <1>6, <2>1, <2>2, <2>3
<1>11. Decoded(image1, StrOffset) = s1 /\ Behind(image1, StrOffset) = second
  BY <1>1, <1>7, DecodedText
<1>12. Decoded(image1, second) = s2 /\ Behind(image1, second) = third
  BY <1>1, <1>8, DecodedText
<1>13. Decoded(image1, third) = s3
  BY <1>1, <1>9, DecodedText
<1> QED BY <1>6, <1>10, <1>11, <1>12, <1>13

(* The configuration survives its encoding, into whatever buffer.           *)
LEMMA RoundTrip ==
  ASSUME NEW c \in Configs, NEW data \in Images, NEW image1 \in Generated(c, data)
  PROVE  image1 \in Images /\ Parsed(image1) = c
<1> DEFINE s1 == c.strings[1]
           s2 == c.strings[2]
           s3 == c.strings[3]
           second == StrOffset + 2 + 2 * Len(s1)
           third == second + 2 + 2 * Len(s2)
           header == [i \in Cells |-> CASE i = 0 -> c.ids
                                        [] i = 1 -> c.have_serial
                                        [] i = 2 -> c.enable_ir
                                        [] OTHER -> data[i]]
           first == Encoded(header, StrOffset, s1)
           both == Encoded(first, second, s2)
           all == Encoded(both, third, s3)
<1>1. s1 \in Texts /\ s2 \in Texts /\ s3 \in Texts
  BY DEF Configs
<1>2. c.ids \in Int /\ c.have_serial \in Int /\ c.enable_ir \in Int
  BY DEF Configs
<1>3. /\ StrOffset \in Nat /\ second \in Nat /\ third \in Nat
      /\ 0 \in Cells /\ 1 \in Cells /\ 2 \in Cells
  <2>1. Len(s1) \in Nat /\ Len(s2) \in Nat
    BY <1>1 DEF Texts
  <2>2. StrOffset \in Nat /\ 0 \in Cells /\ 1 \in Cells /\ 2 \in Cells
    BY EepromAssumption DEF Cells
  <2> HIDE DEF s1, s2
  <2> QED BY <2>1, <2>2
<1>4. header \in Images
  BY <1>2 DEF Images
<1>5. header[0] = c.ids /\ header[1] = c.have_serial /\ header[2] = c.enable_ir
  BY <1>3
<1>6. /\ ~TooLong(StrOffset, s1) /\ ~TooLong(second, s2) /\ ~TooLong(third, s3)
      /\ image1 = [all EXCEPT ![StringLimit] = 0]
  BY DEF Generated
<1>7. <<s1, s2, s3>> = c.strings
  BY DEF Configs
<1>0. second = StrOffset + 2 + 2 * Len(s1) /\ third = second + 2 + 2 * Len(s2)
  OBVIOUS
<1> HIDE DEF s1, s2, s3, header, second, third
<1>8. Appended(header, StrOffset, s1, first)
  BY <1>1, <1>3, <1>4, EncodedCells
<1> HIDE DEF first
<1>9. Appended(first, second, s2, both)
  <2>1. first \in Images
    BY <1>8 DEF Appended
  <2> QED BY <1>1, <1>3, <2>1, EncodedCells
<1> HIDE DEF both
<1>10. Appended(both, third, s3, all)
  <2>1. both \in Images
    BY <1>9 DEF Appended
  <2> QED BY <1>1, <1>3, <2>1, EncodedCells
<1> HIDE DEF all
<1>11. /\ image1 \in Images
       /\ \A i \in 0 .. 2 : image1[i] = header[i]
       /\ Decoded(image1, StrOffset) = s1 /\ Behind(image1, StrOffset) = second
       /\ Decoded(image1, second) = s2 /\ Behind(image1, second) = third
       /\ Decoded(image1, third) = s3
  <2>1. LaidOut(header, first, both, all, image1, s1, s2, s3, second, third)
    BY <1>6, <1>8, <1>9, <1>10, <1>0 DEF LaidOut
  <2> QED BY <1>1, <2>1, ThreeTexts
<1>12. Parsed(image1) = [ids |-> c.ids, have_serial |-> c.have_serial,
                         enable_ir |-> c.enable_ir, strings |-> <<s1, s2, s3>>]
  <2>1. image1[0] = c.ids /\ image1[1] = c.have_serial /\ image1[2] = c.enable_ir
    BY <1>5, <1>11
  <2> QED BY <1>11, <2>1 DEF Parsed
<1>13. [ids |-> c.ids, have_serial |-> c.have_serial, enable_ir |-> c.enable_ir,
        strings |-> c.strings] = c
  BY DEF Configs
<1> QED BY <1>7, <1>11, <1>12, <1>13

(* What parse_eeprom_to_conf finds in an image it can follow.               *)
LEMMA DecodedTyped ==
  ASSUME NEW data \in Images, NEW pos \in Nat, pos \in Cells,
         data[pos] < ImageSize - pos
  PROVE  /\ Decoded(data, pos) \in Texts
         /\ Behind(data, pos) \in Nat
<1>1. data[pos] \in Int /\ ImageSize \in Nat
  BY EepromAssumption DEF Images
<1> DEFINE n == (data[pos] - 1) \div 2
<1>2. n \in Int /\ 2 * n <= data[pos] - 1
  <2>1. \A x \in Int : x \div 2 \in Int /\ 2 * (x \div 2) <= x
    OBVIOUS
  <2> QED BY <1>1, <2>1
<1>3. \A i \in 1 .. n : pos + 2 * i \in Cells
  <2> HIDE DEF n
  <2> QED BY <1>1, <1>2 DEF Cells
<1>4. \A i \in 1 .. n : data[pos + 2 * i] \in Int
  BY <1>3 DEF Images
<1>5. PICK k \in Nat : 1 .. n = 1 .. k
  <2> HIDE DEF n
  <2>1. CASE n \in Nat
    BY <2>1
  <2>2. CASE n \notin Nat
    <3>1. 1 .. n = 1 .. 0
      BY <1>2, <2>2
    <3> QED BY <3>1
  <2> QED BY <2>1, <2>2
<1>6. Decoded(data, pos) = [i \in 1 .. k |-> data[pos + 2 * i]]
  BY <1>5 DEF Decoded
<1>7. Decoded(data, pos) \in Texts
  <2> HIDE DEF n
  <2>1. \A i \in 1 .. k : data[pos + 2 * i] \in Int
    BY <1>4, <1>5
  <2> QED BY <1>6, <2>1 DEF Texts
<1> QED BY <1>7 DEF Behind, Texts

LEMMA ParsedTyped ==
  ASSUME NEW data \in Images, Readable(data)
  PROVE  Parsed(data) \in Configs
<1> DEFINE second == Behind(data, StrOffset)
           third == Behind(data, second)
<1>1. StrOffset \in Nat /\ StrOffset \in Cells /\ ImageSize \in Nat
  BY EepromAssumption DEF Cells
<1>2. Decoded(data, StrOffset) \in Texts /\ second \in Nat
  BY <1>1, DecodedTyped DEF Readable
<1>3. second \in Cells /\ data[second] < ImageSize - second
  <2>1. second + 1 < ImageSize /\ data[second] < ImageSize - second
    BY DEF Readable
  <2> HIDE DEF second
  <2> QED BY <1>1, <1>2, <2>1 DEF Cells
<1>4. Decoded(data, second) \in Texts /\ third \in Nat
  <2> HIDE DEF second
  <2> QED BY <1>2, <1>3, DecodedTyped
<1>5. third \in Cells /\ data[third] < ImageSize - third
  <2>1. third + 1 < ImageSize /\ data[third] < ImageSize - third
    BY DEF Readable
  <2> HIDE DEF third
  <2> QED BY <1>1, <1>4, <2>1 DEF Cells
<1>6. Decoded(data, third) \in Texts
  <2> HIDE DEF third
  <2> QED BY <1>4, <1>5, DecodedTyped
<1>7. data[0] \in Int /\ data[1] \in Int /\ data[2] \in Int
  BY EepromAssumption DEF Images, Cells
<1>8. Parsed(data) = [ids |-> data[0], have_serial |-> data[1], enable_ir |-> data[2],
        strings |-> <<Decoded(data, StrOffset), Decoded(data, second),
                      Decoded(data, third)>>]
  BY DEF Parsed
<1> HIDE DEF second, third
<1> QED BY <1>2, <1>4, <1>6, <1>7, <1>8 DEF Configs

LEMMA ShortStrings == Strings \subseteq Texts /\ \E s \in Strings : Len(s) = 1
<1>1. Strings = UNION {[1 .. m -> Characters] : m \in 0 .. Longest}
  BY DEF Strings, BoundedSeq, SeqOf
<1>2. Strings \subseteq Texts
  <2> SUFFICES ASSUME NEW s \in Strings PROVE s \in Texts
    OBVIOUS
  <2>1. PICK m \in 0 .. Longest : s \in [1 .. m -> Characters]
    BY <1>1
  <2>2. m \in Nat
    BY EepromAssumption
  <2>3. \A i \in 1 .. m : s[i] \in Int
    <3>1. Characters \subseteq Int
      BY EepromAssumption
    <3>2. \A i \in 1 .. m : s[i] \in Characters
      BY <2>1
    <3> QED BY <3>1, <3>2
  <2> QED BY <2>1, <2>2, <2>3 DEF Texts
<1>3. \E s \in Strings : Len(s) = 1
  <2>1. PICK x : x \in Characters
    BY EepromAssumption
  <2>2. [i \in 1 .. 1 |-> x] \in [1 .. 1 -> Characters] /\ 1 \in 0 .. Longest
    BY <2>1, EepromAssumption
  <2>3. [i \in 1 .. 1 |-> x] \in Strings
    BY <1>1, <2>2
  <2>4. Len([i \in 1 .. 1 |-> x]) = 1
    OBVIOUS
  <2> QED BY <2>3, <2>4
<1> QED BY <1>2, <1>3

LEMMA DefaultTyped == Default \in Configs
<1> DEFINE one == CHOOSE s \in Strings : Len(s) = 1
<1>1. one \in Strings /\ one \in Texts /\ <<>> \in Texts
  BY ShortStrings DEF Texts
<1>2. Default = [ids |-> 1, have_serial |-> 1, enable_ir |-> 0,
                 strings |-> <<one, <<>>, one>>]
  BY DEF Default
<1> HIDE DEF one
<1> QED BY <1>1, <1>2 DEF Configs

LEMMA ChangedTyped ==
  ASSUME NEW c \in Configs, NEW d \in Changed(c)
  PROVE  d \in Configs
<1>1. ASSUME NEW k \in 1 .. 3, NEW str \in Strings
      PROVE  [c EXCEPT !.strings[k] = str] \in Configs
  BY ShortStrings DEF Configs
<1>2. Named(c) \subseteq Configs
  BY <1>1 DEF Named
<1>3. Numbered(c) \subseteq Configs
  <2> SUFFICES ASSUME NEW e \in Numbered(c) PROVE e \in Configs
    OBVIOUS
  <2>1. PICK str \in Strings : e = [c EXCEPT !.strings[3] = str, !.have_serial = 1]
    BY DEF Numbered
  <2>2. [c EXCEPT !.strings[3] = str] \in Configs
    BY <1>1
  <2>3. \A f \in Configs : [f EXCEPT !.have_serial = 1] \in Configs
    BY DEF Configs
  <2>4. [c EXCEPT !.strings[3] = str, !.have_serial = 1]
          = [[c EXCEPT !.strings[3] = str] EXCEPT !.have_serial = 1]
    BY Zenon
  <2> QED BY <2>1, <2>2, <2>3, <2>4
<1>4. Switched(c) \in Configs
  BY DEF Switched, Configs
<1> QED BY <1>2, <1>3, <1>4, DefaultTyped DEF Changed

LEMMA GeneratedIsImage ==
  ASSUME NEW c, NEW data, NEW image1 \in Generated(c, data)
  PROVE  image1 = [i \in Cells |-> image1[i]]
BY DEF Generated, Encoded

LEMMA SkipKeeps ==
  ASSUME WriteInv, Skip PROVE WriteInv'
<1>1. /\ phase = "writing" /\ position < ImageSize /\ position' = position + 1
      /\ eeprom' = eeprom /\ image' = image /\ phase' = phase
  BY DEF Skip, Turn
<1>2. position \in Nat /\ position \in Cells /\ position' \in 0 .. ImageSize
  BY <1>1, EepromAssumption DEF WriteInv, Cells
<1>3. unread \subseteq unread'
  BY DEF Skip, ReadBack
<1>4. \A i \in Cells : i < position' => Kept(i)'
  <2> SUFFICES ASSUME NEW i \in Cells, i < position' PROVE Kept(i)'
    OBVIOUS
  <2>1. CASE i < position
    BY <1>1, <1>3, <2>1 DEF WriteInv, Kept
  <2>2. CASE i = position /\ image[position] = eeprom[position]
    BY <1>1, <2>2 DEF Kept
  <2>3. CASE i = position /\ image[position] \in Stale /\ position \in unread'
    BY <1>1, <1>2, <2>3 DEF Stale, Kept
  <2>4. i < position \/ i = position
    BY <1>1, <1>2 DEF Cells
  <2> QED BY <2>1, <2>2, <2>3, <2>4 DEF Skip, ReadBack
<1> QED BY <1>1, <1>2, <1>4 DEF WriteInv

LEMMA WriteKeeps ==
  ASSUME WriteInv, WriteCell PROVE WriteInv'
<1>1. /\ phase = "writing" /\ position < ImageSize /\ position' = position + 1
      /\ eeprom' = [eeprom EXCEPT ![position] = image[position]]
      /\ image' = image /\ phase' = phase
  BY DEF WriteCell, Turn
<1>2. position \in Nat /\ position \in Cells /\ position' \in 0 .. ImageSize
  BY <1>1, EepromAssumption DEF WriteInv, Cells
<1>3. unread \subseteq unread'
  BY DEF WriteCell, ReadBack
<1>4. /\ eeprom' = [c \in Cells |-> eeprom'[c]]
      /\ eeprom'[position] = image[position]
      /\ \A i \in Cells : i # position => eeprom'[i] = eeprom[i]
  BY <1>1, <1>2 DEF WriteInv
<1>5. \A i \in Cells : i < position' => Kept(i)'
  <2> SUFFICES ASSUME NEW i \in Cells, i < position' PROVE Kept(i)'
    OBVIOUS
  <2>1. CASE i = position
    BY <1>1, <1>4, <2>1 DEF Kept
  <2>2. CASE i # position
    <3>1. i < position /\ Kept(i)
      BY <1>1, <1>2, <2>2 DEF WriteInv, Cells
    <3> QED BY <1>1, <1>3, <1>4, <2>2, <3>1 DEF Kept
  <2> QED BY <2>1, <2>2
<1> QED BY <1>1, <1>2, <1>4, <1>5 DEF WriteInv

LEMMA WriteInductive == Spec => []WriteInv
<1>1. Init => WriteInv
  <2> SUFFICES ASSUME Init PROVE WriteInv
    OBVIOUS
  <2>1. eeprom = [c \in Cells |-> eeprom[c]]
    BY GeneratedIsImage DEF Init
  <2> QED BY <2>1, EepromAssumption DEF Init, WriteInv
<1>2. WriteInv /\ [Next]_vars => WriteInv'
  <2> SUFFICES ASSUME WriteInv, [Next]_vars PROVE WriteInv'
    OBVIOUS
  <2>1. CASE Prepare
    BY <2>1 DEF Prepare, WriteInv
  <2>2. CASE FlashFile
    BY <2>2 DEF FlashFile, WriteInv
  <2>3. CASE Answer
    BY <2>3, EepromAssumption DEF Answer, Stop, WriteInv, Cells
  <2>4. CASE Skip
    BY <2>4, SkipKeeps
  <2>5. CASE WriteCell
    BY <2>5, WriteKeeps
  <2>6. CASE WriteFails
    BY <2>6 DEF WriteFails, WriteInv
  <2>7. CASE Finish
    BY <2>7 DEF Finish, WriteInv, Kept
  <2>8. CASE Exit
    BY <2>8, EepromAssumption DEF Exit, Stop, WriteInv
  <2>9. CASE Crash
    BY <2>9, EepromAssumption DEF Crash, WriteInv
  <2>10. CASE UNCHANGED vars
    BY <2>10 DEF vars, WriteInv, Kept
  <2> QED BY <2>1, <2>2, <2>3, <2>4, <2>5, <2>6, <2>7, <2>8, <2>9, <2>10 DEF Next
<1> QED BY <1>1, <1>2, PTL DEF Spec

(* While the program runs, the image is that of the configuration the user   *)
(* is asked about.                                                           *)
ImageInv ==
  /\ eeprom \in Images /\ image \in Images
  /\ phase # "off" => Parsed(image) = conf

LEMMA WriteCellTyped ==
  ASSUME ImageInv, WriteCell PROVE eeprom' \in Images
<1>1. eeprom' = [eeprom EXCEPT ![position] = image[position]]
  BY DEF WriteCell
<1>2. CASE position \in Cells
  <2>1. eeprom \in Images /\ image[position] \in Int
    BY <1>2 DEF ImageInv, Images
  <2> QED BY <1>1, <1>2, <2>1 DEF Images
<1>3. CASE position \notin Cells
  <2>1. eeprom' = eeprom
    BY <1>1, <1>3 DEF ImageInv, Images
  <2> QED BY <2>1 DEF ImageInv
<1> QED BY <1>2, <1>3

LEMMA PrepareKeepsImage ==
  ASSUME ImageInv, Prepare PROVE ImageInv'
<1>1. PICK c \in Changed(Parsed(eeprom)) : \E data \in Generated(c, eeprom) :
        conf' = c /\ image' = data
  BY DEF Prepare
<1>2. PICK data \in Generated(c, eeprom) : conf' = c /\ image' = data
  BY <1>1
<1>3. eeprom \in Images /\ eeprom' = eeprom /\ c \in Configs
  BY ParsedTyped, ChangedTyped DEF Prepare, ImageInv
<1>4. data \in Images /\ Parsed(data) = c
  BY <1>3, RoundTrip
<1> QED BY <1>2, <1>3, <1>4 DEF ImageInv

LEMMA FlashKeepsImage ==
  ASSUME ImageInv, FlashFile PROVE ImageInv'
<1>1. PICK data \in Generated(Default, eeprom), length \in {StrOffset, ImageSize} :
        image' = [c \in Cells |-> IF c < length THEN data[c] ELSE eeprom[c]]
  BY DEF FlashFile
<1>2. eeprom \in Images /\ data \in Images
  BY DefaultTyped, RoundTrip DEF ImageInv
<1>3. image' \in Images
  BY <1>1, <1>2 DEF Images
<1>4. Parsed(image') = conf' /\ eeprom' = eeprom
  BY DEF FlashFile
<1> QED BY <1>2, <1>3, <1>4 DEF ImageInv

LEMMA ImageInductive == Spec => []ImageInv
<1>1. Init => ImageInv
  <2> SUFFICES ASSUME Init PROVE ImageInv
    OBVIOUS
  <2> DEFINE blank == [i \in Cells |-> 0]
  <2>1. PICK c \in Changed(Default) :
          eeprom \in Generated(c, blank) /\ image = eeprom /\ conf = c
    BY DEF Init
  <2>2. blank \in Images
    BY DEF Images
  <2>3. c \in Configs
    BY DefaultTyped, ChangedTyped
  <2> HIDE DEF blank
  <2>4. eeprom \in Images
    BY <2>1, <2>2, <2>3, RoundTrip
  <2> QED BY <2>1, <2>4 DEF Init, ImageInv
<1>2. ImageInv /\ [Next]_vars => ImageInv'
  <2> SUFFICES ASSUME ImageInv, [Next]_vars PROVE ImageInv'
    OBVIOUS
  <2>1. CASE Prepare
    BY <2>1, PrepareKeepsImage
  <2>2. CASE FlashFile
    BY <2>2, FlashKeepsImage
  <2>3. CASE WriteCell
    BY <2>3, WriteCellTyped DEF WriteCell, Turn, ImageInv
  <2>4. CASE Answer \/ Skip \/ WriteFails \/ Finish \/ Exit \/ Crash
    BY <2>4 DEF Answer, Stop, Skip, Turn, WriteFails, Finish, Exit, Crash, ImageInv
  <2>5. CASE UNCHANGED vars
    BY <2>5 DEF vars, ImageInv
  <2> QED BY <2>1, <2>2, <2>3, <2>4, <2>5 DEF Next
<1> QED BY <1>1, <1>2, PTL DEF Spec

(* "Configuration successfully written" is true: every cell holds its new    *)
(* byte, but for those whose read-back failed on a repeated byte, and when   *)
(* none failed the chip decodes to what the user confirmed.                  *)
THEOREM SuccessIsAlwaysWritten == Spec => []SuccessIsWritten
<1>1. WriteInv => CellsWritten
  BY DEF WriteInv, CellsWritten, Cells
<1>2. WriteInv /\ ImageInv /\ phase = "written" /\ unread = {} => Parsed(eeprom) = conf
  <2> SUFFICES ASSUME WriteInv, ImageInv, phase = "written", unread = {}
               PROVE  Parsed(eeprom) = conf
    OBVIOUS
  <2>1. \A i \in Cells : eeprom[i] = image[i]
    BY <1>1 DEF CellsWritten, Kept
  <2>2. eeprom = image
    BY <2>1 DEF ImageInv, Images
  <2> QED BY <2>2 DEF ImageInv
<1>3. WriteInv /\ ImageInv => SuccessIsWritten
  BY <1>1, <1>2 DEF SuccessIsWritten
<1> QED BY <1>3, WriteInductive, ImageInductive, PTL
=============================================================================
