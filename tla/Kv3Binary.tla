----------------------------- MODULE Kv3Binary -----------------------------
(* Values of the KV3 format and the bytes they are read from: kv3_value.rs,  *)
(* binary_reader.rs, kv3_streams.rs and kv3_header.rs of deadlock-steam.     *)
(* A byte is a cell <<1, b>>. A number of several bytes is the cell          *)
(* <<width, number>> followed by the cells of its other bytes, so that       *)
(* lengths, offsets and alignment are those of the file, and a read at a     *)
(* wrong place finds no number.                                              *)
EXTENDS Integers, Sequences, SequencesExt

CONSTANTS MaxBytes,     \* MAX_BINARY_BYTES
          MaxCount,     \* MAX_VALUE_COUNT
          MaxDepth      \* MAX_VALUE_DEPTH

ASSUME LimitsAssumption == {MaxBytes, MaxCount, MaxDepth} \subseteq Nat \ {0} /\ MaxCount <= MaxBytes

TRAILER == -1122048         \* 0xffeedd00 as a signed number
LegacyTrailer == -1         \* u32::MAX

-----------------------------------------------------------------------------
(* Values. Floating point numbers are their bits; 0 and 1 stand for those of *)
(* 0.0 and 1.0. Texts and blobs are sequences of bytes.                      *)

Value(kind, flag, number, text, names, items) ==
    [kind |-> kind, flag |-> flag, number |-> number, text |-> text,
     names |-> names, items |-> items]
Scalar(kind, flag, number) == Value(kind, flag, number, <<>>, <<>>, <<>>)
Text(kind, flag, text)     == Value(kind, flag, 0, text, <<>>, <<>>)
Array(flag, items)         == Value("array", flag, 0, <<>>, <<>>, items)
Object(flag, names, items) == Value("object", flag, 0, <<>>, names, items)

Document(format, root, zeros) ==
    [format |-> format, root |-> root, trailing_zero_bytes |-> zeros]

FlagCodes5 == [None |-> 0, Resource |-> 1, ResourceName |-> 2, Panorama |-> 3,
               SoundEvent |-> 4, Subclass |-> 5, EntityName |-> 6]
FlagCodes4 == [None |-> 0, Resource |-> 1, ResourceName |-> 2, Panorama |-> 8,
               SoundEvent |-> 16, Subclass |-> 32]

FlagCodes(version) == IF version = 5 THEN FlagCodes5 ELSE FlagCodes4

\* Kv3Flag::decode: the flags with this code, none or one
Flags(code, version) ==
    {flag \in DOMAIN FlagCodes(version) : FlagCodes(version)[flag] = code}

-----------------------------------------------------------------------------
(* Bytes and the cursor that reads them. A cursor that failed is at -1.      *)

Byte(b) == <<1, b>>
Number(width, n) == <<<<width, n>>>> \o [i \in 1..(width - 1) |-> <<0, 0>>]
Bytes(numbers) == [i \in DOMAIN numbers |-> Byte(numbers[i])]
Numbers(width, numbers) ==
    [i \in 1..(width * Len(numbers)) |->
        IF i % width = 1 THEN <<width, numbers[i \div width + 1]>> ELSE <<0, 0>>]
Zeros(n) == [i \in 1..n |-> Byte(0)]

\* Bytes from offset up to the next multiple of a width
Padding(offset, width) == (width - (offset % width)) % width

Cursor(cells) == [cells |-> cells, at |-> 0]

Read(cursor, n) ==
    LET end == cursor.at + n
    IN  [cursor EXCEPT !.at = IF cursor.at >= 0 /\ n >= 0 /\ end <= Len(cursor.cells)
                              THEN end ELSE -1]

\* The bytes that Read(cursor, n) passes
Part(cursor, n) ==
    IF Read(cursor, n).at < 0 THEN <<>>
    ELSE SubSeq(cursor.cells, cursor.at + 1, cursor.at + n)

Remaining(cursor) == IF cursor.at < 0 THEN -1 ELSE Len(cursor.cells) - cursor.at

Align(cursor, width) == Read(cursor, Padding(cursor.at, width))

Finished(cursor) == Remaining(cursor) = 0

Broken == [cells |-> <<>>, at |-> -1]
If(condition, cursor) == IF condition THEN cursor ELSE Broken

\* The numbers in these cells, if they are the cells of so many, and what follows
NumbersIn(cells, width, count, rest) ==
    IF Len(cells) = width * count /\ \A i \in 1..count : cells[width * (i - 1) + 1][1] = width
    THEN [numbers |-> [i \in 1..count |-> cells[width * (i - 1) + 1][2]], cursor |-> rest]
    ELSE [numbers |-> <<>>, cursor |-> Broken]

\* read_u16, read_u32 and their repetition
ReadNumbers(cursor, width, count) ==
    NumbersIn(Part(cursor, width * count), width, count, Read(cursor, width * count))

FirstNumber(r) ==
    [number |-> IF r.numbers = <<>> THEN -1 ELSE r.numbers[1], cursor |-> r.cursor]

ReadNumber(cursor, width) == FirstNumber(ReadNumbers(cursor, width, 1))

\* Mutant: the four bytes may be any
ReadTrailerAny(cursor, trailer) == Read(cursor, 4)

\* read_trailer
ReadTrailer(cursor, trailer) ==
    LET r == ReadNumber(cursor, 4) IN If(r.number = trailer, r.cursor)

\* trailing_padding: the number of zero bytes at the end, or -1
TrailingPadding(cursor) ==
    LET length == Remaining(cursor)
    IN  IF length \in 0..15 /\ Part(cursor, length) = Zeros(length) THEN length ELSE -1

\* checked_total: the sum of lengths, if it is within the limit
Total(lengths) ==
    LET total[n \in 0..Len(lengths)] == IF n = 0 THEN 0 ELSE total[n - 1] + lengths[n]
    IN  total[Len(lengths)]
Fits(total) == total <= MaxBytes

IsLength(n) == n \in 0..MaxBytes
IsCount(n)  == IsLength(n) /\ n <= MaxCount

-----------------------------------------------------------------------------
(* The streams of a buffer: bytes, then shorts, integers and doubles, each   *)
(* at a multiple of its width.                                               *)

Width == [bytes |-> 1, shorts |-> 2, integers |-> 4, doubles |-> 8]

\* Where a stream begins
StreamStart(cursor, stream, counts, forceAlignment) ==
    IF counts[stream] > 0 \/ forceAlignment THEN Align(cursor, Width[stream]) ELSE cursor

\* The streams one after the other, and what follows them
ReadStreams(start, counts, forceAlignment) ==
    LET At(cursor, stream)     == StreamStart(cursor, stream, counts, forceAlignment)
        Size(stream)           == Width[stream] * counts[stream]
        Behind(cursor, stream) == Read(At(cursor, stream), Size(stream))
        Cells(cursor, stream)  == Part(At(cursor, stream), Size(stream))
        shorts   == Behind(start, "bytes")
        integers == Behind(shorts, "shorts")
        doubles  == Behind(integers, "integers")
    IN  [bytes    |-> Cells(start, "bytes"),       shorts  |-> Cells(shorts, "shorts"),
         integers |-> Cells(integers, "integers"), doubles |-> Cells(doubles, "doubles"),
         cursor   |-> Behind(doubles, "doubles")]

\* The numbers that byte cells hold
ByteValues(cells) == [i \in DOMAIN cells |-> cells[i][2]]

\* read_string: a text is what comes before the next zero byte
AddString(r, text, length) ==
    [strings |-> Append(r.strings, ByteValues(text)), cursor |-> Read(r.cursor, length + 1)]
ReadNextString(r) ==
    LET cells == r.cursor.cells
        end   == SelectInSubSeq(cells, r.cursor.at + 1, Len(cells), LAMBDA c : c = Byte(0))
    IN  IF r.cursor.at < 0 \/ end = 0 THEN [r EXCEPT !.cursor = Broken]
        ELSE AddString(r, Part(r.cursor, end - r.cursor.at - 1), end - r.cursor.at - 1)

\* read_strings: so many texts
ReadStrings(cursor, count) ==
    LET read[n \in 0..count] == IF n = 0 THEN [strings |-> <<>>, cursor |-> cursor]
                                ELSE ReadNextString(read[n - 1])
    IN  read[count]

\* The texts at a cursor, with their number read before
ReadTable(count, cursor) ==
    IF IsCount(count) THEN ReadStrings(cursor, count) ELSE [strings |-> <<>>, cursor |-> Broken]

-----------------------------------------------------------------------------
(* Headers: the numbers of four bytes that follow magic and format. The      *)
(* second holds two numbers of two bytes, dictionary and frame size.         *)

HeaderFields == [version \in 1..5 |-> CASE version = 1 -> 5
                                        [] version \in {2, 3} -> 11
                                        [] version = 4 -> 13
                                        [] version = 5 -> 25]

Counts(bytes, shorts, integers, doubles) ==
    [bytes |-> bytes, shorts |-> shorts, integers |-> integers, doubles |-> doubles]

\* Version5::read, from the fields after the thirteenth
Version5(f) ==
    [decoded |-> <<f[14], f[16]>>, encoded |-> <<f[15], f[17]>>,
     counts |-> Counts(f[18], f[19], f[20], f[21]), object_count |-> f[23]]

\* Header::read: the header of a file of version 2 to 5
Header(version, f) ==
    [compression |-> f[1], frame_size |-> f[2] \div 65536,
     counts |-> Counts(f[3], IF version >= 4 THEN f[12] ELSE 0, f[4], f[5]),
     type_size |-> f[6], decoded_size |-> f[8], encoded_size |-> f[9],
     blob_count |-> f[10], blob_size |-> f[11],
     blob_frame_count |-> IF version >= 4 THEN f[13] \div 2 ELSE 0]

CountsInLimits(counts) ==
    /\ IsLength(counts.bytes)
    /\ \A stream \in {"shorts", "integers", "doubles"} : IsCount(counts[stream])

Version5InLimits(v) ==
    /\ \A i \in 1..2 : IsLength(v.decoded[i]) /\ IsLength(v.encoded[i])
    /\ Fits(v.decoded[1] + v.decoded[2])
    /\ CountsInLimits(v.counts)
    /\ IsCount(v.object_count)

\* What Header::read and validate_compression accept
HeaderIsValid(version, f) ==
    LET h == Header(version, f)
    IN  /\ f[2] % 65536 = 0
        /\ <<h.compression, h.frame_size>> \in {<<0, 0>>, <<2, 0>>, <<1, 16384>>}
        /\ CountsInLimits(h.counts)
        /\ \A n \in {h.type_size, h.decoded_size, h.encoded_size, h.blob_size} : IsLength(n)
        /\ IsCount(h.blob_count)
        /\ Fits(h.decoded_size + h.blob_size)
        /\ version >= 4 => IsLength(f[13]) /\ f[13] % 2 = 0
        /\ version = 5 => Version5InLimits(Version5(f))
=============================================================================
