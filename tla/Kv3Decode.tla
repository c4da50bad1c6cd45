----------------------------- MODULE Kv3Decode -----------------------------
(* decode_kv3 of kv3_read.rs, kv3_decode.rs, kv3_legacy.rs and               *)
(* kv3_compression.rs: files of version 1 to 5 and of the legacy format.     *)
(* A decoder d holds what is left of each stream; `got` is the last number   *)
(* and `text` the last text or blob it read.                                 *)
EXTENDS Kv3Encode

NoDocument == Document("none", Scalar("null", "None", 0), 0)

Fail(d) == [d EXCEPT !.failed = TRUE]
Need(d, condition) == IF condition THEN d ELSE Fail(d)

\* Takes a number from the cells of a stream
HasNumber(cells, width) == Len(cells) >= width /\ cells[1][1] = width
Skip(cells, width) == SubSeq(cells, width + 1, Len(cells))
Lost(d) == [Fail(d) EXCEPT !.got = 0]

\* Reads one number of a buffer's stream
Get(d, buffer, stream) ==
    IF HasNumber(d[buffer][stream], Width[stream])
    THEN [d EXCEPT ![buffer][stream] = Skip(@, Width[stream]), !.got = d[buffer][stream][1][2]]
    ELSE Lost(d)

\* Reads from the stream of types, which in the legacy format is the only one
GetInline(d, width) ==
    IF HasNumber(d.types, width)
    THEN [d EXCEPT !.types = Skip(@, width), !.got = d.types[1][2]]
    ELSE Lost(d)

Active(d) == IF d.alternate_active THEN "alternate" ELSE "primary"

\* Reads from the streams that are active. Version 0 is the legacy format.
GetActive(d, stream) ==
    IF d.version = 0 THEN GetInline(d, Width[stream]) ELSE Get(d, Active(d), stream)

AddText(d, text) ==
    Need([d EXCEPT !.text = text, !.value_bytes = @ + Len(text)],
         Fits(d.value_bytes + Len(text)))

\* The flag byte without the bit that older versions set on strings
ClearStringBit(code) == IF (code \div 4) % 2 = 1 THEN code - 4 ELSE code

\* The type that one byte t gives, or with its highest bit set t and a flag f
FlaggedType(f, code, tag) ==
    LET flags == Flags(code, f.version)
    IN  IF flags = {} THEN Fail(f)
        ELSE [f EXCEPT !.tag = tag, !.flag = CHOOSE flag \in flags : TRUE]
TypeOf(t, f) ==
    LET old == t.version <= 2
    IN  IF t.got < 128 THEN [t EXCEPT !.tag = t.got, !.flag = "None"]
        ELSE FlaggedType(f, IF old /\ t.got % 128 = 6 THEN ClearStringBit(f.got) ELSE f.got,
                         t.got % (IF old THEN 128 ELSE 64))

\* read_value_type
ReadValueType(d) == LET t == GetInline(d, 1) IN TypeOf(t, GetInline(t, 1))

\* The values that a tag alone gives
ConstantTags ==
    [tag \in {1} \union 13..18 |->
        CASE tag = 1  -> <<"null", 0>>
          [] tag = 13 -> <<"boolean", 1>> [] tag = 14 -> <<"boolean", 0>>
          [] tag = 15 -> <<"signed", 0>>  [] tag = 16 -> <<"signed", 1>>
          [] tag = 17 -> <<"float64", 0>> [] tag = 18 -> <<"float64", 1>>]

\* The kinds of numbers and the streams that hold them
NumberTags ==
    [tag \in (2..5) \union {11, 12} \union 19..23 |->
        CASE tag = 2  -> <<"boolean", "bytes">>
          [] tag = 3  -> <<"signed", "doubles">>  [] tag = 4  -> <<"unsigned", "doubles">>
          [] tag = 5  -> <<"float64", "doubles">>
          [] tag = 11 -> <<"signed", "integers">> [] tag = 12 -> <<"unsigned", "integers">>
          [] tag = 19 -> <<"float32", "integers">>
          [] tag = 20 -> <<"signed", "shorts">>   [] tag = 21 -> <<"unsigned", "shorts">>
          [] tag = 22 -> <<"signed", "bytes">>    [] tag = 23 -> <<"unsigned", "bytes">>]

TypedArrayTags == {10, 24, 25}
ContainerTags  == {8, 9} \union TypedArrayTags

\* The tags that a version knows
IsTag(tag, version) == tag \in 1..(IF version = 0 THEN 18 ELSE 25)

\* read_indexed_string
ReadIndexedString(d, identifier) ==
    IF identifier = -1 THEN [d EXCEPT !.text = <<>>]
    ELSE IF identifier \notin 0..(Len(d.strings) - 1) THEN Fail(d)
    ELSE AddText(d, d.strings[identifier + 1])

\* The text whose identifier g has read
TextOf(g) == ReadIndexedString(g, g.got)
ReadString(d) == TextOf(GetActive(d, "integers"))

\* The name of a member: without an identifier, its place in the object; the
\* legacy format also counts an empty text as none. The place is counted from 0
\* and written in decimal digits.
IndexName(i) ==
    LET digits[n \in Nat] == IF n < 10 THEN <<48 + n>>
                             ELSE Append(digits[n \div 10], 48 + (n % 10))
    IN  digits[i - 1]
MemberName(named, none, i) ==
    IF none \/ (named.version = 0 /\ named.text = <<>>)
    THEN [named EXCEPT !.text = IndexName(i)] ELSE named
NameOf(g, i) == MemberName(TextOf(g), g.got = -1, i)
ReadName(d, i) == NameOf(GetActive(d, "integers"), i)

\* A blob among the bytes, as version 1 and the legacy format have it
InlineBlob(d) ==
    IF d.version = 0
    THEN IF d.got \notin 0..Len(d.types) THEN Fail(d)
         ELSE AddText([d EXCEPT !.types = SubSeq(@, d.got + 1, Len(@))],
                      ByteValues(SubSeq(d.types, 1, d.got)))
    ELSE IF d.got \notin 0..Len(d[Active(d)].bytes) THEN Fail(d)
         ELSE AddText([d EXCEPT ![Active(d)].bytes = SubSeq(@, d.got + 1, Len(@))],
                      ByteValues(SubSeq(d[Active(d)].bytes, 1, d.got)))

\* The next blob of the blob stream
NextBlob(d) ==
    IF d.lengths = <<>> \/ d.lengths[1] > Len(d.blobs) THEN Fail(d)
    ELSE AddText([d EXCEPT !.lengths = Tail(@),
                           !.blobs = SubSeq(@, d.lengths[1] + 1, Len(@))],
                 ByteValues(SubSeq(d.blobs, 1, d.lengths[1])))

\* read_blob
ReadBlob(d) ==
    IF d.version <= 1 THEN InlineBlob(GetActive(d, "integers")) ELSE NextBlob(d)

\* check_children, after the count was read
CheckChildren(d) == Need(d, IsCount(d.got) /\ d.got <= d.remaining)

\* An object's count is in a stream of its own in version 5
ReadChildCount(d, tag) ==
    CheckChildren(IF tag = 9 /\ d.version = 5 THEN Get(d, "objects", "integers")
                  ELSE GetActive(d, IF tag >= 24 THEN "bytes" ELSE "integers"))

\* Mutant: the elements of an array of tag 25 are taken from the streams that
\* hold the array
EnterTypedArrayInPlace(d, tag) == ReadValueType(Need(d, tag = 25 => d.version = 5))

\* The type that the elements of an array of tag 10, 24 or 25 share; what they
\* consist of is in the other buffer for tag 25
EnterTypedArray(d, tag) ==
    ReadValueType(Need([d EXCEPT !.alternate_active = @ \/ tag = 25],
                       tag = 25 => d.version = 5))

-----------------------------------------------------------------------------
(* Values. What a reader returns is its decoder and the value.               *)

Result(d, value) == [decoder |-> d, value |-> value]
NumberRead(d, tag, flag) ==
    Result(Need(d, tag = 2 => d.got \in {0, 1}), Scalar(NumberTags[tag][1], flag, d.got))
TextRead(d, kind, flag) == Result(d, Text(kind, flag, d.text))

\* read_typed_value, of a value without children
ReadScalar(d, tag, flag) ==
    CASE tag \in DOMAIN ConstantTags ->
            Result(d, Scalar(ConstantTags[tag][1], flag, ConstantTags[tag][2]))
      [] tag \in DOMAIN NumberTags ->
            NumberRead(GetActive(d, NumberTags[tag][2]), tag, flag)
      [] tag = 6 -> TextRead(ReadString(d), "string", flag)
      [] OTHER   -> TextRead(ReadBlob(d), "blob", flag)

\* A value counts before it is read
CountValue(d, depth) ==
    [Need(d, depth <= MaxDepth /\ d.remaining > 0 /\ IsTag(d.tag, d.version))
        EXCEPT !.remaining = @ - 1]

\* The calls of read_typed_value that have not returned: r.open holds the arrays
\* and objects that are being read, the outermost first, with what the header
\* said of them, the type that their elements share, and the children so far.
\* The first stands for the caller, which wants one value, the root.
NoType == [tag |-> -1, flag |-> "None"]
Begun(kind, flag, count, type, alternate) ==
    [kind |-> kind, flag |-> flag, count |-> count, type |-> type, alternate |-> alternate,
     names |-> <<>>, items |-> <<>>]
Reader(d) == [decoder |-> d, open |-> <<Begun("array", "None", 1, NoType, FALSE)>>]
ReaderIsDone(r) == Len(r.open) = 1 /\ r.open[1].items # <<>>

\* Adds a child to the innermost array or object
AddItem(open, item) == [open EXCEPT ![Len(open)].items = Append(@, item)]

\* read_array and read_object begin; counted has the count and entered what
\* follows it. The streams of the value are those of d again when it ends.
Begin(open, d, counted, entered) ==
    [decoder |-> entered,
     open |-> Append(open, Begun(IF d.tag = 9 THEN "object" ELSE "array", d.flag, counted.got,
                                 IF d.tag \in TypedArrayTags
                                 THEN [tag |-> entered.tag, flag |-> entered.flag] ELSE NoType,
                                 d.alternate_active))]
BeginChildren(open, d, counted) ==
    Begin(open, d, counted,
          IF d.tag \in TypedArrayTags THEN EnterTypedArray(counted, d.tag) ELSE counted)

AddResult(open, result) == [decoder |-> result.decoder, open |-> AddItem(open, result.value)]

\* read_typed_value, of the type that d has just read
ReadTypedValue(open, d) ==
    IF d.failed THEN [decoder |-> d, open |-> open]
    ELSE IF d.tag \in ContainerTags THEN BeginChildren(open, d, ReadChildCount(d, d.tag))
    ELSE AddResult(open, ReadScalar(d, d.tag, d.flag))

\* read_value: a type of its own, or the one that all elements share
ReadType(d, type) ==
    IF type = NoType THEN ReadValueType(d) ELSE [d EXCEPT !.tag = type.tag, !.flag = type.flag]
ReadValue(open, d) ==
    ReadTypedValue(open, CountValue(ReadType(d, Last(open).type), Len(open) - 1))

\* read_object refuses a name that an object has already
AddName(open, d) ==
    ReadValue([open EXCEPT ![Len(open)].names = Append(@, d.text)],
              Need(d, ~Contains(Last(open).names, d.text)))

\* The next child of the innermost array or object
ReadChild(open, d) ==
    IF Last(open).kind = "object" THEN AddName(open, ReadName(d, Len(Last(open).items) + 1))
    ELSE ReadValue(open, d)

\* An array or object is complete, and a child of the one around it
EndChildren(open, d, top) ==
    [decoder |-> [d EXCEPT !.alternate_active = top.alternate],
     open    |-> AddItem(Front(open), Value(top.kind, top.flag, 0, <<>>, top.names, top.items))]

\* The next step of the reader; a reader that is done or failed stops
ReadNext(r) ==
    LET top == Last(r.open)
    IN  IF r.decoder.failed \/ ReaderIsDone(r) THEN r
        ELSE IF Len(top.items) = top.count THEN EndChildren(r.open, r.decoder, top)
        ELSE ReadChild(r.open, r.decoder)

\* The reader at its end, and the root that it has read
ReadAll(d) ==
    LET r[n \in 0..Steps] == IF n = 0 THEN Reader(d) ELSE ReadNext(r[n - 1])
    IN  r[Steps]
RootOf(r) ==
    IF r.decoder.failed \/ ~ReaderIsDone(r) THEN Scalar("null", "None", 0) ELSE r.open[1].items[1]

\* Decoder::finish: nothing is left over
StreamsFinished(d) ==
    /\ \A buffer \in {"primary", "alternate"}, stream \in DOMAIN Width :
          d[buffer][stream] = <<>>
    /\ <<d.types, d.objects.integers, d.blobs, d.lengths>> = <<<<>>, <<>>, <<>>, <<>>>>

EmptyStreams == [stream \in DOMAIN Width |-> <<>>]

Decoder(version, primary, types, strings) ==
    [version |-> version, primary |-> [stream \in DOMAIN Width |-> primary[stream]],
     alternate |-> EmptyStreams, objects |-> EmptyStreams, types |-> types,
     strings |-> strings, blobs |-> <<>>, lengths |-> <<>>, alternate_active |-> FALSE,
     remaining |-> MaxCount, value_bytes |-> 0, got |-> 0, text |-> <<>>, tag |-> 0,
     flag |-> "None", failed |-> FALSE]

\* read_root; a failure is the null of NoDocument
RootRead(r) == IF StreamsFinished(r.decoder) THEN RootOf(r) ELSE NoDocument.root
ReadRoot(d) == RootRead(ReadAll(d))

-----------------------------------------------------------------------------
(* Compressed buffers. A compressed block is one cell <<-1, i>>, and         *)
(* file.blocks[i] what the library makes of it.                              *)

IsBlock(file, cells) == \E i \in DOMAIN file.blocks : cells = <<<<-1, i>>>>

\* What cells become
Decoded(file, cells) == IF IsBlock(file, cells) THEN file.blocks[cells[1][2]] ELSE <<>>

\* decompress, of the next `length` bytes
Decompress(file, cursor, length, expected, method) ==
    LET cells == Part(cursor, length)
        Checked(output) ==
            If(/\ Read(cursor, length).at >= 0 /\ Fits(expected) /\ Len(output) = expected
               /\ method # 0 => IsBlock(file, cells), Cursor(output))
    IN  Checked(IF method = 0 THEN cells ELSE Decoded(file, cells))

\* decompress_chain: frames of these sizes, which the blobs together fill
AddFrame(r, decoded, rest, expected) ==
    [cells  |-> r.cells \o decoded,
     cursor |-> If(Len(decoded) \in 1..(expected - Len(r.cells)), rest)]
DecompressChain(file, start, expected, frames) ==
    LET Complete(all) == [all EXCEPT !.cursor = If(Len(all.cells) = expected, @)]
    IN  Complete(FoldLeft(LAMBDA r, size :
                              AddFrame(r, Decoded(file, Part(r.cursor, size)),
                                       Read(r.cursor, size), expected),
                          [cells |-> <<>>, cursor |-> start], frames))

-----------------------------------------------------------------------------
(* The buffers of each version. An `input` is the body of the file, a        *)
(* `payload` what its first part decompresses to.                            *)

\* read_blob_lengths: what they are and what follows them
LengthsRead(r, size) ==
    [lengths |-> r.numbers,
     cursor  |-> If(/\ \A i \in DOMAIN r.numbers : IsLength(r.numbers[i])
                    /\ Total(r.numbers) = size,
                    ReadTrailer(r.cursor, TRAILER))]
ReadBlobLengths(payload, h) == LengthsRead(ReadNumbers(payload, 4, h.blob_count), h.blob_size)

\* A second trailer follows the blobs
EndBlobs(h, input) == IF h.blob_count > 0 THEN ReadTrailer(input, TRAILER) ELSE input

\* Blobs in the input, behind the sizes of their frames in the payload
FramedBlobs(h, chain, frames) ==
    [cells |-> chain.cells, input |-> EndBlobs(h, chain.cursor), payload |-> frames.cursor]
BlobFrames(file, h, input, frames) ==
    FramedBlobs(h, DecompressChain(file, input, h.blob_size, frames.numbers), frames)

\* read_older_blobs: the blobs and what is left of input and payload
ReadOlderBlobs(file, h, input, payload) ==
    IF \/ h.compression = 2
       \/ h.compression = 0 /\ Remaining(payload) = h.blob_size
    THEN [cells |-> Part(payload, h.blob_size), input |-> EndBlobs(h, input),
          payload |-> Read(payload, h.blob_size)]
    ELSE IF h.compression = 0
    THEN [cells |-> Part(input, h.blob_size), input |-> EndBlobs(h, Read(input, h.blob_size)),
          payload |-> payload]
    ELSE BlobFrames(file, h, input,
                    ReadNumbers(payload, 2, IF file.magic >= 4 THEN h.blob_frame_count
                                            ELSE Remaining(payload) \div 2))

\* The root, if all parts were there, and what is left of the input
Body(complete, d, input) ==
    [root |-> IF complete /\ input.at >= 0 THEN ReadRoot(d) ELSE NoDocument.root,
     input |-> input]

\* Integers of a buffer behind the number of texts
AfterCount(streams) == [streams EXCEPT !.integers = SubSeq(@, 5, Len(@))]
TextCount(streams) == ReadNumber(Cursor(streams.integers), 4).number

\* read_v2_v4: the parts of the payload one after the other
BodyV2V4(file, primary, table, lengths, blobs) ==
    Body(table.cursor.at >= 0 /\ Finished(blobs.payload),
         [Decoder(file.magic, AfterCount(primary), Part(table.cursor, Remaining(table.cursor)),
                  table.strings)
            EXCEPT !.blobs = blobs.cells, !.lengths = lengths.lengths],
         blobs.input)
BlobsV2V4(file, h, primary, lengths) ==
    BodyV2V4(file, primary,
             ReadTable(TextCount(primary), Cursor(Part(primary.cursor, h.type_size))),
             lengths,
             ReadOlderBlobs(file, h, Read(Cursor(file.body), h.encoded_size), lengths.cursor))
PayloadV2V4(file, h, primary) ==
    BlobsV2V4(file, h, primary, ReadBlobLengths(Read(primary.cursor, h.type_size), h))
ReadV2V4(file) ==
    LET h == Header(file.magic, file.fields)
        expected == h.decoded_size + IF h.compression = 2 THEN h.blob_size ELSE 0
    IN  PayloadV2V4(file, h,
            ReadStreams(Decompress(file, Cursor(file.body), h.encoded_size, expected, h.compression),
                        h.counts, TRUE))

\* read_v5_blobs
BlockOfBlobs(data, rest) == [cells |-> data.cells, cursor |-> If(data.at >= 0, rest)]
ReadV5Blobs(file, h, input, frames) ==
    LET encoded == Version5(file.fields).encoded
        size    == h.encoded_size - (encoded[1] + encoded[2])
    IN  IF h.blob_size = 0
        THEN [cells |-> <<>>, cursor |-> If(frames = <<>>, input)]
        ELSE CASE h.compression = 0 ->
                    [cells |-> Part(input, h.blob_size), cursor |-> Read(input, h.blob_size)]
               [] h.compression = 1 -> DecompressChain(file, input, h.blob_size, frames)
               [] h.compression = 2 -> BlockOfBlobs(Decompress(file, input, size, h.blob_size, 2),
                                                    Read(input, size))

\* read_v5: a buffer with the texts, which tag 25 reads from, and one with the
\* rest, behind the counts of the objects
BodyV5(v, h, alternate, table, objects, primary, lengths, frames, blobs) ==
    Body(/\ v.decoded[1] + v.decoded[2] = h.decoded_size
         /\ table.cursor.at >= 0 /\ Finished(alternate.cursor) /\ Finished(frames.cursor),
         [Decoder(5, primary, Part(primary.cursor, h.type_size), table.strings)
            EXCEPT !.alternate = [stream \in DOMAIN Width |->
                                     IF stream = "bytes"
                                     THEN Part(table.cursor, Remaining(table.cursor))
                                     ELSE AfterCount(alternate)[stream]],
                   !.objects.integers = objects,
                   !.blobs = blobs.cells, !.lengths = lengths.lengths],
         EndBlobs(h, blobs.cursor))
BlobsV5(file, h, alternate, objects, primary, lengths, frames, input) ==
    BodyV5(Version5(file.fields), h, alternate,
           ReadTable(TextCount(alternate), Cursor(alternate.bytes)),
           objects, primary, lengths, frames, ReadV5Blobs(file, h, input, frames.numbers))
FramesV5(file, h, alternate, objects, primary, lengths, input) ==
    BlobsV5(file, h, alternate, objects, primary, lengths,
            ReadNumbers(lengths.cursor, 2, h.blob_frame_count), input)
LengthsV5(file, h, alternate, objects, primary, input) ==
    FramesV5(file, h, alternate, objects, primary,
             ReadBlobLengths(Read(primary.cursor, h.type_size), h), input)
BuffersV5(file, h, v, first, second, input) ==
    LengthsV5(file, h, ReadStreams(first, h.counts, FALSE), Part(second, 4 * v.object_count),
              ReadStreams(Read(second, 4 * v.object_count), v.counts, FALSE), input)
ReadV5(file) ==
    LET h     == Header(5, file.fields)
        v     == Version5(file.fields)
        sizes == IF h.compression = 0 THEN v.decoded ELSE v.encoded
        Behind(middle) ==
            BuffersV5(file, h, v,
                Decompress(file, Cursor(file.body), sizes[1], v.decoded[1], h.compression),
                Decompress(file, middle, sizes[2], v.decoded[2], h.compression),
                Read(middle, sizes[2]))
    IN  Behind(Read(Cursor(file.body), sizes[1]))

\* read_v1: no length of the types, and blobs inside the byte stream
TableV1(primary, table, types, input) ==
    Body(ReadTrailer(Read(table.cursor, types), TRAILER).at >= 0,
         Decoder(1, AfterCount(primary), Part(table.cursor, types), table.strings), input)
BufferV1(primary, table, input) ==
    TableV1(primary, table, Remaining(table.cursor) - 4, input)
PayloadV1(primary, input) ==
    BufferV1(primary, ReadTable(TextCount(primary), primary.cursor), input)
ReadV1(file) ==
    LET f       == file.fields
        counts  == Counts(f[2], 0, f[3], f[4])
        encoded == IF f[1] = 0 THEN f[5] ELSE Len(file.body)
    IN  IF f[1] \in {0, 1} /\ CountsInLimits(counts) /\ IsLength(f[5])
        THEN PayloadV1(ReadStreams(Decompress(file, Cursor(file.body), encoded, f[5], f[1]),
                                   counts, TRUE),
                       Read(Cursor(file.body), encoded))
        ELSE [root |-> NoDocument.root, input |-> Broken]

-----------------------------------------------------------------------------
(* The legacy format: one stream, and one table of strings before it.        *)

\* read_compressed_blocks: groups of a mask and sixteen elements, each a byte
\* or a reference to bytes before it
CopyBytes(r, token, distance, count, expected) ==
    IF token.cursor.at >= 0 /\ distance <= Len(r.cells) /\ count <= expected - Len(r.cells)
    THEN [cells  |-> r.cells \o [i \in 1..count |->
                        r.cells[Len(r.cells) - distance + 1 + ((i - 1) % distance)]],
          cursor |-> token.cursor]
    ELSE [r EXCEPT !.cursor = Broken]
Copy(r, token, expected) ==
    CopyBytes(r, token, token.number \div 16 + 1, (token.number % 16) + 3, expected)

ReadElement(r, mask, bit, expected) ==
    IF r.cursor.at < 0 \/ Len(r.cells) = expected THEN r
    ELSE IF (mask \div 2^bit) % 2 = 0
    THEN [cells |-> r.cells \o Part(r.cursor, 1), cursor |-> Read(r.cursor, 1)]
    ELSE Copy(r, ReadNumber(r.cursor, 2), expected)

ReadGroup(output, mask, expected) ==
    FoldLeft(LAMBDA r, bit : ReadElement(r, mask.number, bit, expected),
             [cells |-> output, cursor |-> mask.cursor], [i \in 1..16 |-> i - 1])

\* A group has sixteen elements, of a byte at least, unless it is the last
ExpandGroups(start, expected) ==
    LET Expanded(r) == IF r.cursor.at < 0 \/ Len(r.cells) >= expected THEN r
                       ELSE ReadGroup(r.cells, ReadNumber(r.cursor, 2), expected)
        Groups == expected \div 16 + 1
        group[n \in 0..Groups] == IF n = 0 THEN start ELSE Expanded(group[n - 1])
    IN  group[Groups]

\* The highest bit of the first number marks bytes that are not compressed
BlocksRead(header, expected) ==
    IF header.number < 0
    THEN [cells |-> Part(header.cursor, expected), cursor |-> Read(header.cursor, expected)]
    ELSE ExpandGroups([cells |-> <<>>, cursor |-> If(Fits(expected), header.cursor)], expected)
ReadCompressedBlocks(input) ==
    LET header == ReadNumber(input, 4) IN BlocksRead(header, header.number % 16777216)

\* read_legacy: a document, or NoDocument, from its value, and the zero bytes
\* behind the last trailer and behind the compressed blocks
LegacyDocument(format, root, inside, behind) ==
    IF root.kind = "object" /\ inside >= 0 /\ behind >= 0 /\ inside + behind <= 15
    THEN Document(format, root, inside + behind) ELSE NoDocument
LegacyEnd(file, r, input) ==
    LegacyDocument(file.format, RootOf(r),
                   TrailingPadding(ReadTrailer(Cursor(r.decoder.types), LegacyTrailer)),
                   TrailingPadding(input))
LegacyTable(file, table, input) ==
    LegacyEnd(file, ReadAll([Decoder(0, EmptyStreams, Part(table.cursor, Remaining(table.cursor)),
                                     table.strings) EXCEPT !.failed = table.cursor.at < 0]),
              input)
LegacyData(file, count, input) ==
    LegacyTable(file, ReadTable(count.number, count.cursor), input)
LegacyBlocks(file, blocks) ==
    LegacyData(file, ReadNumber(If(blocks.cursor.at >= 0, Cursor(blocks.cells)), 4), blocks.cursor)
LegacyBlock(file, length) ==
    LegacyData(file, ReadNumber(Decompress(file, length.cursor, Remaining(length.cursor),
                                           length.number, 1), 4), Cursor(<<>>))
ReadLegacy(file) ==
    LET start == Cursor(file.body)
    IN  CASE file.fields[1] = 0 -> LegacyData(file, ReadNumber(start, 4), Cursor(<<>>))
          [] file.fields[1] = 1 -> LegacyBlocks(file, ReadCompressedBlocks(start))
          [] file.fields[1] = 2 -> LegacyBlock(file, ReadNumber(start, 4))
          [] OTHER -> NoDocument

-----------------------------------------------------------------------------
\* The document that a body and the zero bytes at its end make
DocumentRead(format, root, zeros) ==
    IF root.kind = "object" /\ zeros >= 0 THEN Document(format, root, zeros) ELSE NoDocument
BodyRead(file, body) == DocumentRead(file.format, body.root, TrailingPadding(body.input))

\* decode_kv3; a failure is NoDocument
DecodeKv3(file) ==
    LET headerIsComplete ==
            Len(file.fields) = IF file.magic = 0 THEN 4 ELSE HeaderFields[file.magic]
    IN  IF \/ file.magic \notin 0..5 \/ ~headerIsComplete \/ ~Fits(FileSize(file))
           \/ file.magic \in 2..5 /\ ~HeaderIsValid(file.magic, file.fields)
        THEN NoDocument
        ELSE CASE file.magic = 0 -> ReadLegacy(file)
               [] file.magic = 1 -> BodyRead(file, ReadV1(file))
               [] file.magic \in 2..4 -> BodyRead(file, ReadV2V4(file))
               [] file.magic = 5 -> BodyRead(file, ReadV5(file))
=============================================================================
