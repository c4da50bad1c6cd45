----------------------------- MODULE Kv3Encode -----------------------------
(* encode_kv3 of kv3_encode.rs: a document becomes a file of version 4, or   *)
(* of version 5 when a flag needs it. The encoder e collects streams; a file *)
(* is its header and its body. `blocks` is what the compressed blocks of a   *)
(* body decompress to: none here, since the encoder never compresses.        *)
EXTENDS Kv3Binary

Containers == {"array", "object"}

File(magic, format, fields, body, blocks) ==
    [magic |-> magic, format |-> format, fields |-> fields, body |-> body,
     blocks |-> blocks]

NoFile == File(0, 0, <<>>, <<>>, <<>>)

Encoder(version5) ==
    [version5 |-> version5, objects |-> <<>>, strings |-> <<>>,
     integers |-> IF version5 THEN <<>> ELSE <<0>>, doubles |-> <<>>,
     types |-> <<>>, blobs |-> <<>>, lengths |-> <<>>, string_bytes |-> 0,
     value_bytes |-> 0, remaining |-> MaxCount, id |-> 0, failed |-> FALSE]

Require(e, condition) == [e EXCEPT !.failed = @ \/ ~condition]

AddValueBytes(e, length) ==
    Require([e EXCEPT !.value_bytes = @ + length], Fits(e.value_bytes + length))

\* Adds a text to the table
NewString(e, text) ==
    LET size == e.string_bytes + Len(text) + 1
    IN  Require([e EXCEPT !.strings = Append(@, text), !.string_bytes = size,
                          !.id = Len(e.strings)],
                ~Contains(text, 0) /\ Fits(size) /\ Len(e.strings) < MaxCount)

\* register_string: the identifier of a text, -1 for the empty one
RegisterString(e, text) ==
    LET counted == AddValueBytes(e, Len(text))
    IN  IF text = <<>> THEN [counted EXCEPT !.id = -1]
        ELSE IF Contains(e.strings, text)
        THEN [counted EXCEPT !.id = SelectInSeq(e.strings, LAMBDA s : s = text) - 1]
        ELSE NewString(counted, text)

WriteString(e, text) ==
    LET r == RegisterString(e, text)
    IN  [r EXCEPT !.integers = Append(@, r.id)]

\* write_type_tag
WriteTypeTag(e, tag, flag) ==
    LET codes == FlagCodes(IF e.version5 THEN 5 ELSE 4)
    IN  IF flag \notin DOMAIN codes THEN Require(e, FALSE)
        ELSE [e EXCEPT !.types = @ \o IF codes[flag] = 0 THEN <<tag>>
                                      ELSE <<tag + 128, codes[flag]>>]

WriteScalar64(e, tag, value) ==
    [WriteTypeTag(e, tag, value.flag) EXCEPT !.doubles = Append(@, value.number)]

WriteSigned(e, value) ==
    IF value.number \in {0, 1} THEN WriteTypeTag(e, 15 + value.number, value.flag)
    ELSE WriteScalar64(e, 3, value)

WriteBlob(e, value) ==
    [AddValueBytes(WriteTypeTag(e, 7, value.flag), Len(value.text))
        EXCEPT !.lengths = Append(@, Len(value.text)), !.blobs = @ \o value.text]

\* The number of children, in the stream that version and kind give it
WriteChildCount(e, value) ==
    LET n == Len(value.items)
        checked == Require(WriteTypeTag(e, IF value.kind = "array" THEN 8 ELSE 9, value.flag),
                           n <= MaxCount)
    IN  IF value.kind = "object" /\ e.version5
        THEN [checked EXCEPT !.objects = Append(@, n)]
        ELSE [checked EXCEPT !.integers = Append(@, n)]

\* write_object: the name of a member, neither empty nor repeated
WriteName(e, value, i) ==
    WriteString(Require(e, /\ value.names[i] # <<>>
                           /\ \A j \in 1..(i - 1) : value.names[j] # value.names[i]),
                value.names[i])

\* A value counts before it is written
Counted(e, depth) ==
    [Require(e, depth <= MaxDepth /\ e.remaining > 0) EXCEPT !.remaining = @ - 1]

\* write_value: the value itself; the children of an array or object follow
WriteCounted(e, value) ==
    CASE value.kind = "null"     -> WriteTypeTag(e, 1, value.flag)
      [] value.kind = "boolean"  -> WriteTypeTag(e, 14 - value.number, value.flag)
      [] value.kind = "signed"   -> WriteSigned(e, value)
      [] value.kind = "unsigned" -> WriteScalar64(e, 4, value)
      [] value.kind = "float64"  -> WriteScalar64(e, 5, value)
      [] value.kind = "float32"  -> [WriteTypeTag(e, 19, value.flag)
                                        EXCEPT !.integers = Append(@, value.number)]
      [] value.kind = "string"   -> WriteString(WriteTypeTag(e, 6, value.flag), value.text)
      [] value.kind = "blob"     -> WriteBlob(e, value)
      [] value.kind \in Containers -> WriteChildCount(e, value)
WriteValue(e, value, depth) == WriteCounted(Counted(e, depth), value)

\* The calls of write_value that have not returned: w.open holds the arrays and
\* objects that are being written, the outermost first, and which child is next.
\* The first stands for the caller, whose only child is the root.
Opened(value) == [value |-> value, next |-> 1]
Writer(version5, root) ==
    [encoder |-> Encoder(version5), open |-> <<Opened(Array("None", <<root>>))>>]
WriterIsDone(w) == Len(w.open) = 1 /\ w.open[1].next = 2

\* The next child of the innermost one: its name in an object, then the value
WriteChild(w, top, child) ==
    LET named == IF top.value.kind = "object" THEN WriteName(w.encoder, top.value, top.next)
                 ELSE w.encoder
        rest  == Append(Front(w.open), [top EXCEPT !.next = @ + 1])
    IN  [encoder |-> WriteValue(named, child, Len(w.open) - 1),
         open    |-> IF child.kind \in Containers THEN Append(rest, Opened(child)) ELSE rest]

\* The next step of the writer; a writer that is done or failed stops
WriteNext(w) ==
    LET top == Last(w.open)
    IN  IF w.encoder.failed \/ WriterIsDone(w) THEN w
        ELSE IF top.next > Len(top.value.items) THEN [w EXCEPT !.open = Front(@)]
        ELSE WriteChild(w, top, top.value.items[top.next])

\* Every value is begun once and ended at most once
Steps == 2 * MaxCount

Written(version5, root) ==
    LET w[n \in 0..Steps] == IF n = 0 THEN Writer(version5, root) ELSE WriteNext(w[n - 1])
    IN  w[Steps]

-----------------------------------------------------------------------------
(* The body: for version 4 one buffer with the number of strings as its      *)
(* first integer, for version 5 two.                                         *)

StringTable(e) == FlattenSeq([i \in DOMAIN e.strings |-> Bytes(e.strings[i]) \o Zeros(1)])

\* What ends both: the types, the lengths of the blobs and the trailer
Ending(e) == Bytes(e.types) \o Numbers(4, e.lengths) \o Number(4, TRAILER)

BuildPayload(e) ==
    LET integers == Numbers(4, <<Len(e.strings)>> \o Tail(e.integers))
    IN  integers \o Zeros(Padding(Len(integers), 8)) \o Numbers(8, e.doubles)
            \o StringTable(e) \o Ending(e)

\* Mutant: the padding of the string table is forgotten
FirstBufferSizeUnaligned(e) == e.string_bytes + 4

\* calculate_first_buffer_size: the string table, aligned, and its count
FirstBufferSize(e) == e.string_bytes + Padding(e.string_bytes, 4) + 4

BuildPayload5(e) ==
    LET first  == StringTable(e) \o Zeros(Padding(e.string_bytes, 4))
                      \o Number(4, Len(e.strings))
        second == Numbers(4, e.objects) \o Numbers(4, e.integers)
        padding == IF e.doubles = <<>> THEN 0 ELSE Padding(Len(second), 8)
    IN  first \o second \o Zeros(padding) \o Numbers(8, e.doubles) \o Ending(e)

BuildHeader(e, size) ==
    <<0, 0, 0, Len(e.integers), Len(e.doubles), e.string_bytes + Len(e.types), 0,
      size, size, Len(e.lengths), Len(e.blobs), 0, 0>>

BuildHeader5(e, size) ==
    <<0, 0, e.string_bytes, 1, 0, Len(e.types), 0, size, 0, Len(e.lengths), Len(e.blobs), 0, 0,
      FirstBufferSize(e), 0, size - FirstBufferSize(e), 0,
      0, 0, Len(e.integers), Len(e.doubles), 0, Len(e.objects), 0, 0>>

\* requires_v5: a value of the tree has the flag that only version 5 knows; what
\* lies deeper than MaxDepth is refused anyway
RequiresV5(root) ==
    LET level[depth \in 0..MaxDepth] ==
            IF depth = 0 THEN {root}
            ELSE UNION {{v.items[i] : i \in DOMAIN v.items} : v \in level[depth - 1]}
    IN  \E depth \in 0..MaxDepth : \E v \in level[depth] : v.flag = "EntityName"

\* The bytes of a file: magic and format, the header, the body
HeaderSize(fields) == 20 + 4 * Len(fields)
FileSize(file) == HeaderSize(file.fields) + Len(file.body)

\* encode_kv3; a failure is NoFile
EncodedFile(document, e, payload, fields) ==
    File(IF e.version5 THEN 5 ELSE 4, document.format, fields,
         payload \o (IF e.lengths = <<>> THEN <<>> ELSE Bytes(e.blobs) \o Number(4, TRAILER))
             \o Zeros(document.trailing_zero_bytes), <<>>)
PayloadWritten(document, e, payload) ==
    LET fields == IF e.version5 THEN BuildHeader5(e, Len(payload)) ELSE BuildHeader(e, Len(payload))
    IN  IF Fits(HeaderSize(fields) + Len(payload) + Len(e.blobs) + 4
                    + document.trailing_zero_bytes)
        THEN EncodedFile(document, e, payload, fields) ELSE NoFile
RootWritten(document, w) ==
    IF w.encoder.failed \/ ~WriterIsDone(w) THEN NoFile
    ELSE PayloadWritten(document, w.encoder,
                        IF w.encoder.version5 THEN BuildPayload5(w.encoder)
                        ELSE BuildPayload(w.encoder))
EncodeKv3(document) ==
    IF document.root.kind = "object" /\ document.trailing_zero_bytes <= 15
    THEN RootWritten(document, Written(RequiresV5(document.root), document.root))
    ELSE NoFile
=============================================================================
