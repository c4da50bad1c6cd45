------------------------------ MODULE Kv3Game ------------------------------
(* External: how Deadlock and Steam write KV3 files, modelled from what      *)
(* decode_kv3 reads. A style is a version with one of its compressions, the  *)
(* width of integers, and the tag of arrays whose elements share a type.     *)
EXTENDS Kv3Decode

GameWriter ==
    [strings |-> <<>>, types |-> <<>>, primary |-> EmptyStreams, alternate |-> EmptyStreams,
     objects |-> <<>>, blobs |-> <<>>, lengths |-> <<>>, alternate_active |-> FALSE]

\* Appends a number; the legacy format has one stream for everything
Put(g, style, stream, n) ==
    IF style.version = 0 THEN [g EXCEPT !.types = @ \o Number(Width[stream], n)]
    ELSE [g EXCEPT ![IF g.alternate_active THEN "alternate" ELSE "primary"][stream]
                       = Append(@, n)]

PutString(g, style, text) ==
    LET known == Contains(g.strings, text) \/ text = <<>>
        table == IF known THEN g.strings ELSE Append(g.strings, text)
        id    == SelectInSeq(table, LAMBDA s : s = text) - 1
    IN  Put([g EXCEPT !.strings = table], style, "integers", id)

SignedTags   == [doubles |-> 3, integers |-> 11, shorts |-> 20, bytes |-> 22]
UnsignedTags == [doubles |-> 4, integers |-> 12, shorts |-> 21, bytes |-> 23]

RECURSIVE GameTag(_, _)
GameTag(style, v) ==
    CASE v.kind = "null"     -> 1
      [] v.kind = "boolean"  -> IF style.width = "doubles" THEN 14 - v.number ELSE 2
      [] v.kind = "signed"   -> IF style.width = "doubles" /\ v.number \in {0, 1}
                                THEN 15 + v.number ELSE SignedTags[style.width]
      [] v.kind = "unsigned" -> UnsignedTags[style.width]
      [] v.kind = "float64"  -> IF style.width # "doubles" /\ v.number \in {0, 1}
                                THEN 17 + v.number ELSE 5
      [] v.kind = "float32"  -> 19
      [] v.kind = "string"   -> 6
      [] v.kind = "blob"     -> 7
      [] v.kind = "object"   -> 9
      [] v.kind = "array"    ->
            IF /\ v.items # <<>>
               /\ \A i \in DOMAIN v.items :
                     <<GameTag(style, v.items[i]), v.items[i].flag>>
                         = <<GameTag(style, v.items[1]), v.items[1].flag>>
            THEN style.array ELSE 8

\* Versions up to 2 mark every string with a bit of its flag
PutTag(g, style, v) ==
    LET code == FlagCodes(style.version)[v.flag]
                    + IF style.version <= 2 /\ v.kind = "string" THEN 4 ELSE 0
        tag  == GameTag(style, v)
    IN  [g EXCEPT !.types = @ \o IF code = 0 THEN Bytes(<<tag>>) ELSE Bytes(<<tag + 128, code>>)]

PutBlob(g, style, bytes) ==
    LET inline == Put(g, style, "integers", Len(bytes))
    IN  CASE style.version = 0 -> [inline EXCEPT !.types = @ \o Bytes(bytes)]
          [] style.version = 1 ->
                [inline EXCEPT ![IF g.alternate_active THEN "alternate" ELSE "primary"].bytes
                                   = @ \o bytes]
          [] OTHER -> [g EXCEPT !.lengths = Append(@, Len(bytes)), !.blobs = @ \o bytes]

PutCount(g, style, tag, n) ==
    IF tag = 9 /\ style.version = 5 THEN [g EXCEPT !.objects = Append(@, n)]
    ELSE Put(g, style, IF tag >= 24 THEN "bytes" ELSE "integers", n)

\* A member whose name is its place has no name in the file
RECURSIVE PutBody(_, _, _)
PutBody(g, style, v) ==
    LET tag     == GameTag(style, v)
        counted == PutCount(g, style, tag, Len(v.items))
        entered == IF tag \notin {10, 24, 25} THEN counted
                   ELSE [PutTag(counted, style, v.items[1])
                            EXCEPT !.alternate_active = @ \/ tag = 25]
        Child(x, i) ==
            LET name  == IF v.names[i] = IndexName(i) THEN <<>> ELSE v.names[i]
                named == IF tag = 9 THEN PutString(x, style, name) ELSE x
                typed == IF tag \in {8, 9} THEN PutTag(named, style, v.items[i]) ELSE named
            IN  PutBody(typed, style, v.items[i])
    IN  CASE tag \in DOMAIN ConstantTags -> g
          [] tag \in DOMAIN NumberTags -> Put(g, style, NumberTags[tag][2], v.number)
          [] tag = 6 -> PutString(g, style, v.text)
          [] tag = 7 -> PutBlob(g, style, v.text)
          [] OTHER -> [FoldLeftDomain(Child, entered, v.items)
                          EXCEPT !.alternate_active = g.alternate_active]

\* Lays out streams after what a buffer starts with
LayOut(before, s, force) ==
    LET Aligned(cells, width, numbers) ==
            cells \o Zeros(IF force \/ numbers # <<>> THEN Padding(Len(cells), width) ELSE 0)
                  \o Numbers(width, numbers)
    IN  Aligned(Aligned(Aligned(before \o Bytes(s.bytes), 2, s.shorts), 4, s.integers),
                8, s.doubles)

GameStrings(g) == FlattenSeq([i \in DOMAIN g.strings |-> Bytes(g.strings[i]) \o Zeros(1)])

\* Compressed blobs: two frames where there is something to split
GameFrames(blobs) ==
    IF Len(blobs) < 2 THEN IF blobs = <<>> THEN <<>> ELSE <<Bytes(blobs)>>
    ELSE <<Bytes(SubSeq(blobs, 1, 1)), Bytes(Tail(blobs))>>

Block(i) == <<<<-1, i>>>>
Blocks(from, n) == [i \in 1..n |-> <<-1, from + i>>]

\* Groups of sixteen elements; a run of equal bytes becomes a reference
RECURSIVE GameElements(_)
GameElements(cells) ==
    LET Same == {n \in 3..Len(cells) - 1 : \A i \in 1..n : cells[i + 1] = cells[1]}
        run  == IF Same = {} THEN 0 ELSE IF Max(Same) > 18 THEN 18 ELSE Max(Same)
    IN  IF cells = <<>> THEN <<>>
        ELSE IF run = 0
        THEN <<<<cells[1]>>>> \o GameElements(Tail(cells))
        ELSE <<<<cells[1]>>, Number(2, run - 3)>> \o GameElements(SubSeq(cells, run + 2, Len(cells)))

RECURSIVE GameGroups(_)
GameGroups(elements) ==
    LET n    == IF Len(elements) > 16 THEN 16 ELSE Len(elements)
        mask == SumFunction([i \in 1..n |-> IF Len(elements[i]) = 2 THEN 2^(i - 1) ELSE 0])
    IN  IF n = 0 THEN <<>>
        ELSE Number(2, mask) \o FlattenSeq(SubSeq(elements, 1, n))
                 \o GameGroups(SubSeq(elements, n + 1, Len(elements)))

GameLegacy(g, style, document) ==
    LET payload == Number(4, Len(g.strings)) \o GameStrings(g) \o g.types \o Number(4, LegacyTrailer)
        fields  == <<style.compression, 0, 0, 0>>
        zeros   == Zeros(document.trailing_zero_bytes)
    IN  CASE style.compression = 0 -> File(0, document.format, fields, payload \o zeros, <<>>)
          [] style.compression = 1 ->
                File(0, document.format, fields,
                     Number(4, Len(payload)) \o GameGroups(GameElements(payload)) \o zeros, <<>>)
          [] style.compression = 2 ->
                File(0, document.format, fields, Number(4, Len(payload \o zeros)) \o Block(1),
                     <<payload \o zeros>>)

Game1(g, style, document) ==
    LET s == [g.primary EXCEPT !.integers = <<Len(g.strings)>> \o @]
        payload == LayOut(<<>>, s, TRUE) \o GameStrings(g) \o g.types \o Number(4, TRAILER)
    IN  File(1, document.format,
             <<style.compression, Len(s.bytes), Len(s.integers), Len(s.doubles), Len(payload)>>,
             IF style.compression = 0 THEN payload \o Zeros(document.trailing_zero_bytes)
             ELSE Block(1),
             IF style.compression = 0 THEN <<>> ELSE <<payload>>)

\* The fields that all versions from 2 on have
GameFields(g, compression, counts, sizes, frames) ==
    <<compression, IF compression = 1 THEN 16384 * 65536 ELSE 0, Len(counts.bytes),
      Len(counts.integers), Len(counts.doubles), sizes.types, 0, sizes.decoded, sizes.encoded,
      Len(g.lengths), Len(g.blobs), Len(counts.shorts), 2 * frames>>

GameEnd(g, document) ==
    (IF g.lengths = <<>> THEN <<>> ELSE Number(4, TRAILER)) \o Zeros(document.trailing_zero_bytes)

Game2To4(g, style, document) ==
    LET s       == [g.primary EXCEPT !.integers = <<Len(g.strings)>> \o @]
        table   == GameStrings(g) \o g.types
        frames  == IF style.compression = 1 THEN GameFrames(g.blobs) ELSE <<>>
        main    == LayOut(<<>>, s, TRUE) \o table \o Numbers(4, g.lengths) \o Number(4, TRAILER)
        inside  == style.compression = 2 \/ (style.version = 2 /\ style.compression = 0)
        payload == main \o IF inside THEN Bytes(g.blobs)
                           ELSE Numbers(2, [i \in DOMAIN frames |-> 1])
        first   == IF style.compression = 0 THEN payload ELSE Block(1)
        blobs   == IF inside THEN <<>> ELSE IF style.compression = 0 THEN Bytes(g.blobs)
                   ELSE Blocks(1, Len(frames))
        sizes   == [types |-> Len(table), encoded |-> Len(first),
                    decoded |-> IF style.compression = 2 THEN Len(main) ELSE Len(payload)]
    IN  File(style.version, document.format,
             SubSeq(GameFields(g, style.compression, s, sizes, Len(frames)), 1,
                    HeaderFields[style.version]),
             first \o blobs \o GameEnd(g, document),
             IF style.compression = 0 THEN <<>> ELSE <<payload>> \o frames)

Game5(g, style, document) ==
    LET s       == [g.alternate EXCEPT !.integers = <<Len(g.strings)>> \o @,
                                       !.bytes = [i \in DOMAIN GameStrings(g) |->
                                                      GameStrings(g)[i][2]] \o @]
        frames  == IF style.compression = 1 THEN GameFrames(g.blobs) ELSE <<>>
        first   == LayOut(<<>>, s, FALSE)
        second  == LayOut(Numbers(4, g.objects), g.primary, FALSE) \o g.types
                       \o Numbers(4, g.lengths) \o Number(4, TRAILER)
                       \o Numbers(2, [i \in DOMAIN frames |-> 1])
        one     == style.compression # 0
        blobs   == IF ~one THEN Bytes(g.blobs)
                   ELSE IF style.compression = 1 THEN Blocks(2, Len(frames))
                   ELSE IF g.blobs = <<>> THEN <<>> ELSE Block(3)
        body    == (IF one THEN Block(1) \o Block(2) ELSE first \o second) \o blobs
        sizes   == [types |-> Len(g.types), decoded |-> Len(first) + Len(second),
                    encoded |-> Len(body)]
    IN  File(5, document.format,
             GameFields(g, style.compression, s, sizes, Len(frames))
                 \o <<Len(first), 1, Len(second), 1, Len(g.primary.bytes), Len(g.primary.shorts),
                      Len(g.primary.integers), Len(g.primary.doubles), 0, Len(g.objects), 0, 0>>,
             body \o GameEnd(g, document),
             IF one THEN <<first, second>> \o IF style.compression = 1 THEN frames
                                              ELSE <<Bytes(g.blobs)>>
             ELSE <<>>)

\* The file that the game writes for a document
GameFile(document, style) ==
    LET g == PutBody(PutTag(GameWriter, style, document.root), style, document.root)
    IN  CASE style.version = 0 -> GameLegacy(g, style, document)
          [] style.version = 1 -> Game1(g, style, document)
          [] style.version = 5 -> Game5(g, style, document)
          [] OTHER -> Game2To4(g, style, document)
=============================================================================
