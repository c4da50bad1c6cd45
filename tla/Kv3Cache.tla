------------------------------ MODULE Kv3Cache ------------------------------
(* The cache file as bytes: the game saves a document in a style of its own, *)
(* and prepare_cache_update of cache_plan.rs reads the file, replaces the    *)
(* builds of the Unpublished section and writes the whole file again.        *)
EXTENDS Kv3Game

CONSTANTS Others,       \* values beside the Unpublished section
          Names,        \* names of their member
          Builds,       \* arrays of builds, each a blob
          Styles,       \* how the game writes
          Zeroes        \* numbers of zero bytes at the end of a file

VARIABLES file,         \* the bytes of the cache
          meant         \* the document that the last writer wrote
vars == <<file, meant>>

Unpublished == <<85>>

CacheDocument(builds, name, other, zeros) ==
    Document(1, Object("None", <<Unpublished, name>>, <<Array("None", builds), other>>), zeros)

\* Each part of a value, itself included
RECURSIVE Parts(_)
Parts(value) == {value} \union UNION {Parts(value.items[i]) : i \in DOMAIN value.items}

\* What a style can express
Writable(document, style) ==
    LET parts == Parts(document.root)
    IN  /\ \A v \in parts : v.flag \in DOMAIN FlagCodes(style.version)
        /\ style.width = "shorts" => style.version >= 4
        /\ style.version = 0 => /\ style.width # "bytes" /\ style.array \in {8, 10}
                                /\ \A v \in parts : v.kind # "float32"
        /\ style.array = 25 => style.version = 5
        /\ style.version = 1 => style.compression # 2
        /\ style.version = 1 /\ style.compression = 1 => document.trailing_zero_bytes = 0

Init ==
    \E builds \in Builds, name \in Names, other \in Others, zeros \in Zeroes, style \in Styles :
        /\ meant = CacheDocument(builds, name, other, zeros)
        /\ Writable(meant, style)
        /\ file = GameFile(meant, style)

-----------------------------------------------------------------------------
\* The document with other builds
WithBuilds(document, builds) == [document EXCEPT !.root.items[1].items = builds]

\* What prepare_cache_update makes of a file that holds this document
Rewritten(document, builds) ==
    IF WithBuilds(document, builds) = document THEN file
    ELSE EncodeKv3(WithBuilds(document, builds))

\* prepare_cache_update: reads, replaces, writes and reads again. A failure
\* leaves the file.
Replace(document, replacement, builds) ==
    /\ document # NoDocument
    /\ replacement # NoFile
    /\ DecodeKv3(replacement) = WithBuilds(document, builds)
    /\ file' = replacement
    /\ meant' = WithBuilds(meant, builds)
Update(document, builds) == Replace(document, Rewritten(document, builds), builds)
Install(builds) == Update(DecodeKv3(file), builds)

\* The game reads the cache and saves it in another style
GameSaves(style) ==
    /\ Writable(meant, style)
    /\ file' = GameFile(meant, style)
    /\ UNCHANGED meant

Next == \/ \E builds \in Builds : Install(builds)
        \/ \E style \in Styles : GameSaves(style)

Spec == Init /\ [][Next]_vars

-----------------------------------------------------------------------------
(* Properties. *)

\* The number of values, and how deep they lie
RECURSIVE Height(_)
Height(value) ==
    IF value.items = <<>> THEN 0
    ELSE 1 + Max({Height(value.items[i]) : i \in DOMAIN value.items})

RECURSIVE Size(_)
Size(value) == 1 + FoldLeft(LAMBDA n, item : n + Size(item), 0, value.items)

\* A file's bytes with those that its compressed parts become
Unpacked(f) ==
    FileSize(f) + Len(FlattenSeq(f.blocks))
        + IF f.magic = 0 /\ f.fields[1] = 1 THEN f.body[1][2] ELSE 0

\* What a header counts: the buffers and, besides, the blobs, also those of
\* version 2 that lie in the buffer (kv3_header.rs:61)
Declared(f) == IF f.magic \in 2..5 THEN f.fields[8] + f.fields[11] ELSE 0

\* Where a header holds the length of a stream of shorts, integers or doubles
StreamCounts(f) ==
    CASE f.magic = 0 -> {}
      [] f.magic = 1 -> {3, 4}
      [] f.magic \in {2, 3} -> {4, 5}
      [] f.magic = 4 -> {4, 5, 12}
      [] f.magic = 5 -> {4, 5, 12, 19, 20, 21}

\* A file is read as its writer meant it, whatever the version, compression,
\* widths, typed arrays, flags and padding, or it is refused; and it is refused
\* only for a limit that decode_kv3 documents (kv3_read.rs:11).
ReadsWhatWasMeant ==
    LET Refused == \/ Height(meant.root) > MaxDepth
                   \/ Size(meant.root) > MaxCount
                   \/ Unpacked(file) > MaxBytes \/ Declared(file) > MaxBytes
                   \/ \E i \in StreamCounts(file) : file.fields[i] > MaxCount
        IsRead(document) == document = meant \/ (document = NoDocument /\ Refused)
    IN  IsRead(DecodeKv3(file))

\* The file when only its first n bytes reached the disk: it ends there, or,
\* when its length was stored already, the rest is zero
Damaged(n) ==
    LET start == SubSeq(file.body, 1, n)
    IN  {start} \union IF file.blocks = <<>> THEN {start \o Zeros(Len(file.body) - n)} ELSE {}

\* A file that lost its end is refused, or what it lost is only padding:
\* decode_kv3 never returns a document that nobody wrote, for which lengths
\* and trailers must agree (read_trailer and read_blob_lengths, kv3_read.rs:228).
DamagedFilesAreRefused ==
    LET IsHarmless(document) == document = NoDocument \/ document.root = meant.root
    IN  \A n \in 0..(Len(file.body) - 1) : file.body[n + 1][1] > 0 =>
            \A body \in Damaged(n) : IsHarmless(DecodeKv3([file EXCEPT !.body = body]))

\* What can be read can be written back and is then read as the same document,
\* so the check for values that "changed during serialization"
\* (cache_plan.rs:119) stops nobody; but a file may outgrow the limits when
\* integers that were narrow or compressed become wide (kv3_encode.rs:302).
WhatIsReadCanBeWritten ==
    LET IsWritten(document, written) ==
            \/ written # NoFile /\ DecodeKv3(written) = document
            \/ written = NoFile /\ Unpacked(file) + 84 + 8 * Size(document.root) > MaxBytes
            \/ written # NoFile /\ \E i \in StreamCounts(written) : written.fields[i] > MaxCount
        IsWritable(document) == document # NoDocument => IsWritten(document, EncodeKv3(document))
    IN  IsWritable(DecodeKv3(file))

=============================================================================
