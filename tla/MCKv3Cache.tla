----------------------------- MODULE MCKv3Cache -----------------------------
(* Documents and styles on which every tag, version and compression occurs.  *)
EXTENDS Kv3Cache

Signed(n)   == Scalar("signed", "None", n)
Unsigned(n) == Scalar("unsigned", "None", n)
Double(n)   == Scalar("float64", "None", n)
Str(text)   == Text("string", "None", text)
Blob(bytes) == Text("blob", "None", bytes)
Null        == Scalar("null", "None", 0)
Bool(n)     == Scalar("boolean", "None", n)

a == <<97>>
b == <<98, 98>>

MCOthers ==
    { Array("None", <<Null, Bool(0), Bool(1), Signed(0), Signed(1), Signed(-1)>>),
      Array("None", <<Signed(2), Signed(3), Signed(2)>>),
      Array("None", <<Unsigned(2), Unsigned(3)>>),
      Array("None", <<Double(0), Double(1), Double(2)>>),
      Array("Panorama", <<Scalar("float32", "None", 2), Double(2)>>),
      Array("None", <<Str(a), Str(<<>>), Str(b), Str(a)>>),
      Array("None", <<Text("string", "Subclass", a), Text("string", "Subclass", b)>>),
      Array("None", <<Text("string", "EntityName", a), Text("string", "SoundEvent", a)>>),
      Array("None", <<Array("None", <<Signed(2)>>), Array("None", <<Signed(3)>>)>>),
      Object("Resource", <<a, <<49>>, b>>, <<Double(2), Str(a), Blob(<<9>>)>>),
      Object("None", <<a>>, <<Object("None", <<>>, <<>>)>>),
      Object("None", <<a>>, <<Object("None", <<a>>, <<Object("None", <<a>>, <<Null>>)>>)>>),
      Array("None", [i \in 1..9 |-> Signed(2)]),
      Object("None", [i \in 1..5 |-> <<96 + i>>], [i \in 1..5 |-> Str(a)]) }

MCBuilds == { <<>>, <<Blob(<<7, 8>>), Blob(<<>>)>>, <<Blob([i \in 1..80 |-> 7])>> }
MCNames  == { <<49>> }

MCStyles ==
    [version : 0..5, compression : 0..2, width : {"doubles"}, array : {8}]
        \cup [version : {0, 1, 5}, compression : {0}, width : {"doubles", "integers"},
              array : {10, 25}]
        \cup [version : {4, 5}, compression : {0}, width : {"shorts"}, array : {24, 25}]
        \cup [version : {3, 5}, compression : {0}, width : {"bytes"}, array : {24, 25}]
=============================================================================
