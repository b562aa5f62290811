----------------------------- MODULE MCOperations -----------------------------
(* Bounded texts and IoOperations for Operations.                           *)
EXTENDS Operations

Text(location, size, persist, offset, parts) ==
  [location |-> location, size |-> size, persist |-> persist,
   offset |-> offset, parts |-> parts]

Reads(sizes) == {Text(l, s, "", 0, 2) : l \in {"r", "rd"}, s \in sizes}
Writes(sizes, persists, offsets) ==
  {Text(l, s, p, 0, 3) : l \in {"w", "wd"}, s \in sizes, p \in persists}
  \cup {Text(l, s, p, o, 4) : l \in {"wp", "wd"}, s \in sizes, p \in persists,
                              o \in offsets}

(* Texts that from_string rejects, and unusual ones that it accepts: small *)
(* sizes, a read with four parts, a write with five.                       *)
OddTexts == {Text("r", 96, "", 0, 2), Text("r", 64, "", 0, 1), Text("x", 64, "", 0, 2),
             Text("w", 64, "", 0, 2), Text("w", 64, "bad", 0, 3),
             Text("w", 64, "cache", 32, 4), Text("w", 64, "cache", 32, 5),
             Text("r", 64, "none", 64, 4), Text("r", 32, "", 0, 2),
             Text("r", 0, "", 0, 2), Text("w", 32, "cache", 64, 4)}

FirstOp == OddTexts \cup Reads({64, 256, 1024, 2048})
             \cup Writes({64}, {"cache"}, {})
AnyOp == FirstOp \cup Writes({64, 512}, PersistInstructions, {-64, 128})
SomeOp == Reads({128}) \cup Writes({64, 1024}, {"none", "cacheinv"}, {-128})

Chains == {<< >>} \cup {<<a>> : a \in FirstOp}
            \cup {<<a, b>> : a \in FirstOp, b \in AnyOp}
            \cup {<<a, b, c>> : a \in Reads({64, 512}), b, c \in SomeOp}

(* The example of the repository's README                                  *)
ReadmeChain == <<Text("rd", 1024, "", 0, 2), Text("rp", 1024, "", 0, 2),
                 Text("wp", 64, "cache", 512, 4), Text("wp", 64, "cache", -512, 4)>>

IoOps == [type : {"Read", "Write"}, is_pmem : {TRUE}, persist : PersistInstructions,
          size : {64, 128, 512, 1024}, offset : {0}]
IoOperations == [kind : {"io"}, op : IoOps,
                 addresses : {<<1024, 0>>, <<0, 1024, 0>>}]

ChainJobs(texts) == {[kind |-> "chain", text |-> t] : t \in texts}

AllJobs == ChainJobs(Chains \cup {ReadmeChain}) \cup IoOperations
ReadmeJob == ChainJobs({ReadmeChain})
=============================================================================
