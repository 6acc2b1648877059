----------------------------- MODULE MCPppLink -----------------------------
(* Small instances of PppLink for TLC. *)
EXTENDS PppLink

CONSTANTS A, B

MCEnds == {A, B}

Opts(neg, mru, map) == [neg |-> neg, mru |-> mru, asyncmap |-> map, magicnumber |-> 0]

\* Both use magic numbers.  A wants protocol compression, which B refuses, and
\* authentication, by CHAP if possible; B will do CHAP.  B wants an MRU that A
\* finds too small, and authentication by PAP, which A refuses.
MCWant == [e \in MCEnds |->
    IF e = A THEN Opts({"magicnumber", "pcompression", "chap", "upap"}, 3, {})
             ELSE Opts({"magicnumber", "mru", "upap"}, 1, {})]
MCAllow == [e \in MCEnds |->
    IF e = A THEN Opts({"magicnumber", "mru"}, 3, {})
             ELSE Opts({"magicnumber", "chap"}, 3, {})]
============================================================================
