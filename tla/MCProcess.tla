----------------------------- MODULE MCProcess -----------------------------
(* An instance of Process: three Connections, three descriptors.           *)
EXTENDS Process
Arg(letter, n, text, colon) == [c |-> letter, n |-> n, text |-> text, colon |-> colon]
Flag(letter) == Arg(letter, 0, "", FALSE)
Host(port) == Arg("s", port, "host", port # 0)
MCArgVs == {
    <<Flag("e")>>,
    <<Flag("h"), Host(0)>>,
    <<Host(0), Flag("e"), Flag("v")>>,
    <<Host(70000), Arg("T", 0, "", FALSE)>>,
    <<Arg("t", -1, "", FALSE), Arg("c", 2, "", FALSE), Host(65536)>>,
    <<Host(119), Arg("t", -1, "", FALSE)>>,
    <<Host(0), Arg("c", 3, "", FALSE), Arg("W", 1, "", FALSE)>>,
    <<Flag("e"), Host(0), Arg("W", 8080, "pass", TRUE), Flag("n")>>,
    <<Flag("r"), Host(0), Flag("e"), Arg("W", 70000, "p w", FALSE)>>,
    <<Host(-1), Arg("c", 0, "", FALSE), Arg("W", -5, "p w", TRUE), Flag("?"), Arg("z", -1, "", FALSE)>>}
Stat(type, uid, gid, u, g, o) == [type |-> type, uid |-> uid, gid |-> gid, u |-> u, g |-> g, o |-> o]
RX == {"r", "x"}
RWX == {"r", "w", "x"}
MCStats == {Stat("dir", 1, 1, RWX, RX, {}), Stat("file", 0, 0, RWX, RX, RX), Stat("none", 1, 1, RWX, RWX, RWX)}
Symmetry == Permutations(Conns)
=============================================================================
