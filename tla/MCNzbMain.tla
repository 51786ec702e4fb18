----------------------------- MODULE MCNzbMain -----------------------------
(* Two NZBs that share the output directory.  "f1" and "f2" are posted      *)
(* under one meaningless name, "f3" under its own, "f4" has no name in its  *)
(* subject, "f5" is a ".par2"; both NZBs have "f1".  In MCSameName both     *)
(* arguments have the same base name, in different directories.             *)
EXTENDS NzbMain

MCQuoted == [f1 |-> "a", f2 |-> "b", f3 |-> "c", f4 |-> "none", f5 |-> "e"]
MCYName == [f1 |-> "x", f2 |-> "x", f3 |-> "c", f4 |-> "d", f5 |-> "e"]
MCMentions == [f1 |-> {"a"}, f2 |-> {"b"}, f3 |-> {"c"}, f4 |-> {}, f5 |-> {"e"}]
MCPar == {"f5"}
MCBigName == <<"big1", "big2">>
MCArgs == << [name |-> 1, dir |-> "one", files |-> <<"f1", "f5", "f2">>],
             [name |-> 2, dir |-> "two", files |-> <<"f3", "f1", "f4">>] >>
MCSameName == << [name |-> 1, dir |-> "one", files |-> <<"f1">>],
                 [name |-> 1, dir |-> "one", files |-> <<"f4", "f2">>] >>
=============================================================================
