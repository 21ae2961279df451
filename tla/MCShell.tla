------------------------------- MODULE MCShell -------------------------------
(***************************************************************************)
(* Commands for the shell: every check of processCmd fails for one of      *)
(* them, and the others start one to three copies of a program.            *)
(***************************************************************************)
EXTENDS Shell

MCFiles == {"a", "b", "c", "d"}
MCWords == {"prog", "dir", "none", "0", "1", "2", "3", "x", "a", "b", "./b", "c", "d", "./d"}
MCNumber == [w \in {"0", "1", "2", "3"} |-> CASE w = "0" -> 0 [] w = "1" -> 1 [] w = "2" -> 2 [] w = "3" -> 3]
MCDecimal == [i \in 0..2 |-> CASE i = 0 -> "0" [] i = 1 -> "1" [] i = 2 -> "2"]
MCFileOf == [w \in MCWords |->
                CASE w \in {"b", "./b"} -> "b" [] w = "c" -> "c"
                  [] w \in {"d", "./d"} -> "d" [] OTHER -> "a"]

Arg(w) == [kind |-> "arg", word |-> w]
In(w)  == [kind |-> "in", word |-> w]
Out(w) == [kind |-> "out", word |-> w]

MCLeftovers == {<< >>, <<Arg("x"), Arg("1")>>}
MCTyped ==
    {<< >>,
     <<Arg("prog")>>,
     <<Arg("none"), Arg("1")>>,
     <<Arg("prog"), Arg("x")>>,
     <<Arg("prog"), Arg("0")>>,
     <<Arg("prog"), Arg("1"), In("b"), Out("b")>>,
     <<Arg("prog"), In("b"), Arg("1"), Out("./b")>>,
     <<Arg("prog"), Arg("2"), Out("a")>>,
     <<Out("c"), Arg("prog"), Arg("3"), Arg("x"), In("b"), Out("a")>>,
     <<Arg("dir"), Arg("2"), Arg("x"), Out("a")>>,
     <<Arg("prog"), Arg("1"), Arg("x"), Out("c")>>,
     <<Arg("prog"), Arg("2"), In("./d"), Out("d")>>,
     <<Arg("dir"), Arg("1"), Out("d")>>,
     <<Arg("prog"), Arg("2"), Arg("x")>>}

=============================================================================
