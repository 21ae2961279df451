----------------------------- MODULE MCLinkState -----------------------------
(***************************************************************************)
(* Three routers and the neighbour files they may be started with.         *)
(***************************************************************************)
EXTENDS PathTrials

Good     == [count |-> 5, dynamic |-> FALSE, labelLen |-> 1, port |-> 60000,
             total |-> NumRouters]
Dynamic  == [Good EXCEPT !.count = 6, !.dynamic = TRUE]
NotATag  == [Good EXCEPT !.count = 6]
HighPort == [Good EXCEPT !.port = 65536]

To(i, w)       == [label |-> i, at |-> i, weight |-> w, scanned |-> TRUE]
Via(i, m, w)   == [To(i, w) EXCEPT !.at = m]
NoHost(i)      == [To(i, 1) EXCEPT !.at = NULL]
Misspelt(i)    == [To(i, 1) EXCEPT !.scanned = FALSE]

With(args, files) == {[args |-> args, file |-> f] : f \in files}

Starts == [n \in Routers |->
    CASE n = 0 -> With(Good, {<<To(1, 2), To(2, 4)>>,
                              <<To(1, 2), To(1, 65538)>>,
                              <<To(2, INF), To(1, 3)>>})
      [] n = 1 -> With(Good, {<<To(0, 2)>>, <<To(2, 5), To(0, 2), NoHost(2)>>,
                              <<To(0, 2), Misspelt(2)>>, NULL})
                  \cup With(NotATag, {<<To(0, 2)>>})
      [] n = 2 -> With(Dynamic, {<<Via(0, 1, 1), To(1, 7), To(2, 1)>>,
                                 <<To(0, 4), Via(3, 0, 1)>>, <<To(0, 4), To(1, -1)>>})
                  \cup With(HighPort, {<< >>})]

=============================================================================
