---------------------------- MODULE WindowTables ----------------------------
(***************************************************************************)
(* Datasets for TrainingWindows: three episodes over two files, some of    *)
(* them excluded or damaged, in splits of every form, their videos one     *)
(* after the other or where their time stamps say.                         *)
(***************************************************************************)
EXTENDS Naturals

(* The length of an episode, the files of its rows and of its video, and   *)
(* where in the video its first frame is.                                  *)
Ep(n, d, v, f) ==
    [length |-> n, data |-> d, video |-> v, from |-> f, excluded |-> FALSE, damaged |-> FALSE]

Tables ==
    {[stamped |-> FALSE, episodes |-> <<Ep(3, 1, 1, 0), Ep(2, 1, 1, 0), Ep(5, 2, 1, 0)>>],
     [stamped |-> FALSE, episodes |-> <<Ep(1, 1, 1, 0), Ep(4, 1, 2, 0), Ep(2, 2, 2, 0)>>],
     [stamped |-> TRUE, episodes |-> <<Ep(5, 1, 2, 4), Ep(1, 2, 1, 1), Ep(3, 2, 2, 0)>>]}

Marked(t, x, b) ==
    [e \in DOMAIN t |-> [t[e] EXCEPT !.excluded = e \in x, !.damaged = e \in b]]

Split(spec, first, past) == [spec |-> spec, first |-> first, past |-> past]

ManyDisks ==
    {[episodes |-> Marked(t.episodes, x, b), stamped |-> t.stamped, files |-> {1, 2}, splits |-> s] :
        t \in Tables, x \in {{}, {1}, {2}}, b \in {{}, {1}, {3}},
        s \in {[train |-> Split("missing", 0, 0), val |-> Split("missing", 0, 0)],
               [train |-> Split("range", 1, 3), val |-> Split("range", 0, 1)],
               [train |-> Split("open", 1, 0), val |-> Split("all", 0, 0)]}}
ManyStrides == {<<1, 2>>, <<2, 1>>}
=============================================================================
