------------------------------ MODULE MCFiles ------------------------------
(* Two calls of the panel, to different machines, and one of an agent; two   *)
(* transfers of a tree of two files, the second of them empty, or of its     *)
(* first file, which may grow from two chunks to three.                      *)
EXTENDS Files, TLC

CONSTANTS p, q, a

MCEndpoint == (p :> "x") @@ (q :> "y") @@ (a :> "x")

MCSize == <<<<2, 3>>, <<0>>>>

\* Everybody opens a sidecar at once, while a transfer starts.
Opening ==
    [callers |-> {p, q, a}, policies |-> {"overwrite"},
     items |-> {1}, jobs |-> {[direction |-> "upload", tree |-> FALSE]},
     found |-> {}, limit |-> 1, restarts |-> 0, changes |-> FALSE]

\* One sidecar with any policy; two transfers may have a file in hand at once.
Copying ==
    [callers |-> {p}, policies |-> Policy, items |-> {1, 2},
     jobs |-> {[direction |-> "download", tree |-> FALSE],
               [direction |-> "upload", tree |-> TRUE]},
     found |-> {1}, limit |-> 2, restarts |-> 0, changes |-> FALSE]

\* Jobs are interrupted, by the end of the process too, and taken up again.
Resuming ==
    [callers |-> {p}, policies |-> {"resume", "overwrite"}, items |-> {1, 2},
     jobs |-> {[direction |-> "upload", tree |-> FALSE],
               [direction |-> "download", tree |-> TRUE]},
     found |-> {}, limit |-> 1, restarts |-> 1, changes |-> FALSE]

\* The source grows at some moment of two jobs, one after the other or at once.
Changing ==
    [callers |-> {p}, policies |-> {"resume", "overwrite"}, items |-> {1, 2},
     jobs |-> {[direction |-> "upload", tree |-> FALSE]},
     found |-> {}, limit |-> 2, restarts |-> 0, changes |-> TRUE]

MCScenes == {Opening, Copying, Resuming, Changing}
=============================================================================
