------------------------- MODULE MCCommitPreparation -------------------------
(* Worlds for TLC: a few histories with their deliveries and policies. *)
EXTENDS CommitPreparation, TLC

CONSTANTS p1, p2

TwoPreparers == {p1, p2}

Quiet == <<{}, {}>>

\* A push longer than the limit of a merge and one more, while the window closes and
\* opens again.
Pushes ==
    [kind |-> "git", covers |-> <<{1, 2, 3}, {4}>>, delay |-> <<0, 0>>, pin |-> <<1, 1>>,
     author |-> <<1, 2, 1, 1>>, merges |-> {2}, rewrites |-> {},
     excluded |-> <<{}>>, blind |-> <<{}>>,
     window |-> {0, 2}, start |-> 0, preparers |-> {p1}]

\* A push delivered again by a longer one; later its middle commit is
\* excluded and the last cannot be judged.
Overlap ==
    [kind |-> "git", covers |-> <<{1, 2, 3}, {2, 3, 4}>>, delay |-> <<0, 1>>, pin |-> <<1, 1>>,
     author |-> <<1, 1, 2, 2>>, merges |-> {3}, rewrites |-> {},
     excluded |-> <<{}, {2}>>, blind |-> <<{}, {4}>>,
     window |-> {1, 2}, start |-> 1, preparers |-> {p1}]

\* Two pushes that may be merged, then a rewrite; a later policy excludes a commit
\* of it.
Rewrite ==
    [kind |-> "git", covers |-> <<{1}, {2}, {3, 4}>>, delay |-> <<0, 0, 0>>, pin |-> <<1, 1, 1>>,
     author |-> <<1, 1, 1, 1>>, merges |-> {}, rewrites |-> {3},
     excluded |-> <<{}, {4}>>, blind |-> Quiet,
     window |-> {2}, start |-> 2, preparers |-> {p1}]

\* P4 or SVN: the author changes, then the configuration.
Linear ==
    [kind |-> "linear", covers |-> <<{1, 2}, {3}, {4}>>, delay |-> <<0, 1, 0>>, pin |-> <<1, 1, 2>>,
     author |-> <<1, 2, 2, 2>>, merges |-> {}, rewrites |-> {},
     excluded |-> <<{}>>, blind |-> <<{2}>>,
     window |-> {1, 2}, start |-> 1, preparers |-> {p1}]

\* Two processes on one stream; a delivery repeats the commit of the one before it, under
\* another configuration.
Shared ==
    [kind |-> "git", covers |-> <<{1}, {1, 2}>>, delay |-> <<0, 0>>, pin |-> <<1, 2>>,
     author |-> <<1, 1>>, merges |-> {}, rewrites |-> {},
     excluded |-> <<{}>>, blind |-> <<{}>>,
     window |-> {2}, start |-> 2, preparers |-> {p1, p2}]

AllWorlds == {Pushes, Overlap, Rewrite, Linear, Shared}

\* Three pushes; a new policy cannot judge the last commit of the last two.
JudgedAgain ==
    {[Overlap EXCEPT !.covers = <<{1}, {2, 3}, {4, 5}>>, !.delay = <<0, 0, 0>>, !.pin = <<1, 2, 2>>,
                     !.author = <<1, 1, 1, 1, 1>>, !.merges = {}, !.excluded = Quiet,
                     !.blind = <<{}, {3, 5}>>]}
==============================================================================
