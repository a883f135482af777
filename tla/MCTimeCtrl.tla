----------------------------- MODULE MCTimeCtrl -----------------------------
(***************************************************************************)
(* Instances of TimeCtrl: fields of 4 bits, so that times and counts wrap; *)
(* seconds of 2 milliseconds.                                              *)
(***************************************************************************)
EXTENDS TimeCtrl

\* Main and byo-yomi times: none, some, and one that fills several periods.
SomeSeconds == {0, 1, 3}

\* What time_left tells: no time, as much as a period, more than there was.
SomeTimesLeft == {0, 2, 9}

\* Periods or stones: none, the last, and one more.
SomeCounts == {0, 1, 2}

\* Plays shorter than a period, as long as one, longer than one and than two.
SomeElapsed == {1, 2, 5, 9}
=============================================================================
