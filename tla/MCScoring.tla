------------------------------ MODULE MCScoring ------------------------------
(* Two tasks, one city with a forecast, one without, and a day and a half. *)
EXTENDS Scoring, TLC

CONSTANTS c1, c2, inland, nowhere, model

Symmetry == Permutations(Task)

OneModel == <<model>>
HalfDayAhead == [c \in City |-> IF c = inland THEN 1 ELSE 0]
FullReply == {[high |-> 44, rain |-> 70, max |-> 44]}
SteepChance == [d \in -6 .. 6 |-> 50 + 8 * d]

\* Each book is too thin on one side when seen from Yes or from No, but not from both.
SomeBooks ==
    {[bid |-> 28, ask |-> 32, bids |-> 500, asks |-> 2000],
     [bid |-> 58, ask |-> 62, bids |-> 400, asks |-> 1000]}

About(words, city, date, side) ==
    [words |-> words, category |-> "weather", city |-> city, date |-> date,
     side |-> side, bucket |-> 42,
     listed |-> 60, volume |-> 2000, spread |-> 20, ends |-> 1]

SomeQuestions ==
    {About({"degrees"}, nowhere, Nothing, "above"),
     About({"degrees", "heat"}, inland, 1, "exact"),
     About({"rain"}, inland, Nothing, "above"),
     About({"heat"}, inland, Nothing, "above"),
     About({"storm"}, inland, Nothing, "above"),
     [About({}, Nothing, Nothing, "above") EXCEPT !.category = "known"]}

=============================================================================
