------------------------------ MODULE MCLearning ------------------------------
(***************************************************************************)
(* What a measured command teaches, in one run: the labels of its clauses, for  *)
(* sixteen commands; the rows that a process knows after crashes and replays;    *)
(* the lattice that answers queries from them.  Each hands the next one rows    *)
(* and nothing else, so that one part moves in any behaviour.                  *)
(***************************************************************************)
EXTENDS ClauseBridge, TLC

C(w, j) == [argv |-> w, builtin |-> FALSE, neg |-> FALSE, join |-> j]
B(w, j) == [C(w, j) EXCEPT !.builtin = TRUE]
N(w, j) == [C(w, j) EXCEPT !.neg = TRUE]

MCWords == {"make", "gcc", "cat *", "cat a", "sh"}
MCShells == {"sh"}
MCProgram == [w \in MCWords |-> IF w = "cat a" THEN "cat *" ELSE w]

Lim(p, i, r, s, f) == [pids |-> p, images |-> i, reads |-> r, samples |-> s, faults |-> f,
                       words |-> {"make", "gcc"}, long |-> {}]
Long(l) == [l EXCEPT !.long = {"gcc"}]
Run(w, l) == [l EXCEPT !.words = w]
make == {"make"}
gcc == {"gcc"}

MCCommands ==
  { [clauses |-> << C(make, "first"), C(gcc, ";") >>, bound |-> Lim(2, 1, 0, 0, 1)],
    [clauses |-> << C(make, "first"), C(gcc, "&&") >>, bound |-> Lim(3, 1, 0, 0, 0)],
    [clauses |-> << C(make, "first"), C(gcc, "||") >>, bound |-> Lim(3, 1, 0, 0, 0)],
    [clauses |-> << C(make, "first"), C(make, ";") >>, bound |-> Lim(3, 1, 0, 0, 0)],
    [clauses |-> << N(make, "first"), C(gcc, "&&") >>, bound |-> Lim(3, 1, 0, 0, 0)],
    [clauses |-> << B(gcc, "first"), C(make, "&&") >>, bound |-> Lim(2, 1, 0, 0, 0)],
    [clauses |-> << C(make, "first") >>, bound |-> Lim(2, 2, 1, 0, 0)],
    [clauses |-> << N(make, "first") >>, bound |-> Lim(3, 1, 1, 0, 0)],
    [clauses |-> << C(gcc, "first") >>, bound |-> Lim(2, 1, 0, 1, 1)],
    [clauses |-> << C(make, "first"), C(gcc, "|") >>, bound |-> Lim(3, 1, 0, 0, 0)],
    [clauses |-> << C(make, "first"), C(gcc, "&&"), C(make, "||") >>, bound |-> Lim(3, 1, 0, 0, 0)],
    [clauses |-> << B(make, "first"), C(make, "|") >>, bound |-> Lim(3, 1, 0, 0, 0)],
    [clauses |-> << C(make, "first"), C(gcc, "|"), C(gcc, "&&") >>, bound |-> Run({}, Lim(3, 1, 0, 0, 0))],
    [clauses |-> << C(gcc, "first"), C(make, ";") >>, bound |-> Long(Lim(3, 1, 0, 0, 0))],
    [clauses |-> << C({"sh"}, "first"), C(make, ";") >>, bound |-> Run({"sh", "make"}, Lim(3, 1, 0, 0, 0))],
    [clauses |-> << C({"cat *", "cat a"}, "first"), C({"cat a"}, ";") >>, bound |-> Run({"cat a"}, Lim(3, 1, 0, 0, 0))] }

(***************************************************************************)
(* Two old executions of one command, and two that may run live.              *)
(***************************************************************************)
CONSTANTS o1, o2, x1, x2, build, test, install
VARIABLES stage, artifacts, traced, disk, up, calls, clauses, lattice, rows, waiting, saving,
          crashes

CONSTANTS Execs, Old, Identity, Absent, Unreported, MaxLive, MaxCrashes
ClauseOf == o1 :> install @@ o2 :> install @@ x1 :> test @@ x2 :> build
History == INSTANCE LearningHistory WITH queue <- rows
historyVars == <<stage, artifacts, traced, disk, up, calls, clauses, lattice, rows, waiting,
                 saving, crashes>>

(***************************************************************************)
(* Four rows of three argument vectors whose features extend each other; one   *)
(* comes with training and one has no memory.                                  *)
(***************************************************************************)
CONSTANTS r1, r2, r3, r4
CONSTANTS Rows, Corpus, Argv, Features, Core, Views, Measured, MaxOptional, Times, NoVersion
VARIABLES end, queue, live, candidate

Vector == r1 :> 3 @@ r2 :> 2 @@ r3 :> 1 @@ r4 :> 1
Chain3 == 1 :> {1, 2} @@ 2 :> {1, 2, 3} @@ 3 :> {1, 2, 3, 4}
Root1 == [v \in 1..3 |-> {1}]
Targets == [r \in Rows |-> IF r = r2 THEN {"time"} ELSE Views]
Lattice == INSTANCE LatticeKb
latticeVars == <<end, queue, live, candidate>>

(***************************************************************************)
(* Four clauses and three guarded calls; a call and a clause of another         *)
(* repository come with training.  What make builds says what it does.          *)
(***************************************************************************)
CONSTANTS q1, q2, q3, q4, q5, q6, q7, here, there
VARIABLES kind, ended, public, repo, pending, lastQuery, frozen

mtest == <<"make", "test">>
mall == <<"make", "all">>
KbArgv == q1 :> <<"timeout", "9", "make", "test">> @@ q2 :> mtest @@ q3 :> mall
          @@ q4 :> <<"cat", "x">> @@ q5 :> <<"cd", "&&", "make", "test">>
          @@ q6 :> <<"cd", "&&", "make", "all">> @@ q7 :> mtest
Guarded == {KbArgv[q5], KbArgv[q6]}
Beginnings == UNION {{SubSeq(w, 1, n) : n \in DOMAIN w} :
                       w \in {KbArgv[r] : r \in DOMAIN KbArgv}}
CoreOf == [w \in Beginnings |-> IF Len(w) > 1 /\ w[1] = "make" THEN {"make", "target"} ELSE {w[1]}]
P(w) == [argv |-> w, builtin |-> FALSE]
Queries == { << <<P(mtest)>>, <<P(mall), P(<<"cat", "x">>)>> >>,
             << <<P(mtest), P(mall)>>, <<P(mall), P(mtest)>> >>,
             << <<[P(mall) EXCEPT !.builtin = TRUE], P(mtest)>>, <<P(mall)>> >> }
Levels == INSTANCE ClauseKb WITH
            Rows <- DOMAIN KbArgv, Trained <- {q3, q7}, Argv <- KbArgv,
            KindOf <- [r \in DOMAIN KbArgv |-> IF r \in {q5, q6, q7} THEN "call" ELSE "clause"],
            RepoOf <- [r \in DOMAIN KbArgv |-> IF r \in {q3, q7} THEN there ELSE here],
            Stage <- [r \in DOMAIN KbArgv |-> IF r = q4 THEN 1 ELSE 0],
            Value <- [r \in DOMAIN KbArgv |-> IF r = q1 THEN 1 ELSE IF r = q2 THEN 4 ELSE 2],
            Measured <- [r \in DOMAIN KbArgv |-> IF r = q1 THEN {"time"} ELSE {"time", "cpu"}],
            Targets <- {"time", "cpu"}, Wrappers <- {"timeout", "env"}, Consumers <- {"cat"},
            Compound <- Guarded, Core <- CoreOf, Complete <- {mtest, mall}, MaxDepth <- 4,
            Commands <- Queries, Repos <- {here, there}, Ticks <- Times
levelVars == <<kind, ended, public, repo, pending, lastQuery, frozen>>

VARIABLE part
labelVars == <<vars, call, options, valid>>

AllInit ==
    /\ BridgeInit /\ History!Init /\ Lattice!Init /\ Levels!Init
    /\ part \in {"labels", "history", "lattice", "levels"}
    /\ part # "levels" => kind = "clause"
    /\ part # "labels" => command = <<N(make, "first")>>
    /\ part # "history" => stage[x1] = "ahead"
                          /\ disk["clauses"] = History!Blank

AllNext ==
    /\ \/ part = "labels" /\ BridgeNext /\ UNCHANGED <<historyVars, latticeVars, levelVars>>
       \/ part = "history" /\ History!Next /\ UNCHANGED <<labelVars, latticeVars, levelVars>>
       \/ part = "lattice" /\ Lattice!Next /\ UNCHANGED <<labelVars, historyVars, levelVars>>
       \/ part = "levels" /\ Levels!Next /\ UNCHANGED <<labelVars, historyVars, latticeVars>>
    /\ UNCHANGED part

AllSpec == AllInit /\ [][AllNext]_<<labelVars, historyVars, latticeVars, levelVars, part>>

\* A running process holds the measurements of each execution once.
EachHeldOnce == part = "history" => History!EachHeldOnce
\* A query is answered from exactly the rows that ended before it, by the lattice
\* as the batch builder makes it and by the most specific level that has any.
AnswersAreExact ==
    /\ part = "lattice" => Lattice!AnswersAreExact
    /\ part = "levels" => Levels!AnswersAreExact
\* A clause has the images, times and bytes of what it ran, and of nothing else.
LabelsAreTrue == MappingIsTrue /\ IoIsExact
=============================================================================
