------------------------------ MODULE MCLevels ------------------------------
(* Every graph on Check with at most MaxEntries list entries, chains,       *)
(* diamonds, self-dependencies and cycles among them, each also with one    *)
(* entry repeated and with one list that names an unknown check.            *)
EXTENDS Levels, TLC

CONSTANT MaxEntries

Checks == 1..4

Graph(E)  == [c \in Check |-> SelectSeq([i \in Checks |-> i], LAMBDA d : <<c, d>> \in E)]

Plain     == {Graph(E) : E \in {X \in SUBSET (Check \X Check) : Cardinality(X) <= MaxEntries}}
Repeated  == {[g EXCEPT ![c] = Append(@, @[1])] :
                <<g, c>> \in {x \in Plain \X Check : x[1][x[2]] # <<>>}}
Dangling  == {[g EXCEPT ![c] = Append(@, Unknown)] : g \in Plain, c \in Check}
MCInputs  == Plain \cup Repeated \cup Dangling
=============================================================================
