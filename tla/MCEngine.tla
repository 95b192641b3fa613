------------------------------ MODULE MCEngine ------------------------------
(* Games, boards and tables for the chess engine, for TLC. *)
EXTENDS EngineSearch

\* Games: all trees of two moves and two plies, and trees of one or two moves a
\* turn that reach four plies on one side and two on the other, so that mates at
\* different distances compete.
Node(status, eval, next) == [status |-> status, eval |-> eval, next |-> next]
Mated == Node("checkmate", 0, << >>)
Quiet(e) == Node("open", e, << >>)
Turn(next) == Node("open", 1, next)

\* Drawn for want of a move, and by its material: that may be played on.
Stalemate == Node("drawn", 0, << >>)
BareKings == Node("drawn", 2, <<Stalemate>>)

Plies0 == {Mated, Stalemate} \cup {Quiet(e) : e \in {-3, 2}}
Plies1 == {Mated, BareKings} \cup {Turn(<<a, b>>) : a, b \in Plies0}
Plies2 == {Turn(<<a, b>>) : a, b \in Plies1}

Long0 == {Mated, Quiet(2)}
Long1 == Long0 \cup {Turn(<<a>>) : a \in Long0}
Long2 == Long0 \cup {Turn(<<a>>) : a \in Long1} \cup {Turn(<<a, b>>) : a \in Long1, b \in Long0}
Long3 == Long0 \cup {Turn(<<b, a>>) : a \in Long2, b \in Long1}
ShortGames == Plies2 \cup {Turn(<<a, b>>) : a \in Long3, b \in Long2}

\* Forced lines to a mate, and games in which two of them lie behind three forced
\* replies, each side having had another line to choose before.
Line[plies \in 0 .. 6] == IF plies = 0 THEN Mated ELSE Turn(<<Line[plies - 1]>>)

Fork0 == {Turn(<<Line[a], Line[b]>>) : a, b \in {0, 2}}
Fork1 == {Turn(<<p>>) : p \in Fork0}
Fork2 == {Turn(<<p>>) : p \in Fork1}
Fork3 == {Turn(<<Line[a], p>>) : a \in {1, 3}, p \in Fork2}
DeepGames == {Turn(<<Line[a], p>>) : a \in {2, 4, 6}, p \in Fork3}

MCGames == ShortGames \cup DeepGames
MCPositions == Plies0 \cup Plies1 \cup Long0 \cup Long1 \cup Long2 \cup Long3 \cup ShortGames
                   \cup {Line[a] : a \in 0 .. 6} \cup Fork0 \cup Fork1 \cup Fork2 \cup Fork3
                   \cup DeepGames

ASSUME PerftIsExact == \A g \in ShortGames, d \in 0 .. 4 : PerftCountsLines(g, d)

\* Boards of two files and two ranks with tables that favour some squares.
MCMaterial == [r \in Roles |-> IF r = "King" THEN 200 ELSE 3]
MCSquareWorth == [r \in Roles |-> [sq \in 0..3 |-> IF r = "King" THEN -sq ELSE sq * sq]]
ASSUME EvaluationIsFair ==
    \A squares \in SUBSET Squares, turn \in {"White", "Black"} :
        \A board \in [squares -> [role : Roles, color : {"White", "Black"}]] :
            FavoursNoColour(board, turn)
=============================================================================
