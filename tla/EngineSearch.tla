---------------------------- MODULE EngineSearch ----------------------------
(* The chess engine of engine/lib.rs and engine/search.rs.  The rules of chess  *)
(* and the evaluation are the shakmaty library's and eval.rs's: a position is a *)
(* record of how it stands, its evaluation for the side to move and the         *)
(* positions its legal moves lead to, in the order they are generated.          *)
EXTENDS Integers, FiniteSets, Sequences, SequencesExt, FiniteSetsExt

CONSTANTS
    Positions,
    Games,       \* positions to start from
    MateScore,   \* MATE_SCORE: 30000 in the code
    MateBand,    \* scores this near to MateScore are mates: 1000 in the code
    MaxDepth,    \* MAX_DEPTH: 64 in the code
    Depths       \* depths asked for

\* No evaluation looks like a mate, and no mate is searched so far away that it
\* looks like an evaluation.
ASSUME EngineAssumption ==
    /\ MaxDepth \in Nat /\ Depths \subseteq Nat
    /\ MateScore \in Nat /\ MateBand \in 0 .. MateScore /\ MaxDepth + 1 < MateBand
    /\ Games \subseteq Positions
    /\ \A pos \in Positions :
          /\ pos.next \in Seq(Positions)
          /\ pos.eval \in -(MateScore - MateBand) .. (MateScore - MateBand)

VARIABLES position, history, found, searched
engineVars == <<position, history, found, searched>>

NoResult == [score |-> 0, best_move |-> 0, nodes |-> 0]

\* EngineState::new, from_fen.
EngineInit ==
    /\ position \in Games
    /\ history = << >>
    /\ found = NoResult      \* the last SearchResult,
    /\ searched = 0          \* and its depth; 0: none

-----------------------------------------------------------------------------
\* The end of negamax: a mate is one move further away from the position above.
Taper(score) ==
    IF score > MateScore - MateBand THEN score - 1
    ELSE IF score < -MateScore + MateBand THEN score + 1 ELSE score

Leaf(score) == [score |-> score, best_move |-> 0, nodes |-> 1]

Opposed_Bug(window) ==  \* negated and not turned round
    [alpha |-> -window.beta, beta |-> window.alpha]

\* The window as the opponent sees it.
Opposed(window) == [alpha |-> -window.beta, beta |-> -window.alpha]

Windows == [alpha : Int, beta : Int]

\* A position that is not searched any further is worth what it looks like.
GoesOn(pos) == pos.status = "open" /\ pos.next # << >>

Standing(pos) ==
    IF pos.status = "checkmate" THEN -MateScore + 1
    ELSE IF pos.status = "drawn" THEN 0 ELSE pos.eval

Untried(window) == [score |-> -MateScore, best_move |-> 0, nodes |-> 1, window |-> window]

\* A move is searched unless the window is shut; the first of equally good moves
\* is kept.  child: what the search of the position it leads to finds.
Try(acc, m, child) ==
    IF acc.window.alpha >= acc.window.beta THEN acc
    ELSE LET score == -child.score
         IN  [score |-> IF score > acc.score THEN score ELSE acc.score,
              best_move |-> IF score > acc.score THEN m ELSE acc.best_move,
              nodes |-> acc.nodes + child.nodes,
              window |-> [acc.window EXCEPT !.alpha = IF score > @ THEN score ELSE @]]

\* negamax, with alpha-beta pruning.
Negamax[node \in Nat \X Positions \X Windows] ==
    LET depth == node[1]
        pos == node[2]
        reply(a, m) == Negamax[<<depth - 1, pos.next[m], Opposed(a.window)>>]
        acc == FoldLeft(LAMBDA a, m : Try(a, m, reply(a, m)),
                        Untried(node[3]), [m \in 1 .. Len(pos.next) |-> m])
    IN  IF depth > 0 /\ GoesOn(pos)
        THEN [score |-> Taper(acc.score), best_move |-> acc.best_move, nodes |-> acc.nodes]
        ELSE Leaf(Standing(pos))

Clamp(depth) == IF depth > MaxDepth THEN MaxDepth ELSE depth

\* negamax_search, EngineState::search.
Search(depth) ==
    /\ found' = Negamax[<<Clamp(depth), position, [alpha |-> -MateScore, beta |-> MateScore]>>]
    /\ searched' = Clamp(depth)
    /\ UNCHANGED <<position, history>>

\* make_move: a legal one, which a position drawn by its material still has.
MakeMove(m) ==
    /\ m \in 1 .. Len(position.next)
    /\ history' = Append(history, position)
    /\ position' = position.next[m]
    /\ found' = NoResult /\ searched' = 0

\* unmake_move: fails on an empty history.
UnmakeMove ==
    /\ history # << >>
    /\ position' = Last(history)
    /\ history' = Front(history)
    /\ found' = NoResult /\ searched' = 0

\* clear_history.
ClearHistory ==
    /\ history # << >>
    /\ history' = << >>
    /\ UNCHANGED <<position, found, searched>>

EngineNext ==
    \/ \E d \in Depths : Search(d)
    \/ \E m \in 1 .. Len(position.next) : MakeMove(m)
    \/ UnmakeMove
    \/ ClearHistory

EngineSpec == EngineInit /\ [][EngineNext]_engineVars

\* perft: what the moves lead to after as many plies, one by one; the last ply is
\* counted without being played.
Perft[depth \in Nat, pos \in Positions] ==
    CASE depth = 0 -> 1
      [] depth = 1 -> Len(pos.next)
      [] OTHER -> FoldLeft(LAMBDA nodes, next : nodes + Perft[depth - 1, next], 0, pos.next)

-----------------------------------------------------------------------------
\* The lines of play of as many plies, and what perft makes of them.
Lines[depth \in Nat, pos \in Positions] ==
    IF depth = 0 THEN {<< >>}
    ELSE UNION {{<<m>> \o line : line \in Lines[depth - 1, pos.next[m]]} : m \in 1 .. Len(pos.next)}

PerftCountsLines(pos, depth) == Perft[depth, pos] = Cardinality(Lines[depth, pos])

\* Plain minimax, without a window and without an order of moves.
Worth[node \in Nat \X Positions] ==
    LET depth == node[1]
        pos == node[2]
    IN  IF depth > 0 /\ GoesOn(pos)
        THEN Taper(Max({-Worth[<<depth - 1, pos.next[m]>>] : m \in 1 .. Len(pos.next)}))
        ELSE Standing(pos)

\* A score with all mates for one side taken for one.
Verdict(score) ==
    IF score > MateScore - MateBand THEN MateScore
    ELSE IF score < -MateScore + MateBand THEN -MateScore ELSE score

\* Pruning changes no verdict: whether there is a mate and for whom, and the score
\* where there is none, is plain minimax's, and so is what becomes of the best
\* move, although mates are tapered on the way up and the window is not, whatever
\* moves were made and unmade before, and whatever depth above the cap was asked
\* for (negamax, negamax_search).
SearchIsExact ==
    searched > 0 =>
        /\ searched <= MaxDepth
        /\ Verdict(found.score) = Verdict(Worth[<<searched, position>>])
        /\ GoesOn(position) =>
               /\ found.best_move \in 1 .. Len(position.next)
               /\ Verdict(-Worth[<<searched - 1, position.next[found.best_move]>>])
                      = Verdict(found.score)

\* What the comment at the taper says, "if we have a mating line, taper so shorter
\* mates prefer": the best move mates as soon as any does (negamax).
ShorterMatesPrefer ==
    searched > 0 /\ GoesOn(position) /\ Worth[<<searched, position>>] > MateScore - MateBand =>
        Taper(-Worth[<<searched - 1, position.next[found.best_move]>>]) = Worth[<<searched, position>>]
-----------------------------------------------------------------------------
(* The static evaluation of the chess engine (engine/src/eval.rs): material,  *)
(* the square a piece stands on and who is to move. The numbers of its tables *)
(* are parameters.                                                            *)
CONSTANTS
    Files, Ranks,     \* 8 and 8
    Roles,
    material_value,   \* [Roles -> worth]
    pst,              \* [Roles -> [Squares -> worth]]: as White sees the board
    Tempo             \* 10

Squares == 0..(Files * Ranks - 1)

flip_vertical(sq) == (Ranks - 1 - sq \div Files) * Files + (sq % Files)

piece_score(piece, sq) ==
    IF piece.color = "White" THEN material_value[piece.role] + pst[piece.role][sq]
    ELSE -(material_value[piece.role] + pst[piece.role][flip_vertical(sq)])

\* A board tells the piece on each square that is occupied.
evaluate_white_perspective(board, turn) ==
    MapThenSumSet(LAMBDA sq : piece_score(board[sq], sq), DOMAIN board)
        + (IF turn = "White" THEN Tempo ELSE -Tempo)

evaluate_side_to_move(board, turn) ==
    LET white == evaluate_white_perspective(board, turn)
    IN  IF turn = "White" THEN white ELSE -white
-----------------------------------------------------------------------------
Other(color) == IF color = "White" THEN "Black" ELSE "White"

\* The board from the other side, colours exchanged.
Mirrored(board) ==
    [sq \in {flip_vertical(s) : s \in DOMAIN board} |->
        LET piece == board[flip_vertical(sq)] IN [piece EXCEPT !.color = Other(@)]]

\* What the search takes for granted when it negates a score: the evaluation
\* favours no colour. A position is worth to its mover what its mirror image is
\* worth to the other side, and changing the mover only negates the pieces.
FavoursNoColour(board, turn) ==
    LET worth == evaluate_side_to_move(board, turn)
    IN  /\ evaluate_side_to_move(Mirrored(board), Other(turn)) = worth
        /\ evaluate_side_to_move(board, Other(turn)) = 2 * Tempo - worth
=============================================================================
