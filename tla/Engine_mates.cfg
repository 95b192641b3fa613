\* Games of seven plies in which both sides are mated sooner or later.
CONSTANTS
    Positions <- MCPositions
    Games <- DeepGames
    MateScore = 100
    MateBand = 50
    MaxDepth = 7
    Depths = {1, 2, 3, 5, 7}
    Files = 2
    Ranks = 2
    Roles = {"King", "Pawn"}
    material_value <- MCMaterial
    pst <- MCSquareWorth
    Tempo = 10
SPECIFICATION EngineSpec
INVARIANT ShorterMatesPrefer
