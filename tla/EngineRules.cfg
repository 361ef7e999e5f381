SPECIFICATION Spec
CONSTANTS
    U16 = 4
    U8 = 4
    conn_max = 3
    Player = {ann}
    players_count = 2
    size_x = 2
    size_y = 2
    game_length = 2
    explosion_radius = 1
    bomb_timer = 1
    initial_blocks = 0
    DirectionByte <- AnyByte
CHECK_DEADLOCK FALSE
INVARIANTS
    TypeOK
    InGameTablesAgree
    IdsConsistent
    NoAbortInGame
    EngineInv
    PositionsMatchLog
    ScoresMatchLog
    OneActionPerTurn
    LogInv
PROPERTIES
    HistoryFrozen
