SPECIFICATION ServerSpec
CONSTANTS
    U16 = 4
    U8 = 4
    conn_max = 2
    Player = {ann, bob}
    None = None
    Message <- JoinOrBlock
    MaxUnread = 2
    players_count = 2
    size_x = 1
    size_y = 1
    game_length = 2
    explosion_radius = 0
    bomb_timer = 1
    initial_blocks = 1
    DirectionByte <- ValidBytes
CHECK_DEADLOCK FALSE
INVARIANTS
    ServerTypeOK
PROPERTIES
    GameEnds
    InterruptStops
