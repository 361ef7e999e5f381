SPECIFICATION Spec
CONSTANTS
    U16 = 4
    U8 = 4
    conn_max = 2
    Player = {ann}
    players_count = 1
    size_x = 2
    size_y = 2
    game_length = 1
    explosion_radius = 1
    bomb_timer = 1
    initial_blocks = 1
    DirectionByte <- ValidBytes
CHECK_DEADLOCK FALSE
PROPERTIES
    WalksOnlyIntoFreeFields
