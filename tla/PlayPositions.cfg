SPECIFICATION PlaySpec
CONSTANTS
    U16 = 4
    U8 = 4
    conn_max = 3
    Player = {ann}
    me = 1
    Input <- MoveOnly
    MaxPending = 1
    MaxUnread = 1
    players_count = 2
    size_x = 1
    size_y = 2
    game_length = 1
    explosion_radius = 0
    bomb_timer = 1
    initial_blocks = 0
    DirectionByte <- OneByte
CHECK_DEADLOCK FALSE
INVARIANTS
    RobotsShownInPlace
