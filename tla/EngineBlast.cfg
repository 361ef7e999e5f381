SPECIFICATION Spec
CONSTANTS
    U16 = 4
    U8 = 4
    conn_max = 2
    Player = {ann}
    players_count = 1
    size_x = 2
    size_y = 3
    game_length = 3
    explosion_radius = 2
    bomb_timer = 2
    initial_blocks = 2
    DirectionByte <- ValidBytes
CHECK_DEADLOCK FALSE
INVARIANTS
    OnBoard
    FuseHonoured
PROPERTIES
    ExplosionFollowsRules
