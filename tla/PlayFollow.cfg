SPECIFICATION FairPlay
CONSTANTS
    U16 = 4
    U8 = 4
    conn_max = 3
    Player = {ann}
    me = 1
    Input <- AnyInput
    MaxPending = 1
    MaxUnread = 1
    players_count = 2
    size_x = 1
    size_y = 1
    game_length = 2
    explosion_radius = 0
    bomb_timer = 1
    initial_blocks = 0
    DirectionByte <- OneByte
CHECK_DEADLOCK FALSE
INVARIANTS
    PlayTypeOK
    Conversation
    StatusFollowsServer
    PlayersDrawn
    BombsDrawn
    ScoresCountHits
    DiesOnlyIfGreetedLate
PROPERTIES
    ProtocolKept
    ClientReturns
