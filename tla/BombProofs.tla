----------------------------- MODULE BombProofs -----------------------------
(***************************************************************************)
(* The theorems about bombs: each explodes when its fuse has burnt, once,  *)
(* and is on the board until then; and its beams, which handle_explosion   *)
(* computes try by try, in uint16_t, reach the fields that the rules       *)
(* expose.                                                                 *)
(***************************************************************************)
EXTENDS LogProofs

-----------------------------------------------------------------------------
(* Fuses: what the invariant says.                                         *)

\* The places where the log ts reports that bomb b was placed, or exploded.
Placed(ts, b) ==
    {l \in Places(ts) : EventAt(ts, l).code = "Bomb_placed" /\ EventAt(ts, l).id = b}
Exploded(ts, b) ==
    {l \in Places(ts) : EventAt(ts, l).code = "Bomb_exploded" /\ EventAt(ts, l).id = b}

BurntAt(ts, l, b, ix, ph) == Len(ts) - l[1] - (IF ph = "bombs" /\ b >= ix THEN 1 ELSE 0)

\* The four parts of the invariant, for each bomb.
KeptIn(ts, bs, next, ph) ==
    \A b : \A l \in Placed(ts, b) :
        /\ b < next
        /\ \A m \in Placed(ts, b) : m = l
        /\ ph = "bombs" => l[1] < Len(ts)
        /\ Len(ts) < l[1] + Fuse + (IF ph = "bombs" THEN 1 ELSE 0) => b \in DOMAIN bs
DueIn(ts, ix, ph) ==
    \A b : \A m \in Exploded(ts, b) :
        /\ \E l \in Placed(ts, b) : m[1] = l[1] + Fuse
        /\ \A l \in Exploded(ts, b) : l = m
        /\ ph = "bombs" /\ m[1] = Len(ts) => b < ix
CountIn(ts, bs, ix, ph) ==
    \A b \in DOMAIN bs : \E l \in Placed(ts, b) :
        /\ BurntAt(ts, l, b, ix, ph) \in 0 .. Fuse
        /\ BurntAt(ts, l, b, ix, ph) = Fuse => ph = "bombs" /\ b < ix
        /\ bs[b].timer = (Fuse - BurntAt(ts, l, b, ix, ph)) % U16
ReportIn(ts, ix, ph) ==
    \A b : \A l \in Placed(ts, b) : BurntAt(ts, l, b, ix, ph) >= Fuse => Exploded(ts, b) # {}

FuseIn(ts, bs, next, ix, ph) ==
    /\ KeptIn(ts, bs, next, ph) /\ DueIn(ts, ix, ph)
    /\ CountIn(ts, bs, ix, ph) /\ ReportIn(ts, ix, ph)

FuseInv == PlacingsKept /\ ExplosionsDue /\ TimersCount /\ BurntReported

\* The invariant speaks of the places of the log, bomb by bomb.
LEMMA KeptIs ==
    ASSUME NEW ts, NEW bs, NEW next, NEW ph
    PROVE  KeptIn(ts, bs, next, ph) <=>
            \A l \in Places(ts) : EventAt(ts, l).code = "Bomb_placed" =>
                /\ EventAt(ts, l).id < next
                /\ \A m \in Places(ts) :
                    EventAt(ts, m).code = "Bomb_placed" /\ EventAt(ts, m).id = EventAt(ts, l).id
                        => m = l
                /\ ph = "bombs" => l[1] < Len(ts)
                /\ Len(ts) < l[1] + Fuse + (IF ph = "bombs" THEN 1 ELSE 0)
                        => EventAt(ts, l).id \in DOMAIN bs
<1>1. ASSUME KeptIn(ts, bs, next, ph), NEW l \in Places(ts), EventAt(ts, l).code = "Bomb_placed"
      PROVE  /\ EventAt(ts, l).id < next
             /\ \A m \in Places(ts) :
                    EventAt(ts, m).code = "Bomb_placed" /\ EventAt(ts, m).id = EventAt(ts, l).id
                        => m = l
             /\ ph = "bombs" => l[1] < Len(ts)
             /\ Len(ts) < l[1] + Fuse + (IF ph = "bombs" THEN 1 ELSE 0)
                        => EventAt(ts, l).id \in DOMAIN bs
  <2>1. PICK b : b = EventAt(ts, l).id
    OBVIOUS
  <2>2. l \in Placed(ts, b)
    BY <1>1, <2>1 DEF Placed
  <2>3. \A m \in Places(ts) :
            EventAt(ts, m).code = "Bomb_placed" /\ EventAt(ts, m).id = b => m \in Placed(ts, b)
    BY DEF Placed
  <2>. QED
    BY <1>1, <2>1, <2>2, <2>3 DEF KeptIn
<1>. QED
  BY <1>1 DEF KeptIn, Placed

\* DueIn over the places of the log instead of pairs of numbers.
LEMMA DueIs ==
    ASSUME NEW ts, NEW ix, NEW ph
    PROVE  DueIn(ts, ix, ph) <=>
            \A m \in Places(ts) : EventAt(ts, m).code = "Bomb_exploded" =>
                /\ \E l \in Places(ts) :
                    /\ EventAt(ts, l).code = "Bomb_placed" /\ EventAt(ts, l).id = EventAt(ts, m).id
                    /\ m[1] = l[1] + Fuse
                /\ \A l \in Places(ts) :
                    EventAt(ts, l).code = "Bomb_exploded" /\ EventAt(ts, l).id = EventAt(ts, m).id
                        => l = m
                /\ ph = "bombs" /\ m[1] = Len(ts) => EventAt(ts, m).id < ix
<1>1. ASSUME DueIn(ts, ix, ph), NEW m \in Places(ts), EventAt(ts, m).code = "Bomb_exploded"
      PROVE  /\ \E l \in Places(ts) :
                    /\ EventAt(ts, l).code = "Bomb_placed" /\ EventAt(ts, l).id = EventAt(ts, m).id
                    /\ m[1] = l[1] + Fuse
             /\ \A l \in Places(ts) :
                    EventAt(ts, l).code = "Bomb_exploded" /\ EventAt(ts, l).id = EventAt(ts, m).id
                        => l = m
             /\ ph = "bombs" /\ m[1] = Len(ts) => EventAt(ts, m).id < ix
  <2>1. PICK b : b = EventAt(ts, m).id
    OBVIOUS
  <2>2. m \in Exploded(ts, b)
    BY <1>1, <2>1 DEF Exploded
  <2>3. \A l \in Places(ts) :
            EventAt(ts, l).code = "Bomb_exploded" /\ EventAt(ts, l).id = b => l \in Exploded(ts, b)
    BY DEF Exploded
  <2>4. PICK l \in Placed(ts, b) : m[1] = l[1] + Fuse
    BY <1>1, <2>2 DEF DueIn
  <2>5. l \in Places(ts) /\ EventAt(ts, l).code = "Bomb_placed" /\ EventAt(ts, l).id = b
    BY DEF Placed
  <2>6. /\ \A k \in Exploded(ts, b) : k = m
        /\ ph = "bombs" /\ m[1] = Len(ts) => b < ix
    BY <1>1, <2>2 DEF DueIn
  <2>. QED
    BY <2>1, <2>3, <2>4, <2>5, <2>6
<1>. QED
  BY <1>1 DEF DueIn, Placed, Exploded

\* CountIn likewise.
LEMMA CountIs ==
    ASSUME NEW ts, NEW bs, NEW ix, NEW ph
    PROVE  CountIn(ts, bs, ix, ph) <=>
            \A b \in DOMAIN bs : \E l \in Places(ts) :
                LET burnt == BurntAt(ts, l, EventAt(ts, l).id, ix, ph)
                IN  /\ EventAt(ts, l).code = "Bomb_placed" /\ EventAt(ts, l).id = b
                    /\ burnt \in 0 .. Fuse
                    /\ burnt = Fuse => ph = "bombs" /\ b < ix
                    /\ bs[b].timer = (Fuse - burnt) % U16
<1>1. \A b, l : l \in Placed(ts, b) <=>
        /\ l \in Places(ts) /\ EventAt(ts, l).code = "Bomb_placed" /\ EventAt(ts, l).id = b
  BY DEF Placed
<1>. QED
  BY <1>1 DEF CountIn

\* ReportIn likewise.
LEMMA ReportIs ==
    ASSUME NEW ts, NEW ix, NEW ph
    PROVE  ReportIn(ts, ix, ph) <=>
            \A l \in Places(ts) :
                EventAt(ts, l).code = "Bomb_placed" /\ BurntAt(ts, l, EventAt(ts, l).id, ix, ph) >= Fuse
                    => \E m \in Places(ts) : /\ EventAt(ts, m).code = "Bomb_exploded"
                                              /\ EventAt(ts, m).id = EventAt(ts, l).id
<1>1. \A b, l : l \in Placed(ts, b) <=>
        /\ l \in Places(ts) /\ EventAt(ts, l).code = "Bomb_placed" /\ EventAt(ts, l).id = b
  BY DEF Placed
<1>2. \A b : Exploded(ts, b) # {} <=> \E m \in Places(ts) : /\ EventAt(ts, m).code = "Bomb_exploded"
                                                              /\ EventAt(ts, m).id = b
  BY DEF Exploded
<1>. QED
  BY <1>1, <1>2 DEF ReportIn

\* The invariant in the state and in the next state.
LEMMA FuseInvIs ==
    /\ FuseInv <=> FuseIn(turns, bombs, next_bomb_id, index, phase)
    /\ FuseInv' <=> FuseIn(turns', bombs', next_bomb_id', index', phase')
<1>1. /\ PlacingsKept <=> KeptIn(turns, bombs, next_bomb_id, phase)
      /\ PlacingsKept' <=> KeptIn(turns', bombs', next_bomb_id', phase')
  BY KeptIs DEF PlacingsKept, IsPlacing, Log, At, Places, EventAt
<1>2. /\ ExplosionsDue <=> DueIn(turns, index, phase)
      /\ ExplosionsDue' <=> DueIn(turns', index', phase')
  <2>1. ExplosionsDue <=> DueIn(turns, index, phase)
    BY DueIs DEF ExplosionsDue, IsPlacing, IsExplosion, Log, At, Places, EventAt
  <2>2. ExplosionsDue' <=> DueIn(turns', index', phase')
    BY DueIs DEF ExplosionsDue, IsPlacing, IsExplosion, Log, At, Places, EventAt
  <2>. QED
    BY <2>1, <2>2
<1>3. /\ TimersCount <=> CountIn(turns, bombs, index, phase)
      /\ TimersCount' <=> CountIn(turns', bombs', index', phase')
  <2>1. TimersCount <=> CountIn(turns, bombs, index, phase)
    BY CountIs DEF TimersCount, IsPlacing, Log, At, Places, EventAt, Burnt, BurntAt
  <2>2. TimersCount' <=> CountIn(turns', bombs', index', phase')
    BY CountIs DEF TimersCount, IsPlacing, Log, At, Places, EventAt, Burnt, BurntAt
  <2>. QED
    BY <2>1, <2>2
<1>4. /\ BurntReported <=> ReportIn(turns, index, phase)
      /\ BurntReported' <=> ReportIn(turns', index', phase')
  <2>1. BurntReported <=> ReportIn(turns, index, phase)
    BY ReportIs DEF BurntReported, IsPlacing, IsExplosion, Log, At, Places, EventAt, Burnt, BurntAt
  <2>2. BurntReported' <=> ReportIn(turns', index', phase')
    BY ReportIs DEF BurntReported, IsPlacing, IsExplosion, Log, At, Places, EventAt, Burnt, BurntAt
  <2>. QED
    BY <2>1, <2>2
<1>. QED
  BY <1>1, <1>2, <1>3, <1>4 DEF FuseInv, FuseIn

\* Fuses burn for a positive number of turns.
LEMMA FuseType ==
    /\ Fuse \in 1 .. U16 /\ Fuse \in Nat /\ U16 \in Nat /\ U16 > 0
    /\ Fuse % U16 = bomb_timer
BY GameParams DEF Fuse

\* The decrement of a timer, in uint16_t.
LEMMA TimerTicks ==
    ASSUME NEW a \in 1 .. U16
    PROVE  ((a % U16) - 1) % U16 = a - 1 /\ (a - 1) % U16 = a - 1
<1>1. U16 \in Nat /\ a \in Nat /\ a > 0 /\ a <= U16
  BY GameParams
<1>2. (a - 1) % U16 = a - 1
  BY <1>1
<1>3. CASE a = U16
  <2>1. a % U16 = 0
    BY <1>1, <1>3
  <2>2. (0 - 1) % U16 = U16 - 1
    BY <1>1
  <2>. QED
    BY <1>2, <1>3, <2>1, <2>2
<1>4. CASE a < U16
  <2>1. a % U16 = a
    BY <1>1, <1>4
  <2>. QED
    BY <1>2, <2>1
<1>. QED
  BY <1>1, <1>2, <1>3, <1>4

\* Where placings and explosions are.
LEMMA PlacedAre ==
    ASSUME NEW ts \in Seq(TurnInfo), NEW b
    PROVE  /\ Len(ts) \in Nat
           /\ \A l \in Placed(ts, b) : l[1] \in 1 .. Len(ts) /\ l[1] \in Nat /\ b \in Nat
           /\ \A l \in Exploded(ts, b) : l[1] \in 1 .. Len(ts) /\ l[1] \in Nat /\ b \in Nat
<1>1. Len(ts) \in Nat
  BY LenProperties
<1>2. \A l \in Places(ts) : l[1] \in 1 .. Len(ts) /\ l[1] \in Nat /\ EventAt(ts, l) \in Event
  BY PlacesAre
<1>3. \A e \in Event : e.code \in {"Bomb_placed", "Bomb_exploded"} => e.id \in Nat
  BY DEF Event
<1>. QED
  BY <1>1, <1>2, <1>3 DEF Placed, Exploded

\* Events of other kinds leave both alone.
LEMMA PlacedKept ==
    ASSUME NEW ts, NEW us, NEW ev, Grown(ts, us, ev), NEW b
    PROVE  /\ (\A n \in 1 .. Len(ev) : ev[n].code # "Bomb_placed")
                => Placed(us, b) = Placed(ts, b)
           /\ (\A n \in 1 .. Len(ev) : ev[n].code # "Bomb_exploded")
                => Exploded(us, b) = Exploded(ts, b)
<1>1. \A l \in Places(ts) : l \in Places(us) /\ EventAt(us, l) = EventAt(ts, l)
  BY PlacesGrown
<1>2. ASSUME NEW l \in Places(us)
      PROVE  l \in Places(ts) \/ \E n \in 1 .. Len(ev) : EventAt(us, l) = ev[n]
  BY PlacesGrown
<1>3. ASSUME \A n \in 1 .. Len(ev) : ev[n].code # "Bomb_placed"
      PROVE  Placed(us, b) = Placed(ts, b)
  BY <1>1, <1>2, <1>3 DEF Placed
<1>4. ASSUME \A n \in 1 .. Len(ev) : ev[n].code # "Bomb_exploded"
      PROVE  Exploded(us, b) = Exploded(ts, b)
  BY <1>1, <1>2, <1>4 DEF Exploded
<1>. QED
  BY <1>3, <1>4

\* A new placing, or a new explosion, comes at the end.
LEMMA PlacedNew ==
    ASSUME NEW ts, NEW us, NEW e, Grown(ts, us, <<e>>), NEW b
    PROVE  /\ e.code = "Bomb_placed" =>
                Placed(us, b) = Placed(ts, b) \cup (IF b = e.id THEN {NewPlace(ts, 1)} ELSE {})
           /\ e.code = "Bomb_exploded" =>
                Exploded(us, b) = Exploded(ts, b) \cup (IF b = e.id THEN {NewPlace(ts, 1)} ELSE {})
           /\ NewPlace(ts, 1)[1] = Len(ts)
<1>1. PICK ev : ev = <<e>>
  OBVIOUS
<1>2. Len(ev) = 1 /\ ev[1] = e /\ Grown(ts, us, ev) /\ 1 \in 1 .. Len(ev)
  BY <1>1
<1>3. \A l \in Places(ts) : l \in Places(us) /\ EventAt(us, l) = EventAt(ts, l)
  BY <1>2, PlacesGrown
<1>4. /\ NewPlace(ts, 1) \in Places(us) /\ EventAt(us, NewPlace(ts, 1)) = e
      /\ NewPlace(ts, 1)[1] = Len(ts)
  BY <1>2, PlacesGrown
<1>5. \A l \in Places(us) : l \in Places(ts) \/ l = NewPlace(ts, 1)
  <2>1. \A l \in Places(us) : l \in Places(ts) \/ \E n \in 1 .. Len(ev) : l = NewPlace(ts, n)
    BY <1>2, PlacesGrown
  <2>2. \A n \in 1 .. Len(ev) : n = 1
    BY <1>2
  <2>. QED
    BY <2>1, <2>2
<1>6. ASSUME e.code = "Bomb_placed"
      PROVE  Placed(us, b) = Placed(ts, b) \cup (IF b = e.id THEN {NewPlace(ts, 1)} ELSE {})
  BY <1>3, <1>4, <1>5, <1>6 DEF Placed
<1>7. ASSUME e.code = "Bomb_exploded"
      PROVE  Exploded(us, b) = Exploded(ts, b) \cup (IF b = e.id THEN {NewPlace(ts, 1)} ELSE {})
  BY <1>3, <1>4, <1>5, <1>7 DEF Exploded
<1>. QED
  BY <1>4, <1>6, <1>7
-----------------------------------------------------------------------------
(* What each kind of step does to the invariant.                           *)

\* Outside the loop over the bombs, nothing is placed and nothing explodes.
LEMMA FuseSame ==
    ASSUME NEW ts, NEW us, NEW bs, NEW next, NEW ix, NEW iy, NEW ph, NEW pi,
           FuseIn(ts, bs, next, ix, ph), ph # "bombs", pi # "bombs", Len(us) = Len(ts),
           \A b : Placed(us, b) = Placed(ts, b), \A b : Exploded(us, b) = Exploded(ts, b)
    PROVE  FuseIn(us, bs, next, iy, pi)
<1>1. KeptIn(us, bs, next, pi)
  BY DEF FuseIn, KeptIn
<1>2. DueIn(us, iy, pi)
  BY DEF FuseIn, DueIn
<1>3. \A b, l : BurntAt(us, l, b, iy, pi) = BurntAt(ts, l, b, ix, ph)
  BY DEF BurntAt
<1>4. CountIn(us, bs, iy, pi)
  BY <1>3 DEF FuseIn, CountIn
<1>5. ReportIn(us, iy, pi)
  BY <1>3 DEF FuseIn, ReportIn
<1>. QED
  BY <1>1, <1>2, <1>4, <1>5 DEF FuseIn

\* Empty tables.
LEMMA FuseNone ==
    ASSUME NEW ts, NEW next, NEW ix, NEW ph,
           \A b : Placed(ts, b) = {}, \A b : Exploded(ts, b) = {}
    PROVE  FuseIn(ts, <<>>, next, ix, ph)
BY EmptyMap DEF FuseIn, KeptIn, DueIn, CountIn, ReportIn

\* begin_turn opens a turn that the loop over the bombs has still to count.
LEMMA FuseOpens ==
    ASSUME NEW ts \in Seq(TurnInfo), NEW us, NEW bs, NEW next, NEW ix, NEW ph,
           FuseIn(ts, bs, next, ix, ph), ph # "bombs", Len(us) = Len(ts) + 1,
           \A b : Placed(us, b) = Placed(ts, b), \A b : Exploded(us, b) = Exploded(ts, b)
    PROVE  FuseIn(us, bs, next, 0, "bombs")
<1>1. /\ Len(ts) \in Nat
      /\ \A b : \A l \in Placed(ts, b) : l[1] \in 1 .. Len(ts) /\ l[1] \in Nat /\ b \in Nat
      /\ \A b : \A l \in Exploded(ts, b) : l[1] \in 1 .. Len(ts) /\ l[1] \in Nat /\ b \in Nat
  BY PlacedAre
<1>2. Fuse \in Nat
  BY FuseType
<1>3. KeptIn(us, bs, next, "bombs")
  <2>. SUFFICES ASSUME NEW b, NEW l \in Placed(ts, b)
                PROVE  /\ b < next
                       /\ \A m \in Placed(ts, b) : m = l
                       /\ l[1] < Len(us)
                       /\ Len(us) < l[1] + Fuse + 1 => b \in DOMAIN bs
    BY DEF KeptIn
  <2>1. /\ b < next
        /\ \A m \in Placed(ts, b) : m = l
        /\ Len(ts) < l[1] + Fuse + 0 => b \in DOMAIN bs
    BY DEF FuseIn, KeptIn
  <2>. QED
    BY <1>1, <1>2, <2>1
<1>4. DueIn(us, 0, "bombs")
  <2>. SUFFICES ASSUME NEW b, NEW m \in Exploded(ts, b)
                PROVE  /\ \E l \in Placed(ts, b) : m[1] = l[1] + Fuse
                       /\ \A l \in Exploded(ts, b) : l = m
                       /\ m[1] # Len(us)
    BY DEF DueIn
  <2>. QED
    BY <1>1 DEF FuseIn, DueIn
<1>5. ASSUME NEW b, NEW l \in Placed(ts, b)
      PROVE  BurntAt(us, l, b, 0, "bombs") = BurntAt(ts, l, b, ix, ph)
  <2>1. BurntAt(ts, l, b, ix, ph) = Len(ts) - l[1] - 0
    BY DEF BurntAt
  <2>2. b >= 0
    BY <1>1
  <2>3. BurntAt(us, l, b, 0, "bombs") = Len(us) - l[1] - 1
    BY <2>2 DEF BurntAt
  <2>. QED
    BY <1>1, <2>1, <2>3
<1>6. CountIn(us, bs, 0, "bombs")
  <2>. SUFFICES ASSUME NEW b \in DOMAIN bs
                PROVE  \E l \in Placed(ts, b) :
                        /\ BurntAt(us, l, b, 0, "bombs") \in 0 .. Fuse
                        /\ BurntAt(us, l, b, 0, "bombs") # Fuse
                        /\ bs[b].timer = (Fuse - BurntAt(us, l, b, 0, "bombs")) % U16
    BY DEF CountIn
  <2>1. PICK l \in Placed(ts, b) :
            /\ BurntAt(ts, l, b, ix, ph) \in 0 .. Fuse
            /\ BurntAt(ts, l, b, ix, ph) # Fuse
            /\ bs[b].timer = (Fuse - BurntAt(ts, l, b, ix, ph)) % U16
    BY DEF FuseIn, CountIn
  <2>. QED
    BY <1>5, <2>1
<1>7. ReportIn(us, 0, "bombs")
  BY <1>5 DEF FuseIn, ReportIn
<1>. QED
  BY <1>3, <1>4, <1>6, <1>7 DEF FuseIn

\* A client places a bomb: its id is new, and its fuse starts now.
LEMMA FusePlaces ==
    ASSUME NEW ts \in Seq(TurnInfo), NEW us, NEW bs, NEW next \in Nat, NEW ix, NEW ph, NEW position,
           NEW place, place[1] = Len(ts),
           FuseIn(ts, bs, next, ix, ph), ph # "bombs", Len(us) = Len(ts),
           \A b : Placed(us, b) = Placed(ts, b) \cup (IF b = next THEN {place} ELSE {}),
           \A b : Exploded(us, b) = Exploded(ts, b)
    PROVE  FuseIn(us, map_insert(bs, next, [position |-> position, timer |-> bomb_timer]),
                  next + 1, ix, ph)
<1>1. /\ Len(ts) \in Nat
      /\ \A b : \A l \in Placed(ts, b) : l[1] \in 1 .. Len(ts) /\ l[1] \in Nat /\ b \in Nat
  BY PlacedAre
<1>2. Fuse \in Nat /\ Fuse > 0 /\ Fuse % U16 = bomb_timer
  BY FuseType
<1>3. Placed(ts, next) = {}
  BY DEF FuseIn, KeptIn
<1>4. next \notin DOMAIN bs
  BY <1>3 DEF FuseIn, CountIn
<1>5. PICK cs : cs = map_insert(bs, next, [position |-> position, timer |-> bomb_timer])
  OBVIOUS
<1>6. DOMAIN cs = DOMAIN bs \cup {next}
  BY <1>4, <1>5 DEF map_insert
<1>7. cs[next].timer = bomb_timer /\ \A b \in DOMAIN bs : cs[b] = bs[b]
  BY <1>4, <1>5 DEF map_insert
<1>8. KeptIn(us, cs, next + 1, ph)
  <2>. SUFFICES ASSUME NEW b, NEW l \in Placed(us, b)
                PROVE  /\ b < next + 1
                       /\ \A m \in Placed(us, b) : m = l
                       /\ Len(us) < l[1] + Fuse + 0 => b \in DOMAIN cs
    BY DEF KeptIn
  <2>1. CASE b = next
    BY <1>3, <1>6, <2>1
  <2>2. CASE b # next
    <3>1. l \in Placed(ts, b) /\ Placed(us, b) = Placed(ts, b)
      BY <2>2
    <3>2. /\ b < next
          /\ \A m \in Placed(ts, b) : m = l
          /\ Len(ts) < l[1] + Fuse + 0 => b \in DOMAIN bs
      BY <3>1 DEF FuseIn, KeptIn
    <3>. QED
      BY <1>1, <1>6, <3>1, <3>2
  <2>. QED
    BY <2>1, <2>2
<1>9. DueIn(us, ix, ph)
  BY DEF FuseIn, DueIn
<1>10. \A l, b : BurntAt(us, l, b, ix, ph) = BurntAt(ts, l, b, ix, ph)
  BY DEF BurntAt
<1>11. CountIn(us, cs, ix, ph)
  <2>. SUFFICES ASSUME NEW b \in DOMAIN cs
                PROVE  \E l \in Placed(us, b) :
                        /\ BurntAt(us, l, b, ix, ph) \in 0 .. Fuse
                        /\ BurntAt(us, l, b, ix, ph) # Fuse
                        /\ cs[b].timer = (Fuse - BurntAt(us, l, b, ix, ph)) % U16
    BY DEF CountIn
  <2>1. CASE b = next
    <3>1. place \in Placed(us, b)
      BY <2>1
    <3>2. BurntAt(us, place, b, ix, ph) = 0
      <4>1. BurntAt(us, place, b, ix, ph) = Len(us) - place[1] - 0
        BY DEF BurntAt
      <4>. QED
        BY <1>1, <4>1
    <3>3. Fuse - 0 = Fuse
      BY <1>2
    <3>4. 0 \in 0 .. Fuse /\ 0 # Fuse
      BY <1>2
    <3>5. cs[b].timer = (Fuse - 0) % U16
      BY <1>2, <1>7, <2>1, <3>3
    <3>. QED
      BY <3>1, <3>2, <3>4, <3>5
  <2>2. CASE b # next
    <3>1. b \in DOMAIN bs
      BY <1>6, <2>2
    <3>2. PICK l \in Placed(ts, b) :
            /\ BurntAt(ts, l, b, ix, ph) \in 0 .. Fuse
            /\ BurntAt(ts, l, b, ix, ph) # Fuse
            /\ bs[b].timer = (Fuse - BurntAt(ts, l, b, ix, ph)) % U16
      BY <3>1 DEF FuseIn, CountIn
    <3>. QED
      BY <1>7, <1>10, <2>2, <3>1, <3>2
  <2>. QED
    BY <2>1, <2>2
<1>12. ReportIn(us, ix, ph)
  <2>. SUFFICES ASSUME NEW b, NEW l \in Placed(us, b), BurntAt(us, l, b, ix, ph) >= Fuse
                PROVE  Exploded(ts, b) # {}
    BY DEF ReportIn
  <2>1. CASE b = next
    <3>1. l = place
      BY <1>3, <2>1
    <3>2. BurntAt(us, l, b, ix, ph) = Len(us) - l[1] - 0
      BY DEF BurntAt
    <3>. QED
      BY <1>1, <1>2, <3>1, <3>2
  <2>2. CASE b # next
    BY <1>10, <2>2 DEF FuseIn, ReportIn
  <2>. QED
    BY <2>1, <2>2
<1>. QED
  BY <1>5, <1>8, <1>9, <1>11, <1>12 DEF FuseIn

\* The bomb that the loop is at has burnt for less than its fuse, and its timer
\* goes down by one.
LEMMA FuseBurns ==
    ASSUME NEW ts \in Seq(TurnInfo), NEW bs, NEW next, NEW ix \in Nat,
           NEW b \in DOMAIN bs, b \in Nat, b >= ix, FuseIn(ts, bs, next, ix, "bombs")
    PROVE  \E l \in Placed(ts, b), burnt \in 0 .. Fuse - 1 :
            /\ burnt = Len(ts) - l[1] - 1
            /\ (bs[b].timer - 1) % U16 = Fuse - (burnt + 1)
            /\ (Fuse - (burnt + 1)) % U16 = Fuse - (burnt + 1)
            /\ (bs[b].timer - 1) % U16 = 0 => Len(ts) = l[1] + Fuse
<1>1. /\ Len(ts) \in Nat
      /\ \A c : \A l \in Placed(ts, c) : l[1] \in 1 .. Len(ts) /\ l[1] \in Nat /\ c \in Nat
  BY PlacedAre
<1>2. Fuse \in Nat /\ Fuse \in 1 .. U16 /\ U16 \in Nat
  BY FuseType
<1>3. PICK l \in Placed(ts, b) :
            /\ BurntAt(ts, l, b, ix, "bombs") \in 0 .. Fuse
            /\ BurntAt(ts, l, b, ix, "bombs") = Fuse => b < ix
            /\ bs[b].timer = (Fuse - BurntAt(ts, l, b, ix, "bombs")) % U16
  BY DEF FuseIn, CountIn
<1>4. PICK burnt : burnt = BurntAt(ts, l, b, ix, "bombs")
  OBVIOUS
<1>5. burnt = Len(ts) - l[1] - 1
  BY <1>4 DEF BurntAt
<1>6. burnt \in 0 .. Fuse - 1
  BY <1>2, <1>3, <1>4
<1>7. (bs[b].timer - 1) % U16 = Fuse - (burnt + 1)
      /\ (Fuse - (burnt + 1)) % U16 = Fuse - (burnt + 1)
  <2>1. Fuse - burnt \in 1 .. U16
    BY <1>2, <1>6
  <2>2. (((Fuse - burnt) % U16) - 1) % U16 = (Fuse - burnt) - 1
        /\ ((Fuse - burnt) - 1) % U16 = (Fuse - burnt) - 1
    BY <2>1, TimerTicks
  <2>3. (Fuse - burnt) - 1 = Fuse - (burnt + 1)
    BY <1>2, <1>6
  <2>. QED
    BY <1>3, <1>4, <2>2, <2>3
<1>8. ASSUME (bs[b].timer - 1) % U16 = 0 PROVE Len(ts) = l[1] + Fuse
  <2>1. Fuse = burnt + 1
    BY <1>2, <1>6, <1>7, <1>8
  <2>. QED
    BY <1>1, <1>5, <2>1
<1>. QED
  BY <1>5, <1>6, <1>7, <1>8

\* An iteration of the loop over the bombs counts the open turn for its bomb
\* alone: the timer reaches 0 exactly when the fuse has burnt.
LEMMA FuseTicks ==
    ASSUME NEW ts \in Seq(TurnInfo), NEW us, NEW bs, NEW cs, NEW next, NEW ix \in Nat,
           NEW b \in DOMAIN bs, b \in Nat, b >= ix,
           \A c \in DOMAIN bs : c >= ix => b <= c, DOMAIN bs \subseteq Nat,
           DOMAIN cs = DOMAIN bs,
           \A c \in DOMAIN bs : cs[c].timer = IF c = b THEN (bs[b].timer - 1) % U16 ELSE bs[c].timer,
           FuseIn(ts, bs, next, ix, "bombs"), Len(us) = Len(ts),
           \A c : Placed(us, c) = Placed(ts, c)
    PROVE  KeptIn(us, cs, next, "bombs") /\ CountIn(us, cs, b + 1, "bombs")
<1>1. /\ Len(ts) \in Nat
      /\ \A c : \A l \in Placed(ts, c) : l[1] \in 1 .. Len(ts) /\ l[1] \in Nat /\ c \in Nat
  BY PlacedAre
<1>2. Fuse \in Nat /\ Fuse \in 1 .. U16 /\ U16 \in Nat
  BY FuseType
<1>3. KeptIn(us, cs, next, "bombs")
  BY DEF FuseIn, KeptIn
<1>4. PICK l \in Placed(ts, b), burnt \in 0 .. Fuse - 1 :
            /\ burnt = Len(ts) - l[1] - 1
            /\ (bs[b].timer - 1) % U16 = Fuse - (burnt + 1)
            /\ (Fuse - (burnt + 1)) % U16 = Fuse - (burnt + 1)
  BY FuseBurns
<1>5. BurntAt(us, l, b, b + 1, "bombs") = burnt + 1
  <2>1. ~(b >= b + 1)
    OBVIOUS
  <2>2. BurntAt(us, l, b, b + 1, "bombs") = Len(us) - l[1] - 0
    BY <2>1 DEF BurntAt
  <2>. QED
    BY <1>1, <1>4, <2>2
<1>6. CountIn(us, cs, b + 1, "bombs")
  <2>. SUFFICES ASSUME NEW c \in DOMAIN bs
                PROVE  \E k \in Placed(us, c) :
                        /\ BurntAt(us, k, c, b + 1, "bombs") \in 0 .. Fuse
                        /\ BurntAt(us, k, c, b + 1, "bombs") = Fuse => c < b + 1
                        /\ cs[c].timer = (Fuse - BurntAt(us, k, c, b + 1, "bombs")) % U16
    BY DEF CountIn
  <2>1. CASE c = b
    <3>1. burnt + 1 \in 0 .. Fuse
      BY <1>2
    <3>2. cs[c].timer = (Fuse - (burnt + 1)) % U16
      BY <1>4, <2>1
    <3>3. c < b + 1
      BY <2>1
    <3>. QED
      BY <1>5, <2>1, <3>1, <3>2, <3>3
  <2>2. CASE c # b
    <3>1. PICK k \in Placed(ts, c) :
            /\ BurntAt(ts, k, c, ix, "bombs") \in 0 .. Fuse
            /\ BurntAt(ts, k, c, ix, "bombs") = Fuse => c < ix
            /\ bs[c].timer = (Fuse - BurntAt(ts, k, c, ix, "bombs")) % U16
      BY DEF FuseIn, CountIn
    <3>2. c >= ix <=> c >= b + 1
      BY <2>2
    <3>3. BurntAt(us, k, c, b + 1, "bombs") = BurntAt(ts, k, c, ix, "bombs")
      BY <3>2 DEF BurntAt
    <3>4. c < ix => c < b + 1
      OBVIOUS
    <3>. QED
      BY <2>2, <3>1, <3>3, <3>4
  <2>. QED
    BY <2>1, <2>2
<1>. QED
  BY <1>3, <1>6

\* A timer that does not reach 0 is no explosion.
LEMMA FuseQuietTick ==
    ASSUME NEW ts \in Seq(TurnInfo), NEW ix \in Nat, NEW b \in Nat, b >= ix,
           DueIn(ts, ix, "bombs")
    PROVE  DueIn(ts, b + 1, "bombs")
<1>1. \A c \in Nat : c < ix => c < b + 1
  OBVIOUS
<1>2. \A c : \A m \in Exploded(ts, c) : c \in Nat
  BY PlacedAre
<1>. QED
  BY <1>1, <1>2 DEF DueIn

\* The loop passes a bomb once a turn, so an explosion is the first of its bomb.
LEMMA FuseExplodes ==
    ASSUME NEW ts \in Seq(TurnInfo), NEW us, NEW bs, NEW next, NEW ix \in Nat, NEW b \in Nat,
           b >= ix, FuseIn(ts, bs, next, ix, "bombs"), Len(us) = Len(ts),
           NEW l \in Placed(ts, b), Len(ts) = l[1] + Fuse,
           NEW place, place[1] = Len(ts),
           \A c : Placed(us, c) = Placed(ts, c),
           \A c : Exploded(us, c) = Exploded(ts, c) \cup (IF c = b THEN {place} ELSE {})
    PROVE  DueIn(us, b + 1, "bombs")
<1>1. \A c : \A m \in Exploded(ts, c) : c \in Nat
  BY PlacedAre
<1>2. Exploded(ts, b) = {}
  <2>. SUFFICES ASSUME NEW m \in Exploded(ts, b) PROVE FALSE
    OBVIOUS
  <2>1. PICK k \in Placed(ts, b) : m[1] = k[1] + Fuse
    BY DEF FuseIn, DueIn
  <2>2. k = l
    BY DEF FuseIn, KeptIn
  <2>3. b < ix
    BY <2>1, <2>2 DEF FuseIn, DueIn
  <2>. QED
    BY <2>3
<1>. SUFFICES ASSUME NEW c, NEW m \in Exploded(us, c)
              PROVE  /\ \E k \in Placed(us, c) : m[1] = k[1] + Fuse
                     /\ \A k \in Exploded(us, c) : k = m
                     /\ m[1] = Len(us) => c < b + 1
  BY DEF DueIn
<1>3. CASE c = b
  <2>1. m = place /\ Exploded(us, c) = {place}
    BY <1>2, <1>3
  <2>2. b < b + 1
    OBVIOUS
  <2>. QED
    BY <1>3, <2>1, <2>2
<1>4. CASE c # b
  <2>1. m \in Exploded(ts, c) /\ Exploded(us, c) = Exploded(ts, c)
    BY <1>4
  <2>2. /\ \E k \in Placed(ts, c) : m[1] = k[1] + Fuse
        /\ \A k \in Exploded(ts, c) : k = m
        /\ m[1] = Len(ts) => c < ix
    BY <2>1 DEF FuseIn, DueIn
  <2>3. c < ix => c < b + 1
    BY <1>1, <2>1
  <2>. QED
    BY <2>1, <2>2, <2>3
<1>. QED
  BY <1>3, <1>4

\* A bomb that is gone while the open turn is still to be counted for it has
\* burnt and was reported.
LEMMA FuseGone ==
    ASSUME NEW ts \in Seq(TurnInfo), NEW bs, NEW next, NEW ix \in Nat, NEW b, b \notin DOMAIN bs,
           FuseIn(ts, bs, next, ix, "bombs"), NEW l \in Placed(ts, b), b >= ix
    PROVE  Exploded(ts, b) # {}
<1>1. Len(ts) \in Nat /\ l[1] \in Nat /\ Fuse \in Nat
  BY PlacedAre, FuseType
<1>2. ~(Len(ts) < l[1] + Fuse + 1)
  BY DEF FuseIn, KeptIn
<1>3. BurntAt(ts, l, b, ix, "bombs") = Len(ts) - l[1] - 1
  BY DEF BurntAt
<1>4. BurntAt(ts, l, b, ix, "bombs") >= Fuse
  BY <1>1, <1>2, <1>3
<1>. QED
  BY <1>4 DEF FuseIn, ReportIn

\* The fuse of the bomb that the loop is at burns out only with a report.
LEMMA FuseReports ==
    ASSUME NEW ts \in Seq(TurnInfo), NEW us, NEW bs, NEW next, NEW ix \in Nat,
           NEW b \in DOMAIN bs, b \in Nat, b >= ix,
           \A c \in DOMAIN bs : c >= ix => b <= c,
           FuseIn(ts, bs, next, ix, "bombs"), Len(us) = Len(ts),
           \A c : Placed(us, c) = Placed(ts, c), \A c : Exploded(ts, c) \subseteq Exploded(us, c),
           (bs[b].timer - 1) % U16 # 0 \/ Exploded(us, b) # {}
    PROVE  ReportIn(us, b + 1, "bombs")
<1>1. /\ Len(ts) \in Nat
      /\ \A c : \A l \in Placed(ts, c) : l[1] \in 1 .. Len(ts) /\ l[1] \in Nat /\ c \in Nat
  BY PlacedAre
<1>2. Fuse \in Nat
  BY FuseType
<1>. SUFFICES ASSUME NEW c, NEW l \in Placed(ts, c), BurntAt(us, l, c, b + 1, "bombs") >= Fuse,
                     Exploded(us, c) = {}
              PROVE  FALSE
  BY DEF ReportIn
<1>3. Exploded(ts, c) = {} /\ c \in Nat
  BY <1>1
<1>4. CASE c = b
  <2>1. PICK k \in Placed(ts, b), burnt \in 0 .. Fuse - 1 :
            /\ burnt = Len(ts) - k[1] - 1
            /\ (bs[b].timer - 1) % U16 = Fuse - (burnt + 1)
    BY FuseBurns
  <2>2. k = l
    BY <1>4 DEF FuseIn, KeptIn
  <2>3. ~(c >= b + 1)
    BY <1>4
  <2>4. BurntAt(us, l, c, b + 1, "bombs") = Len(us) - l[1] - 0
    BY <2>3 DEF BurntAt
  <2>5. burnt + 1 >= Fuse
    BY <1>1, <2>1, <2>2, <2>4
  <2>6. Fuse - (burnt + 1) = 0
    BY <1>2, <2>1, <2>5
  <2>. QED
    BY <1>4, <2>1, <2>6
<1>5. CASE c # b /\ (c < ix \/ c > b)
  <2>1. c >= ix <=> c >= b + 1
    BY <1>3, <1>5
  <2>2. BurntAt(us, l, c, b + 1, "bombs") = BurntAt(ts, l, c, ix, "bombs")
    BY <2>1 DEF BurntAt
  <2>. QED
    BY <1>3, <2>2 DEF FuseIn, ReportIn
<1>6. CASE c >= ix /\ c < b
  <2>1. c \notin DOMAIN bs
    BY <1>3, <1>6
  <2>. QED
    BY <1>3, <1>6, <2>1, FuseGone
<1>. QED
  BY <1>3, <1>4, <1>5, <1>6

\* The bombs that are erased are those whose fuse has burnt.
LEMMA FuseErases ==
    ASSUME NEW ts \in Seq(TurnInfo), NEW bs, NEW cs, NEW next, NEW ix \in Nat, NEW iy, NEW ph,
           ph # "bombs", FuseIn(ts, bs, next, ix, "bombs"),
           \A b \in DOMAIN bs : b < ix, DOMAIN bs \subseteq Nat,
           DOMAIN cs = {b \in DOMAIN bs : bs[b].timer # 0},
           \A b \in DOMAIN cs : cs[b] = bs[b]
    PROVE  FuseIn(ts, cs, next, iy, ph)
<1>1. /\ Len(ts) \in Nat
      /\ \A b : \A l \in Placed(ts, b) : l[1] \in 1 .. Len(ts) /\ l[1] \in Nat /\ b \in Nat
  BY PlacedAre
<1>2. Fuse \in Nat /\ Fuse \in 1 .. U16 /\ U16 \in Nat
  BY FuseType
<1>3. ASSUME NEW b \in DOMAIN bs
      PROVE  \E l \in Placed(ts, b) :
                /\ Len(ts) - l[1] \in 0 .. Fuse
                /\ bs[b].timer = (Fuse - (Len(ts) - l[1])) % U16
                /\ \A m \in Placed(ts, b) : m = l
                /\ l[1] < Len(ts)
  <2>1. PICK l \in Placed(ts, b) :
            /\ BurntAt(ts, l, b, ix, "bombs") \in 0 .. Fuse
            /\ bs[b].timer = (Fuse - BurntAt(ts, l, b, ix, "bombs")) % U16
    BY DEF FuseIn, CountIn
  <2>2. BurntAt(ts, l, b, ix, "bombs") = Len(ts) - l[1]
    <3>1. ~(b >= ix)
      OBVIOUS
    <3>2. BurntAt(ts, l, b, ix, "bombs") = Len(ts) - l[1] - 0
      BY <3>1 DEF BurntAt
    <3>. QED
      BY <1>1, <3>2
  <2>3. /\ \A m \in Placed(ts, b) : m = l
        /\ l[1] < Len(ts)
    BY DEF FuseIn, KeptIn
  <2>. QED
    BY <2>1, <2>2, <2>3
<1>4. KeptIn(ts, cs, next, ph)
  <2>. SUFFICES ASSUME NEW b, NEW l \in Placed(ts, b)
                PROVE  /\ b < next
                       /\ \A m \in Placed(ts, b) : m = l
                       /\ Len(ts) < l[1] + Fuse + 0 => b \in DOMAIN cs
    BY DEF KeptIn
  <2>1. /\ b < next
        /\ \A m \in Placed(ts, b) : m = l
        /\ Len(ts) < l[1] + Fuse + 1 => b \in DOMAIN bs
    BY DEF FuseIn, KeptIn
  <2>2. ASSUME Len(ts) < l[1] + Fuse PROVE b \in DOMAIN cs
    <3>1. b \in DOMAIN bs
      BY <1>1, <1>2, <2>1, <2>2
    <3>2. /\ bs[b].timer = (Fuse - (Len(ts) - l[1])) % U16
          /\ l[1] < Len(ts)
      BY <1>3, <2>1, <3>1
    <3>3. Fuse - (Len(ts) - l[1]) \in 1 .. U16 - 1
      BY <1>1, <1>2, <2>2, <3>2
    <3>4. (Fuse - (Len(ts) - l[1])) % U16 = Fuse - (Len(ts) - l[1])
      BY <1>2, <3>3, ModSmall
    <3>. QED
      BY <3>1, <3>2, <3>3, <3>4
  <2>. QED
    BY <1>1, <1>2, <2>1, <2>2
<1>5. DueIn(ts, iy, ph)
  BY DEF FuseIn, DueIn
<1>6. CountIn(ts, cs, iy, ph)
  <2>. SUFFICES ASSUME NEW b \in DOMAIN cs
                PROVE  \E l \in Placed(ts, b) :
                        /\ BurntAt(ts, l, b, iy, ph) \in 0 .. Fuse
                        /\ BurntAt(ts, l, b, iy, ph) # Fuse
                        /\ cs[b].timer = (Fuse - BurntAt(ts, l, b, iy, ph)) % U16
    BY DEF CountIn
  <2>1. b \in DOMAIN bs /\ cs[b].timer = bs[b].timer /\ bs[b].timer # 0
    OBVIOUS
  <2>2. PICK l \in Placed(ts, b) :
                /\ Len(ts) - l[1] \in 0 .. Fuse
                /\ bs[b].timer = (Fuse - (Len(ts) - l[1])) % U16
    BY <1>3, <2>1
  <2>3. BurntAt(ts, l, b, iy, ph) = Len(ts) - l[1]
    <3>1. BurntAt(ts, l, b, iy, ph) = Len(ts) - l[1] - 0
      BY DEF BurntAt
    <3>. QED
      BY <1>1, <3>1
  <2>4. Len(ts) - l[1] # Fuse
    <3>. SUFFICES ASSUME Len(ts) - l[1] = Fuse PROVE FALSE
      OBVIOUS
    <3>1. Fuse - (Len(ts) - l[1]) = 0
      BY <1>2
    <3>2. 0 % U16 = 0
      BY <1>2
    <3>. QED
      BY <2>1, <2>2, <3>1, <3>2
  <2>. QED
    BY <2>1, <2>2, <2>3, <2>4
<1>7. ReportIn(ts, iy, ph)
  <2>. SUFFICES ASSUME NEW b, NEW l \in Placed(ts, b), BurntAt(ts, l, b, iy, ph) >= Fuse
                PROVE  Exploded(ts, b) # {}
    BY DEF ReportIn
  <2>1. CASE b >= ix
    <3>1. b \notin DOMAIN bs
      BY <1>1, <2>1
    <3>. QED
      BY <2>1, <3>1, FuseGone
  <2>2. CASE ~(b >= ix)
    <3>1. BurntAt(ts, l, b, ix, "bombs") = BurntAt(ts, l, b, iy, ph)
      BY <2>2 DEF BurntAt
    <3>. QED
      BY <3>1 DEF FuseIn, ReportIn
  <2>. QED
    BY <2>1, <2>2
<1>. QED
  BY <1>4, <1>5, <1>6, <1>7 DEF FuseIn

-----------------------------------------------------------------------------
(* The theorems about fuses and the log.                                   *)

\* Steps outside the loop over the bombs that record no placing and no explosion.
LEMMA FuseOther ==
    ASSUME FuseInv, NEW ev, Grown(turns, turns', ev), phase # "bombs", phase' # "bombs",
           UNCHANGED <<bombs, next_bomb_id>>,
           \A n \in 1 .. Len(ev) : ev[n].code \notin {"Bomb_placed", "Bomb_exploded"}
    PROVE  FuseInv'
<1>1. /\ \A n \in 1 .. Len(ev) : ev[n].code # "Bomb_placed"
      /\ \A n \in 1 .. Len(ev) : ev[n].code # "Bomb_exploded"
  OBVIOUS
<1>2. /\ \A b : Placed(turns', b) = Placed(turns, b)
      /\ \A b : Exploded(turns', b) = Exploded(turns, b)
  BY <1>1, PlacedKept
<1>3. FuseIn(turns, bombs, next_bomb_id, index, phase) /\ Len(turns') = Len(turns)
  BY FuseInvIs DEF Grown
<1>4. FuseIn(turns', bombs, next_bomb_id, index', phase')
  BY <1>2, <1>3, FuseSame
<1>. QED
  BY <1>4, FuseInvIs

\* Events of one element.
LEMMA FuseOtherOne ==
    ASSUME FuseInv, NEW e, Grown(turns, turns', <<e>>), phase # "bombs", phase' # "bombs",
           UNCHANGED <<bombs, next_bomb_id>>,
           e.code \notin {"Bomb_placed", "Bomb_exploded"}
    PROVE  FuseInv'
<1>1. \A n \in 1 .. Len(<<e>>) : <<e>>[n].code \notin {"Bomb_placed", "Bomb_exploded"}
  OBVIOUS
<1>. QED
  BY <1>1, FuseOther

\* What an iteration of the loop means for FuseTicks.
LEMMA TicksAre ==
    ASSUME EngineInv, NEW b \in DOMAIN bombs, Ticks(b)
    PROVE  /\ index \in Nat /\ b \in Nat /\ b >= index /\ DOMAIN bombs \subseteq Nat
           /\ \A c \in DOMAIN bombs : c >= index => b <= c
           /\ DOMAIN bombs' = DOMAIN bombs
           /\ \A c \in DOMAIN bombs :
                bombs'[c].timer = IF c = b THEN (bombs[b].timer - 1) % U16 ELSE bombs[c].timer
           /\ phase = "bombs" /\ phase' = "bombs" /\ index' = b + 1
<1>1. /\ index \in Nat /\ DOMAIN bombs \subseteq Nat /\ bombs \in [DOMAIN bombs -> Bomb]
  BY DEF EngineInv, TypeOK, Map
<1>2. /\ phase = "bombs" /\ phase' = "bombs" /\ AtBomb(b) /\ index' = b + 1
      /\ bombs' = [bombs EXCEPT ![b].timer = (bombs[b].timer - 1) % U16]
  BY DEF Ticks
<1>3. DOMAIN bombs' = DOMAIN bombs
  BY <1>2
<1>4. ASSUME NEW c \in DOMAIN bombs
      PROVE  bombs'[c].timer = IF c = b THEN (bombs[b].timer - 1) % U16 ELSE bombs[c].timer
  <2>1. bombs[b] \in Bomb
    BY <1>1
  <2>2. CASE c = b
    <3>1. bombs'[c] = [bombs[b] EXCEPT !.timer = (bombs[b].timer - 1) % U16]
      BY <1>2, <2>2
    <3>. QED
      BY <2>1, <2>2, <3>1 DEF Bomb
  <2>3. CASE c # b
    BY <1>2, <2>3
  <2>. QED
    BY <2>2, <2>3
<1>. QED
  BY <1>1, <1>2, <1>3, <1>4 DEF AtBomb

\* A step that leaves the log alone: a bomb ticks, or the exploded are erased.
LEMMA FuseQuiet ==
    ASSUME EngineInv, FuseInv, Quiet PROVE FuseInv'
<1>1. turns' = turns /\ next_bomb_id' = next_bomb_id /\ turns \in Seq(TurnInfo)
  BY DEF Quiet, EngineInv, TypeOK
<1>2. FuseIn(turns, bombs, next_bomb_id, index, phase)
  BY FuseInvIs
<1>3. CASE phase # "bombs" /\ phase' # "bombs" /\ UNCHANGED bombs
  <2>1. FuseIn(turns, bombs, next_bomb_id, index', phase')
    BY <1>2, <1>3, FuseSame
  <2>. QED
    BY <1>1, <1>3, <2>1, FuseInvIs
<1>4. ASSUME NEW b \in DOMAIN bombs, Ticks(b), (bombs[b].timer - 1) % U16 # 0
      PROVE  FuseInv'
  <2>1. /\ index \in Nat /\ b \in Nat /\ b >= index /\ DOMAIN bombs \subseteq Nat
        /\ \A c \in DOMAIN bombs : c >= index => b <= c
        /\ DOMAIN bombs' = DOMAIN bombs
        /\ \A c \in DOMAIN bombs :
                bombs'[c].timer = IF c = b THEN (bombs[b].timer - 1) % U16 ELSE bombs[c].timer
        /\ phase = "bombs" /\ phase' = "bombs" /\ index' = b + 1
    BY <1>4, TicksAre
  <2>2. KeptIn(turns, bombs', next_bomb_id, "bombs") /\ CountIn(turns, bombs', b + 1, "bombs")
    BY <1>1, <1>2, <2>1, FuseTicks
  <2>3. DueIn(turns, b + 1, "bombs")
    BY <1>1, <1>2, <2>1, FuseQuietTick DEF FuseIn
  <2>4. ReportIn(turns, b + 1, "bombs")
    BY <1>1, <1>2, <1>4, <2>1, FuseReports
  <2>. QED
    BY <1>1, <2>1, <2>2, <2>3, <2>4, FuseInvIs DEF FuseIn
<1>5. CASE EraseBombs
  <2>1. /\ phase = "bombs" /\ phase' = "erase" /\ \A b \in DOMAIN bombs : b < index
        /\ DOMAIN bombs' = {b \in DOMAIN bombs : bombs[b].timer # 0}
        /\ \A b \in DOMAIN bombs' : bombs'[b] = bombs[b]
    BY <1>5 DEF EraseBombs, Restrict
  <2>2. index \in Nat /\ DOMAIN bombs \subseteq Nat
    BY DEF EngineInv, TypeOK, Map
  <2>3. FuseIn(turns, bombs', next_bomb_id, index', "erase")
    BY <1>1, <1>2, <2>1, <2>2, FuseErases
  <2>. QED
    BY <1>1, <2>1, <2>3, FuseInvIs
<1>6. CASE UNCHANGED vars
  <2>1. /\ turns' = turns /\ bombs' = bombs /\ next_bomb_id' = next_bomb_id
        /\ index' = index /\ phase' = phase
    BY <1>6 DEF vars, game, world, log
  <2>. QED
    BY <1>2, <2>1, FuseInvIs
<1>. QED
  BY <1>3, <1>4, <1>5, <1>6 DEF Quiet, QuietBombs

\* One case per kind of step.
LEMMA FuseStep ==
    ASSUME EngineInv, EngineInv', FuseInv, Kinds PROVE FuseInv'
<1>1. CASE Quiet
  BY <1>1, FuseQuiet
<1>2. FuseIn(turns, bombs, next_bomb_id, index, phase)
  BY FuseInvIs
<1>3. turns \in Seq(TurnInfo)
  BY DEF EngineInv, TypeOK
<1>4. CASE Opens
  <2>1. /\ turns' = Append(turns, Turn_info(current_turn')) /\ phase # "bombs"
        /\ phase' = "bombs" /\ index' = 0 /\ bombs' = bombs /\ next_bomb_id' = next_bomb_id
    BY <1>4 DEF Opens, world
  <2>2. current_turn' \in 0 .. U16 - 1
    BY DEF EngineInv, TypeOK
  <2>3. /\ Len(turns') = Len(turns) + 1 /\ Places(turns') = Places(turns)
        /\ \A l \in Places(turns) : EventAt(turns', l) = EventAt(turns, l)
    BY <1>3, <2>1, <2>2, OpenedLog, PlacesOpened
  <2>4. \A b : Placed(turns', b) = Placed(turns, b)
    BY <2>3 DEF Placed
  <2>5. \A b : Exploded(turns', b) = Exploded(turns, b)
    BY <2>3 DEF Exploded
  <2>6. FuseIn(turns', bombs, next_bomb_id, 0, "bombs")
    BY <1>2, <1>3, <2>1, <2>3, <2>4, <2>5, FuseOpens
  <2>. QED
    BY <2>1, <2>6, FuseInvIs
<1>5. CASE Joins \/ Ends
  <2>1. turns' = <<>> /\ bombs' = <<>>
    BY <1>5 DEF Joins, Ends, EngineInv, InGameTablesAgree
  <2>2. Places(<<>>) = {}
    BY EmptyMap DEF Places
  <2>3. \A b : Placed(turns', b) = {} /\ Exploded(turns', b) = {}
    BY <2>1, <2>2 DEF Placed, Exploded
  <2>. QED
    BY <2>1, <2>3, FuseNone, FuseInvIs
<1>6. ASSUME NEW b, NEW robots, NEW blocks, Explodes(b, robots, blocks) PROVE FuseInv'
  <2>1. PICK e : e = Bomb_exploded(b, robots, blocks)
    OBVIOUS
  <2>2. e.code = "Bomb_exploded" /\ e.id = b
    BY <2>1 DEF Bomb_exploded
  <2>3. /\ Grown(turns, turns', <<e>>) /\ b \in DOMAIN bombs /\ Ticks(b)
        /\ (bombs[b].timer - 1) % U16 = 0 /\ next_bomb_id' = next_bomb_id
    BY <1>6, <2>1 DEF Explodes, Adds
  <2>4. /\ index \in Nat /\ b \in Nat /\ b >= index /\ DOMAIN bombs \subseteq Nat
        /\ \A c \in DOMAIN bombs : c >= index => b <= c
        /\ DOMAIN bombs' = DOMAIN bombs
        /\ \A c \in DOMAIN bombs :
                bombs'[c].timer = IF c = b THEN (bombs[b].timer - 1) % U16 ELSE bombs[c].timer
        /\ phase = "bombs" /\ phase' = "bombs" /\ index' = b + 1
    BY <2>3, TicksAre
  <2>5. \A n \in 1 .. Len(<<e>>) : <<e>>[n].code # "Bomb_placed"
    BY <2>2
  <2>6. \A c : Placed(turns', c) = Placed(turns, c)
    BY <2>3, <2>5, PlacedKept
  <2>7. \A c : Exploded(turns', c)
            = Exploded(turns, c) \cup (IF c = b THEN {NewPlace(turns, 1)} ELSE {})
    BY <2>2, <2>3, PlacedNew
  <2>8. NewPlace(turns, 1)[1] = Len(turns) /\ Len(turns') = Len(turns)
    BY <2>3, PlacedNew DEF Grown
  <2>9. FuseIn(turns, bombs, next_bomb_id, index, "bombs") /\ b \in DOMAIN bombs
    BY <1>2, <2>3, <2>4
  <2>10. KeptIn(turns', bombs', next_bomb_id, "bombs") /\ CountIn(turns', bombs', b + 1, "bombs")
    BY <1>3, <2>4, <2>6, <2>8, <2>9, FuseTicks
  <2>11. PICK l \in Placed(turns, b) : Len(turns) = l[1] + Fuse
    BY <1>3, <2>3, <2>4, <2>9, FuseBurns
  <2>12. DueIn(turns', b + 1, "bombs")
    BY <1>3, <2>4, <2>6, <2>7, <2>8, <2>9, <2>11, FuseExplodes
  <2>13. ReportIn(turns', b + 1, "bombs")
    <3>1. Exploded(turns', b) # {}
      BY <2>7
    <3>2. \A c : Exploded(turns, c) \subseteq Exploded(turns', c)
      BY <2>7
    <3>. QED
      BY <1>3, <2>4, <2>6, <2>8, <2>9, <3>1, <3>2, FuseReports
  <2>. QED
    BY <2>3, <2>4, <2>10, <2>12, <2>13, FuseInvIs DEF FuseIn
<1>7. ASSUME NEW i, NEW e, ActsWith(i, e) PROVE FuseInv'
  <2>1. Grown(turns, turns', <<e>>) /\ phase = "serve" /\ phase' = "serve"
    BY <1>7 DEF ActsWith, Adds
  <2>2. CASE e.code \notin {"Bomb_placed", "Bomb_exploded"} /\ UNCHANGED <<bombs, next_bomb_id>>
    BY <2>1, <2>2, FuseOtherOne
  <2>3. ASSUME NEW position \in Position, e = Bomb_placed(next_bomb_id, position),
               bombs' = map_insert(bombs, next_bomb_id,
                                   [position |-> position, timer |-> bomb_timer]),
               next_bomb_id' = next_bomb_id + 1
        PROVE  FuseInv'
    <3>1. e.code = "Bomb_placed" /\ e.id = next_bomb_id
      BY <2>3 DEF Bomb_placed
    <3>2. \A n \in 1 .. Len(<<e>>) : <<e>>[n].code # "Bomb_exploded"
      BY <3>1
    <3>3. \A b : Exploded(turns', b) = Exploded(turns, b)
      BY <2>1, <3>2, PlacedKept
    <3>4. \A b : Placed(turns', b)
            = Placed(turns, b) \cup (IF b = next_bomb_id THEN {NewPlace(turns, 1)} ELSE {})
      BY <2>1, <3>1, PlacedNew
    <3>5. NewPlace(turns, 1)[1] = Len(turns) /\ Len(turns') = Len(turns)
      BY <2>1, PlacedNew DEF Grown
    <3>6. next_bomb_id \in Nat
      BY DEF EngineInv, TypeOK
    <3>7. FuseIn(turns', map_insert(bombs, next_bomb_id,
                                    [position |-> position, timer |-> bomb_timer]),
                 next_bomb_id + 1, index, "serve")
      BY <1>2, <1>3, <2>1, <3>3, <3>4, <3>5, <3>6, FusePlaces
    <3>8. FuseIn(turns', bombs', next_bomb_id', index, "serve")
      BY <2>3, <3>7
    <3>9. FuseIn(turns', bombs', next_bomb_id', index', "serve")
      BY <3>8, FuseSame
    <3>. QED
      BY <2>1, <3>9, FuseInvIs
  <2>4. (\E new \in Position : e = Player_moved(player_ids[i], new))
            => e.code = "Player_moved"
    BY DEF Player_moved
  <2>. QED
    BY <1>7, <2>2, <2>3, <2>4 DEF ActsWith
<1>8. ASSUME NEW e, Seeds(e) PROVE FuseInv'
  BY <1>8, FuseOtherOne DEF Seeds, Adds
<1>9. ASSUME NEW ids, NEW field, Starts(ids, field) PROVE FuseInv'
  <2>1. /\ ids \in Ascending(DOMAIN players') /\ DOMAIN players' \subseteq PlayerId
        /\ turns' \in Seq(TurnInfo) /\ Len(turns') = 1
        /\ turns'[1].events = SeedEvents(ids, field) /\ bombs' = <<>>
    BY <1>9 DEF Starts, EngineInv, TypeOK, Map
  <2>2. \A n \in 1 .. Len(turns'[1].events) : turns'[1].events[n].code = "Player_moved"
    BY <2>1, SeedEventsAre
  <2>3. ASSUME NEW l \in Places(turns') PROVE EventAt(turns', l).code = "Player_moved"
    <3>1. l[1] \in 1 .. Len(turns') /\ l[2] \in 1 .. Len(turns'[l[1]].events)
      BY <2>1, PlacesAre
    <3>2. l[1] = 1
      BY <2>1, <3>1
    <3>. QED
      BY <2>2, <3>1, <3>2 DEF EventAt
  <2>4. \A b : Placed(turns', b) = {} /\ Exploded(turns', b) = {}
    BY <2>3 DEF Placed, Exploded
  <2>. QED
    BY <2>1, <2>4, FuseNone, FuseInvIs
<1>10. ASSUME NEW ids, NEW field, Summarises(ids, field) PROVE FuseInv'
  <2>1. /\ Grown(turns, turns', SeedEvents(ids, field)) /\ phase # "bombs" /\ phase' # "bombs"
        /\ ids \in Ascending(current_players_to_destroy)
        /\ UNCHANGED <<bombs, next_bomb_id>>
    BY <1>10 DEF Summarises, Adds
  <2>2. current_players_to_destroy \subseteq PlayerId
    BY DEF EngineInv, TypeOK
  <2>3. \A n \in 1 .. Len(SeedEvents(ids, field)) :
            SeedEvents(ids, field)[n].code \notin {"Bomb_placed", "Bomb_exploded"}
    BY <2>1, <2>2, SeedEventsAre
  <2>. QED
    BY <2>1, <2>3, FuseOther
<1>. QED
  BY <1>1, <1>4, <1>5, <1>6, <1>7, <1>8, <1>9, <1>10 DEF Kinds

\* The invariant says what the property does.
LEMMA FuseInvHonours == ASSUME EngineInv, FuseInv PROVE FuseHonoured
<1>1. PlacingsKept /\ ExplosionsDue /\ TimersCount /\ BurntReported
  BY DEF FuseInv
<1>2. \A m \in Log : At(m).code = "Bomb_exploded" =>
        /\ \E l \in Log : At(l).code = "Bomb_placed" /\ At(l).id = At(m).id
                            /\ m[1] = l[1] + Fuse
        /\ \A l \in Log : At(l).code = "Bomb_exploded" /\ At(l).id = At(m).id => l = m
  BY <1>1 DEF ExplosionsDue, IsExplosion, IsPlacing
<1>3. ASSUME phase # "bombs", NEW b \in DOMAIN bombs
      PROVE  \E l \in Log : At(l).code = "Bomb_placed" /\ At(l).id = b /\ Len(turns) < l[1] + Fuse
  <2>1. PICK l \in Log : /\ IsPlacing(l) /\ At(l).id = b
                         /\ Burnt(l) \in 0 .. Fuse /\ Burnt(l) # Fuse
    BY <1>1, <1>3 DEF TimersCount
  <2>2. Burnt(l) = Len(turns) - l[1] - 0
    BY <1>3 DEF Burnt
  <2>3. Len(turns) \in Nat /\ l[1] \in Nat
    <3>1. turns \in Seq(TurnInfo) /\ l \in Places(turns)
      BY DEF EngineInv, TypeOK, Log, Places
    <3>. QED
      BY <3>1, PlacesAre, LenProperties
  <2>4. Len(turns) < l[1] + Fuse
    BY <2>1, <2>2, <2>3, FuseType
  <2>. QED
    BY <2>1, <2>4 DEF IsPlacing
<1>4. ASSUME phase # "bombs", NEW l \in Log, At(l).code = "Bomb_placed", Len(turns) < l[1] + Fuse
      PROVE  At(l).id \in DOMAIN bombs
  <2>1. l[1] \in Nat
    <3>1. turns \in Seq(TurnInfo) /\ l \in Places(turns)
      BY DEF EngineInv, TypeOK, Log, Places
    <3>. QED
      BY <3>1, PlacesAre
  <2>2. Len(turns) < l[1] + Fuse + 0
    BY <1>4, <2>1, FuseType
  <2>. QED
    BY <1>1, <1>4, <2>2 DEF PlacingsKept, IsPlacing
<1>5. phase # "bombs" =>
        DOMAIN bombs = {At(l).id : l \in {m \in Log : /\ At(m).code = "Bomb_placed"
                                                      /\ Len(turns) < m[1] + Fuse}}
  BY <1>3, <1>4
<1>6. ASSUME phase # "bombs", NEW l \in Log, At(l).code = "Bomb_placed", l[1] + Fuse <= Len(turns)
      PROVE  \E m \in Log : /\ At(m).code = "Bomb_exploded" /\ At(m).id = At(l).id
                            /\ m[1] = l[1] + Fuse
  <2>1. Burnt(l) = Len(turns) - l[1] - 0
    BY <1>6 DEF Burnt
  <2>2. Len(turns) \in Nat /\ l[1] \in Nat
    <3>1. turns \in Seq(TurnInfo) /\ l \in Places(turns)
      BY DEF EngineInv, TypeOK, Log, Places
    <3>. QED
      BY <3>1, PlacesAre, LenProperties
  <2>3. Burnt(l) >= Fuse
    BY <1>6, <2>1, <2>2, FuseType
  <2>4. PICK m \in Log : At(m).code = "Bomb_exploded" /\ At(m).id = At(l).id
    BY <1>1, <1>6, <2>3 DEF BurntReported, IsPlacing, IsExplosion
  <2>5. PICK k \in Log : /\ At(k).code = "Bomb_placed" /\ At(k).id = At(m).id
                         /\ m[1] = k[1] + Fuse
    BY <1>2, <2>4
  <2>6. k = l
    BY <1>1, <1>6, <2>4, <2>5 DEF PlacingsKept, IsPlacing
  <2>. QED
    BY <2>4, <2>5, <2>6
<1>. QED
  BY <1>2, <1>5, <1>6 DEF FuseHonoured

\* The timers of the bombs and the log agree at every step of the loop over the
\* bombs, and what is placed and erased around it keeps them so.
THEOREM FuseInvariant == Spec => []FuseInv
<1>1. Init => FuseInv
  <2>. SUFFICES ASSUME Init PROVE FuseInv
    OBVIOUS
  <2>1. turns = <<>> /\ bombs = <<>>
    BY DEF Init
  <2>2. Places(turns) = {}
    BY <2>1, EmptyMap DEF Places
  <2>3. \A b : Placed(turns, b) = {} /\ Exploded(turns, b) = {}
    BY <2>2 DEF Placed, Exploded
  <2>. QED
    BY <2>1, <2>3, FuseNone, FuseInvIs
<1>2. EngineInv /\ EngineInv' /\ FuseInv /\ [Next]_vars => FuseInv'
  BY StepKinds, FuseStep
<1>. QED
  BY <1>1, <1>2, EngineInvariant, PTL DEF Spec

\* A bomb explodes Fuse turns after it was placed, reported and once, whatever the
\* order of the bombs in the map and whatever was placed or exploded in between; a
\* bomb_timer of 0 burns for U16 turns.
THEOREM FusesAreHonoured == Spec => []FuseHonoured
<1>1. EngineInv /\ FuseInv => FuseHonoured
  BY FuseInvHonours
<1>. QED
  BY <1>1, FuseInvariant, EngineInvariant, PTL

\* All that relates the engine's tables to the log of turns, at every place of
\* its loop: marks, scores, the actions of a turn, timers and positions.
THEOREM LogInvariant == Spec => []LogInv
<1>1. (MarksMatchOpenTurn /\ ScoresMatchLog) /\ (OpenTurnServed /\ OneActionPerTurn)
        /\ FuseInv /\ PositionsMatchLog => LogInv
  BY DEF LogInv, FuseInv
<1>. QED
  BY <1>1, MarksAndScores, ServedAndActions, FuseInvariant, PositionsMatch, PTL

-----------------------------------------------------------------------------
(* Tries, directions and distances.                                        *)

\* The direction of the j-th of the four tries at a distance.
Dir(j) == <<Down, Up, Left, Right>>[j + 1]

\* go_up, go_down, ... at distance i.
ReachesAt(p, d, i, hits) ==
    /\ check_position(Shift(p, d, i))
    /\ \A h \in 1 .. i - 1 : check_position(Shift(p, d, h)) /\ Shift(p, d, h) \notin hits

\* A try is a direction and a distance ...
LEMMA TryIs ==
    ASSUME NEW k \in Tries
    PROVE  /\ k \in Nat /\ k % 4 \in 0 .. 3 /\ (k \div 4) + 1 \in 1 .. explosion_radius
           /\ k = 4 * (k \div 4) + (k % 4)
<1>1. k \in Nat /\ k <= 4 * explosion_radius - 1 /\ explosion_radius \in Nat
  BY GameParams DEF Tries
<1>. QED
  BY <1>1

\* ... and each of those is a try.
LEMMA TryAt ==
    ASSUME NEW i \in 1 .. explosion_radius, NEW j \in 0 .. 3
    PROVE  /\ 4 * (i - 1) + j \in Tries /\ (4 * (i - 1) + j) % 4 = j
           /\ ((4 * (i - 1) + j) \div 4) + 1 = i
<1>1. i \in Nat /\ i >= 1 /\ i <= explosion_radius /\ explosion_radius \in Nat
      /\ j \in Nat /\ j <= 3
  BY GameParams
<1>. QED
  BY <1>1 DEF Tries

\* The four directions in the order of the loop.
LEMMA DirIs ==
    /\ \A j \in 0 .. 3 : Dir(j) \in Directions
    /\ \A d \in Directions : \E j \in 0 .. 3 : Dir(j) = d
<1>1. Dir(0) = Down /\ Dir(1) = Up /\ Dir(2) = Left /\ Dir(3) = Right
  BY DEF Dir
<1>2. 0 .. 3 = {0, 1, 2, 3}
  OBVIOUS
<1>. QED
  BY <1>1, <1>2 DEF Directions

\* The try k looks at a field in one direction at one distance.
LEMMA BeamIs == ASSUME NEW p, NEW k PROVE Beam(p, k) = Shift(p, Dir(k % 4), (k \div 4) + 1)
BY DEF Beam, Dir

\* The flags go_up, ... at try k depend on the nearer fields of the direction.
LEMMA ReachesIs ==
    ASSUME NEW p, NEW hits, NEW k \in Tries
    PROVE  Reaches(p, k, hits) <=> ReachesAt(p, Dir(k % 4), (k \div 4) + 1, hits)
<1>0. PICK d, i : d = Dir(k % 4) /\ i = (k \div 4) + 1
  OBVIOUS
<1>1. k \in Nat /\ k % 4 \in 0 .. 3 /\ i \in 1 .. explosion_radius /\ k = 4 * (i - 1) + (k % 4)
  BY <1>0, TryIs
<1>2. Beam(p, k) = Shift(p, d, i)
  BY <1>0, BeamIs
<1>3. ASSUME ReachesAt(p, d, i, hits), NEW j \in Tries, j < k, j % 4 = k % 4
      PROVE  check_position(Beam(p, j)) /\ Beam(p, j) \notin hits
  <2>1. j \in Nat /\ j = 4 * (j \div 4) + (j % 4) /\ (j \div 4) + 1 \in 1 .. explosion_radius
    BY TryIs
  <2>2. (j \div 4) + 1 \in 1 .. i - 1
    BY <1>1, <1>3, <2>1
  <2>3. Beam(p, j) = Shift(p, d, (j \div 4) + 1)
    BY <1>0, <1>3, BeamIs
  <2>. QED
    BY <1>3, <2>2, <2>3 DEF ReachesAt
<1>4. ASSUME Reaches(p, k, hits), NEW h \in 1 .. i - 1
      PROVE  check_position(Shift(p, d, h)) /\ Shift(p, d, h) \notin hits
  <2>1. PICK j : j = 4 * (h - 1) + (k % 4)
    OBVIOUS
  <2>2. h \in 1 .. explosion_radius
    BY <1>1, GameParams
  <2>3. j \in Tries /\ j % 4 = k % 4 /\ (j \div 4) + 1 = h
    BY <1>1, <2>1, <2>2, TryAt
  <2>4. j < k
    BY <1>1, <2>1
  <2>5. Beam(p, j) = Shift(p, d, h)
    BY <1>0, <2>3, BeamIs
  <2>. QED
    BY <1>4, <2>3, <2>4, <2>5 DEF Reaches
<1>. QED
  BY <1>0, <1>2, <1>3, <1>4 DEF Reaches, ReachesAt

\* The fields that the beams reach.
Reached(p, hits) ==
    {q \in Position : \E d \in Directions, i \in 1 .. explosion_radius :
                        q = Shift(p, d, i) /\ ReachesAt(p, d, i, hits)}

\* The fields that the tries reach are those that a beam reaches.
LEMMA ReachedIs ==
    ASSUME NEW p \in Position, NEW hits
    PROVE  {Beam(p, k) : k \in {j \in Tries : Reaches(p, j, hits)}} = Reached(p, hits)
<1>1. ASSUME NEW k \in Tries, Reaches(p, k, hits) PROVE Beam(p, k) \in Reached(p, hits)
  <2>1. /\ Dir(k % 4) \in Directions /\ (k \div 4) + 1 \in 1 .. explosion_radius
        /\ Beam(p, k) = Shift(p, Dir(k % 4), (k \div 4) + 1)
        /\ ReachesAt(p, Dir(k % 4), (k \div 4) + 1, hits)
    BY <1>1, TryIs, DirIs, BeamIs, ReachesIs
  <2>2. Beam(p, k) \in Position
    BY <2>1, ShiftPosition, GameParams
  <2>. QED
    BY <2>1, <2>2 DEF Reached
<1>2. ASSUME NEW q \in Reached(p, hits)
      PROVE  \E k \in Tries : Reaches(p, k, hits) /\ Beam(p, k) = q
  <2>1. PICK d \in Directions, i \in 1 .. explosion_radius :
            q = Shift(p, d, i) /\ ReachesAt(p, d, i, hits)
    BY DEF Reached
  <2>2. PICK j \in 0 .. 3 : Dir(j) = d
    BY DirIs
  <2>3. PICK k : k = 4 * (i - 1) + j
    OBVIOUS
  <2>4. k \in Tries /\ k % 4 = j /\ (k \div 4) + 1 = i
    BY <2>3, TryAt
  <2>5. Beam(p, k) = q /\ Reaches(p, k, hits)
    BY <2>1, <2>2, <2>4, BeamIs, ReachesIs
  <2>. QED
    BY <2>4, <2>5
<1>. QED
  BY <1>1, <1>2

-----------------------------------------------------------------------------
(* The arms of the cross, without uint16_t.                                *)

\* The field at distance i from p.
Arm(p, d, i) ==
    CASE d = Up    -> [x |-> p.x, y |-> p.y + i]
      [] d = Down  -> [x |-> p.x, y |-> p.y - i]
      [] d = Left  -> [x |-> p.x - i, y |-> p.y]
      [] d = Right -> [x |-> p.x + i, y |-> p.y]

\* A coordinate that goes up meets the edge before it wraps around.
LEMMA UpwardStays ==
    ASSUME NEW n \in 1 .. U16 - 1, NEW a \in 0 .. n - 1, NEW i \in Nat \ {0}
    PROVE  /\ a + i < n => (a + i) % U16 = a + i
           /\ (\A h \in 1 .. i : (a + h) % U16 < n) => a + i < n
<1>1. U16 \in Nat /\ n \in Nat /\ n >= 1 /\ n < U16 /\ a \in Nat /\ a < n /\ i \in Nat /\ i >= 1
  BY GameParams
<1>2. a + i < n => (a + i) % U16 = a + i
  BY <1>1, ModSmall
<1>3. ASSUME a + i >= n, \A h \in 1 .. i : (a + h) % U16 < n PROVE FALSE
  <2>1. n - a \in 1 .. i /\ a + (n - a) = n
    BY <1>1, <1>3
  <2>2. n % U16 = n
    BY <1>1, ModSmall
  <2>3. PICK h \in 1 .. i : a + h = n
    BY <2>1
  <2>. QED
    BY <1>1, <1>3, <2>2, <2>3
<1>. QED
  BY <1>1, <1>2, <1>3

\* Just below 0 is the last uint16_t, which is not on the board.
LEMMA BelowZero == ASSUME NEW m \in Nat \ {0} PROVE (-1) % m = m - 1
OBVIOUS

\* A beam towards 0 that stays below the edge has not wrapped around.
LEMMA DownwardStays ==
    ASSUME NEW n \in 1 .. U16 - 1, NEW a \in 0 .. n - 1, NEW i \in Nat \ {0}
    PROVE  /\ a - i >= 0 => (a - i) % U16 = a - i
           /\ (\A h \in 1 .. i : (a - h) % U16 < n) => a - i >= 0
<1>1. U16 \in Nat /\ n \in Nat /\ n >= 1 /\ n < U16 /\ a \in Nat /\ a < n /\ i \in Nat /\ i >= 1
  BY GameParams
<1>2. ASSUME a - i >= 0 PROVE (a - i) % U16 = a - i
  <2>1. a - i \in Nat /\ a - i < U16
    BY <1>1, <1>2
  <2>. QED
    BY <1>1, <2>1, ModSmall
<1>3. ASSUME a - i < 0, \A h \in 1 .. i : (a - h) % U16 < n PROVE FALSE
  <2>1. PICK h \in 1 .. i : a - h = -1
    <3>1. a + 1 \in 1 .. i /\ a - (a + 1) = -1
      BY <1>1, <1>3
    <3>. QED
      BY <3>1
  <2>2. (-1) % U16 = U16 - 1
    <3>1. U16 \in Nat \ {0}
      BY <1>1
    <3>. QED
      BY <3>1, BelowZero
  <2>. QED
    BY <1>1, <1>3, <2>1, <2>2
<1>. QED
  BY <1>1, <1>2, <1>3

\* The coordinates of a field, and the sizes, as integers.
LEMMA BoardFields ==
    ASSUME NEW p \in Board
    PROVE  /\ p.x \in 0 .. size_x - 1 /\ p.y \in 0 .. size_y - 1
           /\ p = [x |-> p.x, y |-> p.y] /\ p.x \in Nat /\ p.y \in Nat
           /\ size_x \in Nat /\ size_y \in Nat
           /\ size_x \in 1 .. U16 - 1 /\ size_y \in 1 .. U16 - 1
BY GameParams DEF Board

\* The coordinates of the fields of the arms.
LEMMA ArmFields ==
    ASSUME NEW p \in Board, NEW i \in Nat
    PROVE  /\ Arm(p, Up, i) = [x |-> p.x, y |-> p.y + i]
           /\ Arm(p, Down, i) = [x |-> p.x, y |-> p.y - i]
           /\ Arm(p, Left, i) = [x |-> p.x - i, y |-> p.y]
           /\ Arm(p, Right, i) = [x |-> p.x + i, y |-> p.y]
           /\ Shift(p, Up, i) = [x |-> p.x, y |-> (p.y + i) % U16]
           /\ Shift(p, Down, i) = [x |-> p.x, y |-> (p.y - i) % U16]
           /\ Shift(p, Left, i) = [x |-> (p.x - i) % U16, y |-> p.y]
           /\ Shift(p, Right, i) = [x |-> (p.x + i) % U16, y |-> p.y]
BY DEF Arm, Shift, Up, Down, Left, Right

\* check_position tells the fields of the board.
LEMMA InBoard ==
    ASSUME NEW a \in Int, NEW b \in Int
    PROVE  [x |-> a, y |-> b] \in Board <=> 0 <= a /\ a < size_x /\ 0 <= b /\ b < size_y
<1>1. size_x \in Nat /\ size_y \in Nat
  BY GameParams
<1>. QED
  BY <1>1 DEF Board

\* When a field of an arm is on the board.
LEMMA ArmBoard ==
    ASSUME NEW p \in Board, NEW i \in Nat
    PROVE  /\ Arm(p, Up, i) \in Board <=> p.y + i < size_y
           /\ Arm(p, Down, i) \in Board <=> p.y - i >= 0
           /\ Arm(p, Left, i) \in Board <=> p.x - i >= 0
           /\ Arm(p, Right, i) \in Board <=> p.x + i < size_x
<1>0. /\ p.x \in Nat /\ p.y \in Nat /\ size_x \in Nat /\ size_y \in Nat
      /\ p.x < size_x /\ p.y < size_y
  BY BoardFields
<1>1. Arm(p, Up, i) \in Board <=> p.y + i < size_y
  <2>1. [x |-> p.x, y |-> p.y + i] \in Board <=>
            0 <= p.x /\ p.x < size_x /\ 0 <= p.y + i /\ p.y + i < size_y
    BY <1>0, InBoard
  <2>2. Arm(p, Up, i) = [x |-> p.x, y |-> p.y + i]
    BY ArmFields
  <2>. QED
    BY <1>0, <2>1, <2>2
<1>2. Arm(p, Down, i) \in Board <=> p.y - i >= 0
  <2>1. [x |-> p.x, y |-> p.y - i] \in Board <=>
            0 <= p.x /\ p.x < size_x /\ 0 <= p.y - i /\ p.y - i < size_y
    BY <1>0, InBoard
  <2>2. Arm(p, Down, i) = [x |-> p.x, y |-> p.y - i]
    BY ArmFields
  <2>. QED
    BY <1>0, <2>1, <2>2
<1>3. Arm(p, Left, i) \in Board <=> p.x - i >= 0
  <2>1. [x |-> p.x - i, y |-> p.y] \in Board <=>
            0 <= p.x - i /\ p.x - i < size_x /\ 0 <= p.y /\ p.y < size_y
    BY <1>0, InBoard
  <2>2. Arm(p, Left, i) = [x |-> p.x - i, y |-> p.y]
    BY ArmFields
  <2>. QED
    BY <1>0, <2>1, <2>2
<1>4. Arm(p, Right, i) \in Board <=> p.x + i < size_x
  <2>1. [x |-> p.x + i, y |-> p.y] \in Board <=>
            0 <= p.x + i /\ p.x + i < size_x /\ 0 <= p.y /\ p.y < size_y
    BY <1>0, InBoard
  <2>2. Arm(p, Right, i) = [x |-> p.x + i, y |-> p.y]
    BY ArmFields
  <2>. QED
    BY <1>0, <2>1, <2>2
<1>. QED
  BY <1>1, <1>2, <1>3, <1>4

\* A field of an arm is on the board as soon as the tries up to it are, and
\* then the wrapped coordinates are the plain ones.
LEMMA ArmOnBoard ==
    ASSUME NEW p \in Board, NEW d \in Directions, NEW i \in Nat \ {0}
    PROVE  /\ Arm(p, d, i) \in Board =>
                Shift(p, d, i) = Arm(p, d, i) /\ check_position(Shift(p, d, i))
           /\ (\A h \in 1 .. i : check_position(Shift(p, d, h))) => Arm(p, d, i) \in Board
<1>0. i \in 1 .. i
  OBVIOUS
<1>1. CASE d = Up
  <2>1. Arm(p, d, i) \in Board <=> p.y + i < size_y
    BY <1>1, ArmBoard
  <2>2. \A h \in 1 .. i : check_position(Shift(p, d, h)) <=> (p.y + h) % U16 < size_y
    BY <1>1, ArmFields, BoardFields DEF check_position
  <2>3. p.y + i < size_y => (p.y + i) % U16 = p.y + i
    BY UpwardStays, BoardFields
  <2>4. (\A h \in 1 .. i : (p.y + h) % U16 < size_y) => p.y + i < size_y
    BY UpwardStays, BoardFields
  <2>5. p.y + i < size_y => Shift(p, d, i) = Arm(p, d, i)
    BY <1>1, <2>3, ArmFields
  <2>6. p.y + i < size_y => (p.y + i) % U16 < size_y
    BY <2>3, BoardFields
  <2>7. p.y + i < size_y => check_position(Shift(p, d, i))
    BY <1>0, <2>2, <2>6
  <2>8. (\A h \in 1 .. i : check_position(Shift(p, d, h))) => p.y + i < size_y
    BY <2>2, <2>4
  <2>. QED
    BY <2>1, <2>5, <2>7, <2>8
<1>2. CASE d = Right
  <2>1. Arm(p, d, i) \in Board <=> p.x + i < size_x
    BY <1>2, ArmBoard
  <2>2. \A h \in 1 .. i : check_position(Shift(p, d, h)) <=> (p.x + h) % U16 < size_x
    BY <1>2, ArmFields, BoardFields DEF check_position
  <2>3. p.x + i < size_x => (p.x + i) % U16 = p.x + i
    BY UpwardStays, BoardFields
  <2>4. (\A h \in 1 .. i : (p.x + h) % U16 < size_x) => p.x + i < size_x
    BY UpwardStays, BoardFields
  <2>5. p.x + i < size_x => Shift(p, d, i) = Arm(p, d, i)
    BY <1>2, <2>3, ArmFields
  <2>6. p.x + i < size_x => (p.x + i) % U16 < size_x
    BY <2>3, BoardFields
  <2>7. p.x + i < size_x => check_position(Shift(p, d, i))
    BY <1>0, <2>2, <2>6
  <2>8. (\A h \in 1 .. i : check_position(Shift(p, d, h))) => p.x + i < size_x
    BY <2>2, <2>4
  <2>. QED
    BY <2>1, <2>5, <2>7, <2>8
<1>3. CASE d = Down
  <2>1. Arm(p, d, i) \in Board <=> p.y - i >= 0
    BY <1>3, ArmBoard
  <2>2. \A h \in 1 .. i : check_position(Shift(p, d, h)) <=> (p.y - h) % U16 < size_y
    BY <1>3, ArmFields, BoardFields DEF check_position
  <2>3. p.y - i >= 0 => (p.y - i) % U16 = p.y - i
    BY DownwardStays, BoardFields
  <2>4. (\A h \in 1 .. i : (p.y - h) % U16 < size_y) => p.y - i >= 0
    BY DownwardStays, BoardFields
  <2>5. p.y - i >= 0 => Shift(p, d, i) = Arm(p, d, i)
    BY <1>3, <2>3, ArmFields
  <2>6. p.y - i >= 0 => (p.y - i) % U16 < size_y
    BY <2>3, BoardFields
  <2>7. p.y - i >= 0 => check_position(Shift(p, d, i))
    BY <1>0, <2>2, <2>6
  <2>8. (\A h \in 1 .. i : check_position(Shift(p, d, h))) => p.y - i >= 0
    BY <2>2, <2>4
  <2>. QED
    BY <2>1, <2>5, <2>7, <2>8
<1>4. CASE d = Left
  <2>1. Arm(p, d, i) \in Board <=> p.x - i >= 0
    BY <1>4, ArmBoard
  <2>2. \A h \in 1 .. i : check_position(Shift(p, d, h)) <=> (p.x - h) % U16 < size_x
    BY <1>4, ArmFields, BoardFields DEF check_position
  <2>3. p.x - i >= 0 => (p.x - i) % U16 = p.x - i
    BY DownwardStays, BoardFields
  <2>4. (\A h \in 1 .. i : (p.x - h) % U16 < size_x) => p.x - i >= 0
    BY DownwardStays, BoardFields
  <2>5. p.x - i >= 0 => Shift(p, d, i) = Arm(p, d, i)
    BY <1>4, <2>3, ArmFields
  <2>6. p.x - i >= 0 => (p.x - i) % U16 < size_x
    BY <2>3, BoardFields
  <2>7. p.x - i >= 0 => check_position(Shift(p, d, i))
    BY <1>0, <2>2, <2>6
  <2>8. (\A h \in 1 .. i : check_position(Shift(p, d, h))) => p.x - i >= 0
    BY <2>2, <2>4
  <2>. QED
    BY <2>1, <2>5, <2>7, <2>8
<1>. QED
  BY <1>1, <1>2, <1>3, <1>4 DEF Directions

\* The nearer fields of an arm are on the board too.
LEMMA ArmNearer ==
    ASSUME NEW p \in Board, NEW d \in Directions, NEW i \in Nat \ {0},
           Arm(p, d, i) \in Board, NEW h \in 1 .. i
    PROVE  Arm(p, d, h) \in Board
<1>1. h \in Nat /\ h >= 1 /\ h <= i /\ i \in Nat
  OBVIOUS
<1>2. p.x \in Nat /\ p.y \in Nat /\ size_x \in Nat /\ size_y \in Nat
  BY BoardFields
<1>3. CASE d = Up
  BY <1>1, <1>2, <1>3, ArmBoard
<1>4. CASE d = Down
  BY <1>1, <1>2, <1>4, ArmBoard
<1>5. CASE d = Left
  BY <1>1, <1>2, <1>5, ArmBoard
<1>6. CASE d = Right
  BY <1>1, <1>2, <1>6, ArmBoard
<1>. QED
  BY <1>3, <1>4, <1>5, <1>6 DEF Directions

-----------------------------------------------------------------------------
(* Beams and the rules.                                                    *)

\* A beam reaches a field of the board when no nearer field of its arm is hit.
LEMMA ReachesArm ==
    ASSUME NEW p \in Board, NEW d \in Directions, NEW i \in Nat \ {0}, NEW hits
    PROVE  ReachesAt(p, d, i, hits) <=>
                Arm(p, d, i) \in Board /\ \A h \in 1 .. i - 1 : Arm(p, d, h) \notin hits
<1>1. ASSUME ReachesAt(p, d, i, hits)
      PROVE  Arm(p, d, i) \in Board /\ \A h \in 1 .. i - 1 : Arm(p, d, h) \notin hits
  <2>1. \A h \in 1 .. i : check_position(Shift(p, d, h))
    BY <1>1 DEF ReachesAt
  <2>2. Arm(p, d, i) \in Board
    BY <2>1, ArmOnBoard
  <2>3. ASSUME NEW h \in 1 .. i - 1 PROVE Arm(p, d, h) \notin hits
    <3>1. h \in 1 .. i /\ h \in Nat \ {0}
      OBVIOUS
    <3>2. Shift(p, d, h) = Arm(p, d, h)
      BY <2>2, <3>1, ArmNearer, ArmOnBoard
    <3>. QED
      BY <1>1, <3>2 DEF ReachesAt
  <2>. QED
    BY <2>2, <2>3
<1>2. ASSUME Arm(p, d, i) \in Board, \A h \in 1 .. i - 1 : Arm(p, d, h) \notin hits
      PROVE  ReachesAt(p, d, i, hits)
  <2>1. check_position(Shift(p, d, i))
    BY <1>2, ArmOnBoard
  <2>2. ASSUME NEW h \in 1 .. i - 1
        PROVE  check_position(Shift(p, d, h)) /\ Shift(p, d, h) \notin hits
    <3>1. h \in 1 .. i /\ h \in Nat \ {0}
      OBVIOUS
    <3>2. Arm(p, d, h) \in Board
      BY <1>2, <3>1, ArmNearer
    <3>3. Shift(p, d, h) = Arm(p, d, h) /\ check_position(Shift(p, d, h))
      BY <3>1, <3>2, ArmOnBoard
    <3>. QED
      BY <1>2, <3>3
  <2>. QED
    BY <2>1, <2>2 DEF ReachesAt
<1>. QED
  BY <1>1, <1>2

\* The cross is the bomb's field and the four arms.
LEMMA CrossIs ==
    ASSUME NEW p \in Board, NEW q \in Board
    PROVE  InCross(p, q) <=>
                q = p \/ \E d \in Directions, i \in 1 .. explosion_radius : q = Arm(p, d, i)
<1>1. /\ p.x \in Nat /\ p.y \in Nat /\ q.x \in Nat /\ q.y \in Nat
      /\ p = [x |-> p.x, y |-> p.y] /\ q = [x |-> q.x, y |-> q.y]
      /\ explosion_radius \in Nat
  BY BoardFields, GameParams
<1>2. ASSUME q = p PROVE InCross(p, q)
  BY <1>1, <1>2 DEF InCross
<1>3. ASSUME NEW d \in Directions, NEW i \in 1 .. explosion_radius, q = Arm(p, d, i)
      PROVE  InCross(p, q)
  <2>1. i \in Nat /\ i >= 1 /\ i <= explosion_radius
    BY <1>1
  <2>2. CASE d = Up
    <3>1. q.x = p.x /\ q.y = p.y + i
      BY <1>3, <2>1, <2>2, ArmFields
    <3>. QED
      BY <1>1, <2>1, <3>1 DEF InCross
  <2>3. CASE d = Down
    <3>1. q.x = p.x /\ q.y = p.y - i
      BY <1>3, <2>1, <2>3, ArmFields
    <3>. QED
      BY <1>1, <2>1, <3>1 DEF InCross
  <2>4. CASE d = Left
    <3>1. q.y = p.y /\ q.x = p.x - i
      BY <1>3, <2>1, <2>4, ArmFields
    <3>. QED
      BY <1>1, <2>1, <3>1 DEF InCross
  <2>5. CASE d = Right
    <3>1. q.y = p.y /\ q.x = p.x + i
      BY <1>3, <2>1, <2>5, ArmFields
    <3>. QED
      BY <1>1, <2>1, <3>1 DEF InCross
  <2>. QED
    BY <2>2, <2>3, <2>4, <2>5 DEF Directions
<1>4. ASSUME InCross(p, q), q # p
      PROVE  \E d \in Directions, i \in 1 .. explosion_radius : q = Arm(p, d, i)
  <2>1. CASE p.x = q.x /\ q.y - p.y \in -explosion_radius .. explosion_radius
    <3>1. q.y # p.y
      BY <1>1, <1>4, <2>1
    <3>2. CASE q.y > p.y
      <4>1. PICK i \in 1 .. explosion_radius : q.y = p.y + i /\ i \in Nat
        <5>1. q.y - p.y \in 1 .. explosion_radius /\ q.y = p.y + (q.y - p.y) /\ q.y - p.y \in Nat
          BY <1>1, <2>1, <3>2
        <5>. QED
          BY <5>1
      <4>2. q = Arm(p, Up, i)
        BY <1>1, <2>1, <4>1, ArmFields
      <4>. QED
        BY <4>2 DEF Directions
    <3>3. CASE q.y < p.y
      <4>1. PICK i \in 1 .. explosion_radius : q.y = p.y - i /\ i \in Nat
        <5>1. p.y - q.y \in 1 .. explosion_radius /\ q.y = p.y - (p.y - q.y) /\ p.y - q.y \in Nat
          BY <1>1, <2>1, <3>3
        <5>. QED
          BY <5>1
      <4>2. q = Arm(p, Down, i)
        BY <1>1, <2>1, <4>1, ArmFields
      <4>. QED
        BY <4>2 DEF Directions
    <3>. QED
      BY <1>1, <3>1, <3>2, <3>3
  <2>2. CASE p.y = q.y /\ q.x - p.x \in -explosion_radius .. explosion_radius
    <3>1. q.x # p.x
      BY <1>1, <1>4, <2>2
    <3>2. CASE q.x > p.x
      <4>1. PICK i \in 1 .. explosion_radius : q.x = p.x + i /\ i \in Nat
        <5>1. q.x - p.x \in 1 .. explosion_radius /\ q.x = p.x + (q.x - p.x) /\ q.x - p.x \in Nat
          BY <1>1, <2>2, <3>2
        <5>. QED
          BY <5>1
      <4>2. q = Arm(p, Right, i)
        BY <1>1, <2>2, <4>1, ArmFields
      <4>. QED
        BY <4>2 DEF Directions
    <3>3. CASE q.x < p.x
      <4>1. PICK i \in 1 .. explosion_radius : q.x = p.x - i /\ i \in Nat
        <5>1. p.x - q.x \in 1 .. explosion_radius /\ q.x = p.x - (p.x - q.x) /\ p.x - q.x \in Nat
          BY <1>1, <2>2, <3>3
        <5>. QED
          BY <5>1
      <4>2. q = Arm(p, Left, i)
        BY <1>1, <2>2, <4>1, ArmFields
      <4>. QED
        BY <4>2 DEF Directions
    <3>. QED
      BY <1>1, <3>1, <3>2, <3>3
  <2>. QED
    BY <1>4, <2>1, <2>2 DEF InCross
<1>. QED
  BY <1>2, <1>3, <1>4

\* What lies on the way to a field of an arm.
LEMMA WayIs ==
    ASSUME NEW p \in Board, NEW w \in Board, NEW d \in Directions, NEW i \in Nat \ {0}
    PROVE  OnTheWay(p, w, Arm(p, d, i)) <=>
                w = p \/ \E h \in 1 .. i - 1 : w = Arm(p, d, h)
<1>1. /\ p.x \in Nat /\ p.y \in Nat /\ w.x \in Nat /\ w.y \in Nat
      /\ p = [x |-> p.x, y |-> p.y] /\ w = [x |-> w.x, y |-> w.y]
      /\ i \in Nat /\ i >= 1
  BY BoardFields
<1>2. CASE d = Up
  <2>1. OnTheWay(p, w, Arm(p, d, i)) <=> w.x = p.x /\ p.y <= w.y /\ w.y < p.y + i
    <3>1. PICK q : q = Arm(p, d, i) /\ q = [x |-> p.x, y |-> p.y + i]
      BY <1>2, ArmFields
    <3>2. q.x = p.x /\ q.y = p.y + i /\ (w # q <=> w.x # p.x \/ w.y # p.y + i)
      BY <1>1, <3>1
    <3>. QED
      BY <1>1, <3>1, <3>2 DEF OnTheWay
  <2>2. \A h \in 1 .. i - 1 : w = Arm(p, d, h) <=> w.x = p.x /\ w.y = p.y + h
    BY <1>1, <1>2, ArmFields
  <2>3. w = p <=> w.x = p.x /\ w.y = p.y
    BY <1>1
  <2>4. p.y < w.y /\ w.y < p.y + i => \E h \in 1 .. i - 1 : w.y = p.y + h
    <3>1. p.y < w.y /\ w.y < p.y + i => w.y - p.y \in 1 .. i - 1 /\ w.y = p.y + (w.y - p.y)
      BY <1>1
    <3>. QED
      BY <3>1
  <2>. QED
    BY <1>1, <2>1, <2>2, <2>3, <2>4
<1>3. CASE d = Down
  <2>1. OnTheWay(p, w, Arm(p, d, i)) <=> w.x = p.x /\ w.y <= p.y /\ w.y > p.y - i
    <3>1. PICK q : q = Arm(p, d, i) /\ q = [x |-> p.x, y |-> p.y - i]
      BY <1>3, ArmFields
    <3>2. q.x = p.x /\ q.y = p.y - i /\ (w # q <=> w.x # p.x \/ w.y # p.y - i)
      BY <1>1, <3>1
    <3>. QED
      BY <1>1, <3>1, <3>2 DEF OnTheWay
  <2>2. \A h \in 1 .. i - 1 : w = Arm(p, d, h) <=> w.x = p.x /\ w.y = p.y - h
    BY <1>1, <1>3, ArmFields
  <2>3. w = p <=> w.x = p.x /\ w.y = p.y
    BY <1>1
  <2>4. w.y < p.y /\ w.y > p.y - i => \E h \in 1 .. i - 1 : w.y = p.y - h
    <3>1. w.y < p.y /\ w.y > p.y - i => p.y - w.y \in 1 .. i - 1 /\ w.y = p.y - (p.y - w.y)
      BY <1>1
    <3>. QED
      BY <3>1
  <2>. QED
    BY <1>1, <2>1, <2>2, <2>3, <2>4
<1>4. CASE d = Left
  <2>1. OnTheWay(p, w, Arm(p, d, i)) <=> w.y = p.y /\ w.x <= p.x /\ w.x > p.x - i
    <3>1. PICK q : q = Arm(p, d, i) /\ q = [x |-> p.x - i, y |-> p.y]
      BY <1>4, ArmFields
    <3>2. q.y = p.y /\ q.x = p.x - i /\ (w # q <=> w.y # p.y \/ w.x # p.x - i)
      BY <1>1, <3>1
    <3>. QED
      BY <1>1, <3>1, <3>2 DEF OnTheWay
  <2>2. \A h \in 1 .. i - 1 : w = Arm(p, d, h) <=> w.y = p.y /\ w.x = p.x - h
    BY <1>1, <1>4, ArmFields
  <2>3. w = p <=> w.x = p.x /\ w.y = p.y
    BY <1>1
  <2>4. w.x < p.x /\ w.x > p.x - i => \E h \in 1 .. i - 1 : w.x = p.x - h
    <3>1. w.x < p.x /\ w.x > p.x - i => p.x - w.x \in 1 .. i - 1 /\ w.x = p.x - (p.x - w.x)
      BY <1>1
    <3>. QED
      BY <3>1
  <2>. QED
    BY <1>1, <2>1, <2>2, <2>3, <2>4
<1>5. CASE d = Right
  <2>1. OnTheWay(p, w, Arm(p, d, i)) <=> w.y = p.y /\ p.x <= w.x /\ w.x < p.x + i
    <3>1. PICK q : q = Arm(p, d, i) /\ q = [x |-> p.x + i, y |-> p.y]
      BY <1>5, ArmFields
    <3>2. q.y = p.y /\ q.x = p.x + i /\ (w # q <=> w.y # p.y \/ w.x # p.x + i)
      BY <1>1, <3>1
    <3>. QED
      BY <1>1, <3>1, <3>2 DEF OnTheWay
  <2>2. \A h \in 1 .. i - 1 : w = Arm(p, d, h) <=> w.y = p.y /\ w.x = p.x + h
    BY <1>1, <1>5, ArmFields
  <2>3. w = p <=> w.x = p.x /\ w.y = p.y
    BY <1>1
  <2>4. p.x < w.x /\ w.x < p.x + i => \E h \in 1 .. i - 1 : w.x = p.x + h
    <3>1. p.x < w.x /\ w.x < p.x + i => w.x - p.x \in 1 .. i - 1 /\ w.x = p.x + (w.x - p.x)
      BY <1>1
    <3>. QED
      BY <3>1
  <2>. QED
    BY <1>1, <2>1, <2>2, <2>3, <2>4
<1>. QED
  BY <1>2, <1>3, <1>4, <1>5 DEF Directions

\* An arm is walked at most to the radius.
LEMMA RadiusNat == explosion_radius \in Nat /\ \A i \in 1 .. explosion_radius : i \in Nat \ {0}
<1>1. explosion_radius \in Nat
  BY GameParams
<1>. QED
  BY <1>1

\* Nothing lies on the way from a field to itself.
LEMMA NoWay == ASSUME NEW p \in Board, NEW w \in Board PROVE ~OnTheWay(p, w, p)
<1>1. /\ p.x \in Nat /\ p.y \in Nat /\ w.x \in Nat /\ w.y \in Nat
      /\ p = [x |-> p.x, y |-> p.y] /\ w = [x |-> w.x, y |-> w.y]
  BY BoardFields
<1>2. ASSUME OnTheWay(p, w, p) PROVE FALSE
  <2>1. w # p /\ w.x = p.x /\ w.y = p.y
    BY <1>1, <1>2 DEF OnTheWay
  <2>. QED
    BY <1>1, <2>1
<1>. QED
  BY <1>2

\* The beams from a bomb that is not under a block reach a field exactly when
\* the rules expose it: the nearest block of each arm shields what is behind.
LEMMA ReachedExposed ==
    ASSUME NEW p \in Board, NEW hits \in SUBSET Board, p \notin hits, NEW q \in Board
    PROVE  q \in {p} \cup Reached(p, hits) <=> Exposed(p, q, Reached(p, hits) \cap hits)
<1>. DEFINE walls == Reached(p, hits) \cap hits
<1>1. Exposed(p, p, walls)
  <2>1. InCross(p, p)
    BY CrossIs
  <2>. QED
    BY <2>1, NoWay DEF Exposed
<1>2. ASSUME q \in Reached(p, hits) PROVE Exposed(p, q, walls)
  <2>1. PICK d \in Directions, i \in 1 .. explosion_radius :
            q = Shift(p, d, i) /\ ReachesAt(p, d, i, hits)
    BY <1>2 DEF Reached
  <2>2. i \in Nat \ {0}
    BY RadiusNat
  <2>3. Arm(p, d, i) \in Board /\ \A h \in 1 .. i - 1 : Arm(p, d, h) \notin hits
    BY <2>1, <2>2, ReachesArm
  <2>4. q = Arm(p, d, i)
    BY <2>1, <2>2, <2>3, ArmOnBoard
  <2>5. InCross(p, q)
    BY <2>4, CrossIs
  <2>6. ASSUME NEW w \in walls PROVE ~OnTheWay(p, w, q)
    <3>1. w \in hits /\ w \in Board
      OBVIOUS
    <3>. QED
      BY <2>2, <2>3, <2>4, <3>1, WayIs
  <2>. QED
    BY <2>5, <2>6 DEF Exposed
<1>3. ASSUME Exposed(p, q, walls), q # p PROVE q \in Reached(p, hits)
  <2>1. PICK d \in Directions, i \in 1 .. explosion_radius : q = Arm(p, d, i)
    BY <1>3, CrossIs DEF Exposed
  <2>2. i \in Nat \ {0} /\ explosion_radius \in Nat
    BY RadiusNat
  <2>3. ASSUME \E h \in 1 .. i - 1 : Arm(p, d, h) \in hits PROVE FALSE
    <3>1. PICK T : T = {h \in 1 .. i - 1 : Arm(p, d, h) \in hits}
      OBVIOUS
    <3>2. T \in SUBSET Nat /\ T # {}
      BY <2>3, <3>1
    <3>3. PICK h \in T : \A y \in T : h <= y
      BY <3>2, LeastElement
    <3>4. /\ h \in 1 .. i - 1 /\ Arm(p, d, h) \in hits /\ h \in Nat \ {0}
          /\ h \in 1 .. i /\ h \in 1 .. explosion_radius
      BY <2>2, <3>1
    <3>5. \A g \in 1 .. h - 1 : Arm(p, d, g) \notin hits
      <4>1. ASSUME NEW g \in 1 .. h - 1, Arm(p, d, g) \in hits PROVE FALSE
        <5>1. g \in T
          BY <2>2, <3>1, <3>4, <4>1
        <5>2. h <= g
          BY <3>3, <5>1
        <5>. QED
          BY <3>4, <5>2
      <4>. QED
        BY <4>1
    <3>6. Arm(p, d, h) \in Board
      BY <3>4
    <3>7. ReachesAt(p, d, h, hits) /\ Shift(p, d, h) = Arm(p, d, h)
      BY <3>4, <3>5, <3>6, ReachesArm, ArmOnBoard
    <3>8. Arm(p, d, h) \in walls
      BY <3>4, <3>6, <3>7, BoardPosition DEF Reached
    <3>9. OnTheWay(p, Arm(p, d, h), q)
      BY <2>1, <2>2, <3>4, <3>6, WayIs
    <3>. QED
      BY <1>3, <3>8, <3>9 DEF Exposed
  <2>4. ReachesAt(p, d, i, hits) /\ Shift(p, d, i) = q
    BY <2>1, <2>2, <2>3, ReachesArm, ArmOnBoard
  <2>. QED
    BY <2>4, BoardPosition DEF Reached
<1>. QED
  BY <1>1, <1>2, <1>3

\* Under a block the explosion stays on the bomb's own field.
LEMMA CoveredExposed ==
    ASSUME NEW p \in Board, NEW q \in Board
    PROVE  Exposed(p, q, {p}) <=> q = p
<1>1. Exposed(p, p, {p})
  <2>1. InCross(p, p)
    BY CrossIs
  <2>. QED
    BY <2>1, NoWay DEF Exposed
<1>2. ASSUME Exposed(p, q, {p}), q # p PROVE FALSE
  <2>1. PICK d \in Directions, i \in 1 .. explosion_radius : q = Arm(p, d, i)
    BY <1>2, CrossIs DEF Exposed
  <2>2. i \in Nat \ {0}
    BY RadiusNat
  <2>3. OnTheWay(p, p, q)
    BY <2>1, <2>2, WayIs
  <2>. QED
    BY <1>2, <2>3 DEF Exposed
<1>. QED
  BY <1>1, <1>2

-----------------------------------------------------------------------------
(* handle_explosion.                                                       *)

\* The blocks pushed on the list are those that the beams meet.
LEMMA BlocksAreWalls ==
    ASSUME NEW p \in Board, NEW hits \in SUBSET Board, NEW blocks \in BlocksHit(p, hits)
    PROVE  Range(blocks) = IF p \in hits THEN {p} ELSE Reached(p, hits) \cap hits
<1>1. CASE p \in hits
  <2>1. blocks = <<p>>
    BY <1>1 DEF BlocksHit
  <2>2. Range(blocks) = {p}
    BY <2>1 DEF Range
  <2>. QED
    BY <1>1, <2>2
<1>2. CASE p \notin hits
  <2>1. PICK S : S = {k \in Tries : Reaches(p, k, hits) /\ Beam(p, k) \in hits}
    OBVIOUS
  <2>2. PICK f \in Ascending(S) : blocks = [n \in DOMAIN f |-> Beam(p, f[n])]
    BY <1>2, <2>1 DEF BlocksHit
  <2>3. S \subseteq Tries /\ S \in SUBSET Int
    BY <2>1, GameParams DEF Tries
  <2>4. IsFiniteSet(S)
    <3>1. IsFiniteSet(Tries)
      BY GameParams, FS_Interval DEF Tries
    <3>2. S \in SUBSET Tries
      BY <2>3
    <3>. QED
      BY <3>1, <3>2, FS_Subset
  <2>5. \A k \in S : \E n \in 1 .. Len(f) : f[n] = k
    BY <2>3, <2>4, AscendingOnto
  <2>6. f \in [1 .. Cardinality(S) -> S] /\ Cardinality(S) \in Nat
    BY <2>2, <2>4, FS_CardinalityType DEF Ascending
  <2>7. Len(f) = Cardinality(S) /\ DOMAIN f = 1 .. Len(f)
    BY <2>6
  <2>8. Range(blocks) = {Beam(p, k) : k \in S}
    BY <2>2, <2>5, <2>6, <2>7 DEF Range
  <2>9. {Beam(p, k) : k \in S} = {Beam(p, k) : k \in {j \in Tries : Reaches(p, j, hits)}} \cap hits
    BY <2>1
  <2>10. {Beam(p, k) : k \in {j \in Tries : Reaches(p, j, hits)}} = Reached(p, hits)
    BY BoardPosition, ReachedIs
  <2>. QED
    BY <1>2, <2>8, <2>9, <2>10
<1>. QED
  BY <1>1, <1>2

\* The fields on which robots are destroyed, and the blocks, are exposed.
LEMMA BlastFollowsRules ==
    ASSUME NEW p \in Board, NEW hits \in SUBSET Board, NEW blocks \in BlocksHit(p, hits)
    PROVE  /\ \A q \in Board : q \in BlastArea(p, hits) <=> Exposed(p, q, Range(blocks))
           /\ \A q \in Range(blocks) : Exposed(p, q, Range(blocks))
<1>1. CASE p \in hits
  <2>1. Range(blocks) = {p}
    BY <1>1, BlocksAreWalls
  <2>2. BlastArea(p, hits) = {p}
    BY <1>1 DEF BlastArea
  <2>. QED
    BY <2>1, <2>2, CoveredExposed
<1>2. CASE p \notin hits
  <2>1. Range(blocks) = Reached(p, hits) \cap hits
    BY <1>2, BlocksAreWalls
  <2>2. BlastArea(p, hits) = {p} \cup Reached(p, hits)
    <3>1. {j \in Tries : p \notin hits /\ Reaches(p, j, hits)} = {j \in Tries : Reaches(p, j, hits)}
      BY <1>2
    <3>2. {Beam(p, k) : k \in {j \in Tries : Reaches(p, j, hits)}} = Reached(p, hits)
      BY BoardPosition, ReachedIs
    <3>. QED
      BY <3>1, <3>2 DEF BlastArea
  <2>3. \A q \in Board : q \in {p} \cup Reached(p, hits) <=> Exposed(p, q, Reached(p, hits) \cap hits)
    BY <1>2, ReachedExposed
  <2>. QED
    BY <2>1, <2>2, <2>3
<1>. QED
  BY <1>1, <1>2

\* The only new event of a log that has grown by one.
LEMMA OneAdded ==
    ASSUME NEW ts, NEW us, NEW e, Grown(ts, us, <<e>>)
    PROVE  \A n \in 1 .. Len(us[Len(ts)].events) :
                n > Len(ts[Len(ts)].events) => us[Len(ts)].events[n] = e
<1>1. Len(ts) \in 1 .. Len(ts) /\ ts \in Seq(TurnInfo)
  BY DEF Grown
<1>2. PICK s \in Seq(Event) : s = ts[Len(ts)].events
  BY <1>1, EventsType
<1>3. us[Len(ts)].events = s \o <<e>> /\ <<e>> \in Seq(Event)
  BY <1>2 DEF Grown
<1>4. /\ Len(s \o <<e>>) = Len(s) + 1
      /\ (s \o <<e>>)[Len(s) + 1] = e
  BY <1>2, <1>3
<1>5. \A n \in 1 .. Len(s \o <<e>>) : n > Len(s) => n = Len(s) + 1
  BY <1>4
<1>. QED
  BY <1>2, <1>3, <1>4, <1>5

\* What TickBomb adds when the timer reaches 0.
LEMMA ExplosionKept ==
    ASSUME EngineInv, NEW b \in DOMAIN bombs, TickBomb(b) PROVE RulesKept
<1>1. /\ TypeOK /\ OnBoard /\ gameplay_started /\ b \in Nat /\ phase = "bombs"
      /\ bombs[b].position \in Board
  BY DEF EngineInv, PhaseAgrees, TickBomb, TypeOK, Map, OnBoard
<1>2. /\ turns \in Seq(TurnInfo) /\ Len(turns) = current_turn + 1
      /\ Len(turns) \in 1 .. Len(turns)
  BY <1>1, InGameTypes
<1>3. PICK c : c = current_turn + 1 /\ c = Len(turns)
  BY <1>2
<1>4. Len(turns[c].events) \in Nat
  BY <1>2, <1>3, EventsType
<1>5. CASE turns' = turns
  BY <1>1, <1>3, <1>4, <1>5 DEF RulesKept
<1>6. CASE turns' # turns
  <2>1. handle_explosion(b, bombs[b].position)
    BY <1>6 DEF TickBomb
  <2>2. PICK p \in Board : p = bombs[b].position
    BY <1>1
  <2>3. PICK hits \in SUBSET Board :
            \E blocks \in BlocksHit(p, hits) :
                turns' = add_events(<<Bomb_exploded(b,
                    {r \in DOMAIN players_positions : players_positions[r] \in BlastArea(p, hits)},
                    blocks)>>)
    BY <2>1, <2>2 DEF handle_explosion, Found
  <2>4. PICK blocks \in BlocksHit(p, hits) :
            turns' = add_events(<<Bomb_exploded(b,
                {r \in DOMAIN players_positions : players_positions[r] \in BlastArea(p, hits)},
                blocks)>>)
    BY <2>3
  <2>5. PICK robots :
            robots = {r \in DOMAIN players_positions : players_positions[r] \in BlastArea(p, hits)}
    OBVIOUS
  <2>6. PICK e : e = Bomb_exploded(b, robots, blocks)
    OBVIOUS
  <2>7. e.id = b /\ e.robots_destroyed = robots /\ e.blocks_destroyed = blocks
    BY <2>6 DEF Bomb_exploded
  <2>8. turns' = add_events(<<e>>)
    BY <2>4, <2>5, <2>6
  <2>9. blocks \in Seq(Board)
    BY BlocksHitType
  <2>10. robots \in SUBSET PlayerId /\ blocks \in Seq(Position)
    BY <1>1, <2>5, <2>9, BoardPosition, SeqMonotonic DEF TypeOK, Map
  <2>11. e \in Event /\ <<e>> \in Seq(Event) /\ Len(<<e>>) = 1
    BY <1>1, <2>6, <2>10 DEF Bomb_exploded, Event
  <2>12. Grown(turns, turns', <<e>>)
    BY <1>1, <2>8, <2>11, AddEventsGrow
  <2>13. \A n \in 1 .. Len(turns'[c].events) :
            n > Len(turns[c].events) => turns'[c].events[n] = e
    BY <1>3, <2>12, OneAdded
  <2>14. /\ \A q \in Board : q \in BlastArea(p, hits) <=> Exposed(p, q, Range(blocks))
         /\ \A q \in Range(blocks) : Exposed(p, q, Range(blocks))
    BY BlastFollowsRules
  <2>15. \A r \in DOMAIN players_positions : players_positions[r] \in Board
    BY <1>1 DEF OnBoard
  <2>16. robots = {r \in DOMAIN players_positions :
                      Exposed(p, players_positions[r], Range(blocks))}
    BY <2>5, <2>14, <2>15
  <2>. QED
    BY <1>1, <1>3, <2>2, <2>7, <2>13, <2>14, <2>16 DEF RulesKept
<1>. QED
  BY <1>5, <1>6

\* In the loop over the bombs nothing else adds an event.
LEMMA ExplosionStep == EngineInv /\ [Next]_vars => RulesKept
<1>. SUFFICES ASSUME EngineInv, [Next]_vars PROVE RulesKept
  OBVIOUS
<1>1. CASE phase # "bombs"
  BY <1>1 DEF RulesKept
<1>2. CASE phase = "bombs"
  <2>1. (\E b \in DOMAIN bombs : TickBomb(b)) \/ EraseBombs \/ UNCHANGED vars
    BY <1>2 DEF Next, ServerStep, ClientStep, HandleMsg, Serving, Acts, BeginTurn, EraseBlock,
                TurnBegun, PollInLobby, NoConnection, SeedBlock, EndRound, SummariseTurn,
                AcceptClient, JoinRefused, Join, ActionRefused, ActionThrows, PlaceBomb,
                PlaceBlock, Move
  <2>2. ASSUME turns' = turns PROVE RulesKept
    <3>1. gameplay_started
      BY <1>2 DEF EngineInv, PhaseAgrees
    <3>2. PICK c : c = current_turn + 1 /\ c \in 1 .. Len(turns)
      BY <3>1, InGameTypes
    <3>3. Len(turns[c].events) \in Nat
      BY <3>1, <3>2, InGameTypes, EventsType
    <3>. QED
      BY <1>2, <2>2, <3>2, <3>3 DEF RulesKept
  <2>. QED
    BY <2>1, <2>2, ExplosionKept DEF EraseBombs, vars, game, log
<1>. QED
  BY <1>1, <1>2

\* The beams of every explosion, whose coordinates are uint16_t and wrap
\* around, destroy exactly the robots and blocks of the cross that no nearer
\* block shields.
THEOREM ExplosionsFollowRules == Spec => ExplosionFollowsRules
BY ExplosionStep, EngineInvariant, PTL DEF Spec, ExplosionFollowsRules
=============================================================================
