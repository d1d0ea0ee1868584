-------------------------------- MODULE Arena --------------------------------
(***************************************************************************)
(* How an arena is generated: terrain, bases, the roads that connect them, *)
(* the repair of sealed pockets, and the first loose components.           *)
(*                                                                         *)
(*   internal/sim/generate.go   Generate and its helpers                   *)
(*   internal/sim/nav.go        reachable                                  *)
(*   internal/sim/world.go      Terrain, terrainSpecs, Passable            *)
(*                                                                         *)
(* Generation is one call that shares nothing; its steps are actions here, *)
(* so that what a later one does to the work of an earlier one is in the   *)
(* open.  Draws of the rng are free choices over what they can give: any   *)
(* cell for a base, since any may be the furthest of the cells drawn, and  *)
(* the shapes of Shapes for a blob, its core or a ridge.  How much is      *)
(* painted and how much is scattered, which floats decide, is bounded.     *)
(***************************************************************************)
EXTENDS Integers, Sequences, FiniteSets

CONSTANTS
  GridWidth, GridHeight,
  Shapes,        \* the sets of cells one blob, core or ridge may cover
  Sites,         \* the cells a base may be drawn on
  Draws,         \* the cells a loose component may be drawn on
  MaxPaints,     \* bound: shapes painted
  MaxBases,      \* GenOpts.Colonies
  MaxLoose       \* bound: components placed from one pool

Grid     == (0..GridWidth - 1) \X (0..GridHeight - 1)
Terrains == {"open", "barrier", "rubble", "sand"}

\* The locomotion rows of the catalogue, and terrainSpecs.
Locomotions == {"tracks", "legs", "antigrav"}
Closed == [tracks |-> {"barrier", "rubble"}, legs |-> {"barrier", "sand"},
           antigrav |-> {"barrier"}]

ASSUME ArenaAssumption ==
  /\ GridWidth \in Nat \ {0} /\ GridHeight \in Nat \ {0}
  /\ Shapes \subseteq SUBSET Grid /\ Sites \subseteq Grid /\ Sites # {} /\ Draws \subseteq Grid
  /\ MaxPaints \in Nat /\ MaxBases \in Nat \ {0} /\ MaxLoose \in Nat

VARIABLES
  making,    \* what Generate is at
  terrain,   \* World.Cells
  sites,     \* the cells of World.Bases, in order
  linked,    \* how many bases are known to be connected to the first
  painted,   \* how many shapes have been painted
  loose      \* the cells of World.Loose, by the pool they were drawn from

arenaVars == <<making, terrain, sites, linked, painted, loose>>

Stages == <<"terrain", "bases", "roads", "pockets", "common", "regions", "done">>

ArenaTypeOK ==
  /\ making \in {Stages[i] : i \in DOMAIN Stages}
  /\ terrain \in [Grid -> Terrains]
  /\ sites \in Seq(Grid) /\ Len(sites) <= MaxBases
  /\ linked \in 0..MaxBases /\ painted \in 0..MaxPaints
  /\ loose \in [common : SUBSET Grid, regions : SUBSET Grid]

ArenaInit ==
  /\ making = "terrain" /\ terrain = [c \in Grid |-> "open"]
  /\ sites = <<>> /\ linked = 0 /\ painted = 0
  /\ loose = [common |-> {}, regions |-> {}]

------------------------------------------------------------------------------
Abs(n)    == IF n < 0 THEN -n ELSE n
Sign(n)   == IF n > 0 THEN 1 ELSE IF n < 0 THEN -1 ELSE 0
Larger(m, n)  == IF m > n THEN m ELSE n
Smaller(m, n) == IF m < n THEN m ELSE n

\* Coord.Chebyshev; index, the order of World.Cells.
Span(c, d)   == Larger(Abs(c[1] - d[1]), Abs(c[2] - d[2]))
Before(c, d) == c[2] * GridWidth + c[1] <= d[2] * GridWidth + d[1]

\* A cell and its neighbours, those off the grid included.
Around(c) == (c[1] - 1 .. c[1] + 1) \X (c[2] - 1 .. c[2] + 1)

\* reachable: the cells a locomotion gets to from a cell, a neighbour at a time.
Flood(from, loco) ==
  LET passable == {c \in Grid : terrain[c] \notin Closed[loco]}
      grown[s \in SUBSET Grid] ==
        LET more == ((UNION {Around(c) : c \in s}) \cap passable) \ s IN
        IF more = {} THEN s ELSE grown[s \cup more]
  IN IF from \in passable THEN grown[{from}] ELSE {}

\* Anti-gravity enters whatever any locomotion enters: its flood is their union.
Union  == Flood(sites[1], "antigrav")
Common == Union \cap Flood(sites[1], "tracks") \cap Flood(sites[1], "legs")

\* carve: the cells from one cell to another, diagonally first, without the first.
Corridor(from, to) ==
  {<<from[1] + Sign(to[1] - from[1]) * Smaller(n, Abs(to[1] - from[1])),
     from[2] + Sign(to[2] - from[2]) * Smaller(n, Abs(to[2] - from[2]))>> :
     n \in 1..Span(from, to)}

Opened(cells)   == [c \in Grid |-> IF c \in cells THEN "open" ELSE terrain[c]]
Footprint(site) == Around(site) \cap Grid

------------------------------------------------------------------------------
\* paintRegions and ridge.
Paint(t, shape) ==
  /\ making = "terrain" /\ painted < MaxPaints
  /\ terrain' = [c \in Grid |-> IF c \in shape THEN t ELSE terrain[c]]
  /\ painted' = painted + 1
  /\ UNCHANGED <<making, sites, linked, loose>>

TerrainDone ==
  /\ making = "terrain" /\ making' = "bases"
  /\ UNCHANGED <<terrain, sites, linked, painted, loose>>

\* A base is placed, and the cells around it are cleared.
PlaceBase(site) ==
  /\ making = "bases"
  /\ sites' = Append(sites, site)
  /\ terrain' = Opened(Footprint(site))
  /\ making' = IF Len(sites') = MaxBases THEN "roads" ELSE making
  /\ linked' = IF Len(sites') = MaxBases THEN 1 ELSE linked
  /\ UNCHANGED <<painted, loose>>

\* Mutant: the first locomotion of the catalogue answers for all.
CutOffForTracks(site) == site \notin Flood(sites[1], "tracks")

\* Some locomotion cannot get to the base.
CutOff(site) == \E loco \in Locomotions : site \notin Flood(sites[1], loco)

\* The next base that some locomotion cannot reach gets a road to the first.
Connect ==
  /\ making = "roads" /\ linked < Len(sites)
  /\ linked' = linked + 1
  /\ terrain' = IF CutOff(sites[linked + 1])
                  THEN Opened(Corridor(sites[linked + 1], sites[1])) ELSE terrain
  /\ UNCHANGED <<making, sites, painted, loose>>

RoadsDone ==
  /\ making = "roads" /\ linked = Len(sites) /\ making' = "pockets"
  /\ UNCHANGED <<terrain, sites, linked, painted, loose>>

\* What nothing gets to, hard barriers aside.
Pockets == {c \in Grid \ Union : terrain[c] # "barrier"}

\* repairPockets: the first pocket in the order of the cells is connected to the
\* first of the nearest cells reached.
RepairPocket ==
  /\ making = "pockets" /\ Pockets # {}
  /\ LET pockets == Pockets
         union   == Union
         pocket  == CHOOSE c \in pockets : \A d \in pockets : Before(c, d)
         nearest == {c \in union : \A d \in union : Span(pocket, c) <= Span(pocket, d)}
         reached == CHOOSE c \in nearest : \A d \in nearest : Before(c, d) IN
     terrain' = Opened(Corridor(pocket, reached))
  /\ UNCHANGED <<making, sites, linked, painted, loose>>

PocketsDone ==
  /\ making = "pockets" /\ Pockets = {} /\ making' = "common"
  /\ UNCHANGED <<terrain, sites, linked, painted, loose>>

\* The pools of loose components: open ground that every locomotion reaches; then
\* the regions, or, where nothing was painted, whatever is reached.
Pool(stage) ==
  LET regions == {c \in Union : terrain[c] # "open"} IN
  CASE stage = "common"  -> {c \in Common : terrain[c] = "open"}
    [] stage = "regions" -> IF regions = {} THEN Union ELSE regions

\* The footprints of the bases and the components placed.
Occupied == (UNION {Footprint(sites[i]) : i \in DOMAIN sites}) \cup loose.common \cup loose.regions

\* A draw that hits; one that misses its pool, or hits what is occupied, is dropped.
PlaceLoose ==
  /\ making \in {"common", "regions"} /\ Cardinality(loose[making]) < MaxLoose
  /\ \E c \in (Draws \cap Pool(making)) \ Occupied : loose' = [loose EXCEPT ![making] = @ \cup {c}]
  /\ UNCHANGED <<making, terrain, sites, linked, painted>>

PoolDone ==
  /\ making \in {"common", "regions"}
  /\ making' = IF making = "common" THEN "regions" ELSE "done"
  /\ UNCHANGED <<terrain, sites, linked, painted, loose>>

ArenaNext ==
  \/ \E t \in Terrains \ {"open"}, shape \in Shapes : Paint(t, shape)
  \/ \E site \in Sites : PlaceBase(site)
  \/ TerrainDone \/ Connect \/ RoadsDone \/ RepairPocket \/ PocketsDone
  \/ PlaceLoose \/ PoolDone

ArenaSpec == ArenaInit /\ [][ArenaNext]_arenaVars

------------------------------------------------------------------------------
\* Properties.

\* However the terrain and the bases fell, the arena a match starts in is whole: every
\* base is reached from every other by every locomotion, there is no ground nothing
\* gets to, and what lies on it can be collected, the larger part of it by any robot
\* at all, and away from the bases (design 5.3: a colony that reaches nothing is
\* inactive for good).
ArenaConnected ==
  making = "done" =>
    /\ \A i \in DOMAIN sites, loco \in Locomotions :
         {sites[j] : j \in DOMAIN sites} \subseteq Flood(sites[i], loco)
    /\ {c \in Grid : terrain[c] # "barrier"} \subseteq Union
    /\ loose.common \subseteq Common /\ loose.regions \subseteq Union
    /\ \A i \in DOMAIN sites :
         Footprint(sites[i]) \cap (loose.common \cup loose.regions) = {}
    /\ loose.common \cap loose.regions = {}
==============================================================================
