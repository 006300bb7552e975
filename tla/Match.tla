------------------------------- MODULE Match --------------------------------
(***************************************************************************)
(* A match as one client plays it, from the moment it is playable: the     *)
(* body of Game1.Update frame by frame, with the engines it calls          *)
(* (ProjectileEngine, SlimeEngine, HeartManager, CharacterEngine).  Online *)
(* the other characters are moved by the states of the server, offline     *)
(* (testMode) by the computer.                                             *)
(*                                                                         *)
(* Positions are not modelled: what touches what, and what left the        *)
(* screen, is a free choice in every frame.  Health is counted in quarters *)
(* of a heart.                                                             *)
(***************************************************************************)
EXTENDS Integers, Selections

CONSTANTS Others,           \* numbers of the other characters
          Controllable,     \* number of the player's character
          CharType,         \* kind of each character: "B", "L", "K" or "S"
          BulletThreshold,  \* bullets one character may have in flight
          Hearts,           \* hearts of a character, of 4 quarters each
          Damages,          \* quarters that a hit may take
          MaxBounces,       \* bounces that a slimed bullet survives
          Delay,            \* the wait of a reflected bullet, in units of time
          SlimeLife, SaltedLife,  \* ages that a slime may reach
          Scopes            \* bounds: bullets of a whole match, slimes at a time

Characters == Others \cup {Controllable}

ASSUME MatchAssumption ==
    /\ Characters \subseteq Nat /\ IsFiniteSet(Characters) /\ Controllable \notin Others
    /\ CharType \in [Characters -> {"B", "L", "K", "S"}]
    /\ BulletThreshold \in Nat \ {0} /\ Hearts \in Nat \ {0} /\ Damages \subseteq Nat \ {0}
    /\ MaxBounces \in Nat /\ Delay \in Nat /\ SlimeLife \in Nat /\ SaltedLife \in Nat
    /\ Scopes \subseteq [bullets : Nat, slimes : Nat]

VARIABLES
    testMode, scope,  \* chosen at the start
    \* What the frame does next, and which bullet is its turn.
    pc, turn,
    \* The characters.
    Health, Defeated, BulletNumber, NextProjectileID, SlugHability, charCopied, isSlip,
    hearts,
    \* projectileSprites, newProjectile, slimeSprites.
    projectiles, newProjectiles, slimes,
    \* The end of the match.
    GameEnded, HasWinner, IDwinner,
    fired             \* bullets made so far

characterVars == <<Health, Defeated, BulletNumber, NextProjectileID, SlugHability, charCopied,
                   isSlip, hearts>>
endVars       == <<GameEnded, HasWinner, IDwinner>>
bulletVars    == <<projectiles, newProjectiles, fired>>
matchVars     == <<testMode, scope, pc, turn, characterVars, bulletVars, slimes, endVars>>

FullHealth == 4 * Hearts
Types      == {"N", "D", "S"}
Bullet(shooter, id, type) ==
    [shooter |-> shooter, id |-> id, type |-> type, hits |-> 0, removed |-> FALSE]
Bullets == [shooter : Characters, id : Nat, type : Types, hits : Nat, removed : BOOLEAN]

MatchTypeOK ==
    /\ testMode \in BOOLEAN /\ scope \in Scopes
    /\ pc \in {"data", "input", "computer", "bullets", "objects"}
    /\ turn \in Nat
    /\ Health \in [Characters -> Int] /\ \A c \in Characters : Health[c] <= FullHealth
    /\ Defeated \in [Characters -> BOOLEAN] /\ isSlip \in [Characters -> BOOLEAN]
    /\ BulletNumber \in [Characters -> Int]
    /\ \A c \in Characters : BulletNumber[c] <= BulletThreshold \/ (~testMode /\ c \in Others)
    /\ NextProjectileID \in [Characters -> Nat]
    /\ SlugHability \in BOOLEAN /\ charCopied \in {"B", "L", "K", "S"}
    /\ hearts \in [Characters -> [0 .. Hearts - 1 -> 0 .. 4]]
    /\ projectiles \in Seq(Bullets)
    /\ newProjectiles \in Seq([bullet : Bullets, delay : Int])
    /\ slimes \in Seq([owner : Characters, salted : BOOLEAN, timer : Nat])
    /\ Len(slimes) <= scope.slimes
    /\ GameEnded \in BOOLEAN /\ HasWinner \in BOOLEAN /\ IDwinner \in Characters \cup {-1}
    /\ fired \in 0 .. scope.bullets

\* HeartManager: the quarters that the i-th heart shows.
HeartOf(health, i) == IF health - 4 * i >= 4 THEN 4
                      ELSE IF health - 4 * i < 0 THEN 0
                      ELSE health - 4 * i

ShownHearts(health) == [i \in 0 .. Hearts - 1 |-> HeartOf(health, i)]

MatchInit ==
    /\ testMode \in BOOLEAN /\ scope \in Scopes
    /\ pc = "data" /\ turn = 0
    /\ Health = [c \in Characters |-> FullHealth]
    /\ Defeated = [c \in Characters |-> FALSE]
    /\ BulletNumber = [c \in Characters |-> 0]
    /\ NextProjectileID = [c \in Characters |-> 0]
    /\ SlugHability = FALSE /\ charCopied = "B"
    /\ isSlip = [c \in Characters |-> FALSE]
    /\ hearts = [c \in Characters |-> ShownHearts(FullHealth)]
    /\ projectiles = <<>> /\ newProjectiles = <<>> /\ slimes = <<>>
    /\ GameEnded = FALSE /\ HasWinner = FALSE /\ IDwinner = -1
    /\ fired = 0

MayFire(n) == fired + n <= scope.bullets
-----------------------------------------------------------------------------
(***************************************************************************)
(* The data of the server.                                                 *)
(***************************************************************************)

Known(c, id) == \E k \in DOMAIN projectiles : projectiles[k].shooter = c /\ projectiles[k].id = id

\* PeriodicalUpdate: the other characters are overwritten; a bullet of theirs
\* that is not in the list, whether it is new or already destroyed here, is
\* added to it.
PeriodicalUpdate ==
    /\ \E c \in Others, health \in {0, FullHealth} :
          Health' = [Health EXCEPT ![c] = health]
    /\ \/ UNCHANGED <<projectiles, BulletNumber, fired>>
       \/ \E c \in Others, id \in 0 .. 1, type \in Types :
             /\ MayFire(1) /\ ~Known(c, id)
             /\ projectiles' = Append(projectiles, Bullet(c, id, type))
             /\ BulletNumber' = [BulletNumber EXCEPT ![c] = @ + 1]
             /\ fired' = fired + 1

ReadData ==
    /\ pc = "data" /\ ~GameEnded
    /\ \/ UNCHANGED <<Health, projectiles, BulletNumber, fired>>
       \/ ~testMode /\ PeriodicalUpdate
    /\ pc' = "input"
    /\ UNCHANGED <<testMode, scope, turn, Defeated, NextProjectileID, SlugHability, charCopied,
                   isSlip, hearts, newProjectiles, slimes, endVars>>

\* EndOnlineGame with the winner that the server names, or a draw.
EndOnlineGame ==
    /\ pc = "data" /\ ~GameEnded /\ ~testMode
    /\ projectiles' = <<>> /\ slimes' = <<>>
    /\ GameEnded' = TRUE
    /\ \/ HasWinner' = FALSE /\ UNCHANGED IDwinner
       \/ HasWinner' = TRUE /\ IDwinner' \in Characters
    /\ UNCHANGED <<testMode, scope, pc, turn, characterVars, newProjectiles, fired>>

\* A frame after the end.
EndedFrame ==
    /\ pc = "data" /\ GameEnded
    /\ Defeated' = [c \in Characters |-> Health[c] <= 0]
    /\ UNCHANGED <<testMode, scope, pc, turn, Health, BulletNumber, NextProjectileID,
                   SlugHability, charCopied, isSlip, hearts, bulletVars, slimes, endVars>>
-----------------------------------------------------------------------------
(***************************************************************************)
(* The player and the computer.                                            *)
(***************************************************************************)

Kind(k) == CharType[Controllable] = k \/ charCopied = k

\* Faulty variant: the number of the next bullet is not advanced.
SameNumber(c, n) == NextProjectileID

Numbered(c, n) == [NextProjectileID EXCEPT ![c] = @ + n]

\* n bullets of one type: the left click and, for a Kaler, the right one.
Shoot(n) ==
    /\ MayFire(n) /\ BulletNumber[Controllable] + n <= BulletThreshold
    /\ \E type \in Types :
          projectiles' = projectiles \o
              [k \in 1 .. n |-> Bullet(Controllable, NextProjectileID[Controllable] + k - 1, type)]
    /\ BulletNumber' = [BulletNumber EXCEPT ![Controllable] = @ + n]
    /\ NextProjectileID' = Numbered(Controllable, n)
    /\ fired' = fired + n

\* The right click of the others: a Babo copies a kind, once; a Swalot shields
\* itself for 200 ms (when the shield ends is a free choice); the jump of a
\* Limax only moves it.
UseHability ==
    \/ ~Kind("K") /\ ~Kind("L") /\ ~Kind("S")
       /\ charCopied' \in {CharType[c] : c \in Characters} /\ UNCHANGED SlugHability
    \/ ~Kind("K") /\ ~Kind("L") /\ Kind("S")
       /\ SlugHability' = TRUE /\ UNCHANGED charCopied
    \/ SlugHability' = FALSE /\ UNCHANGED charCopied

\* UpdateControllableCharacter, and the part of CharacterEngine.Update that
\* makes a character slip on a slime of another.
Input ==
    /\ pc = "input"
    /\ IF Defeated[Controllable]
       THEN UNCHANGED <<bulletVars, BulletNumber, NextProjectileID, SlugHability, charCopied>>
       ELSE /\ \/ UNCHANGED <<bulletVars, BulletNumber, NextProjectileID>>
               \/ \E n \in 1 .. (IF Kind("K") THEN 2 ELSE 1) : Shoot(n) /\ UNCHANGED newProjectiles
            /\ UseHability \/ UNCHANGED <<SlugHability, charCopied>>
    /\ \E touching \in SUBSET {c \in (IF testMode THEN Characters ELSE {Controllable}) :
                                 \E k \in DOMAIN slimes : slimes[k].owner # c} :
          isSlip' = [c \in Characters |-> isSlip[c] \/ c \in touching]
    /\ pc' = IF testMode THEN "computer" ELSE "bullets"
    /\ turn' = 1
    /\ UNCHANGED <<testMode, scope, Health, Defeated, hearts, slimes, endVars>>

\* CPUDecision: each character of the computer, one after the other, may fire at
\* the nearest enemy and then at a bullet that comes close, always with the
\* number 0.
Shots(shooters, c) == Cardinality({k \in DOMAIN shooters : shooters[k] = c})

MayShoot(c, n) ==
    n > 0 => /\ ~Defeated[c] /\ BulletNumber[c] + n <= BulletThreshold
             /\ (\A d \in Characters \ {c} : Defeated[d]) => n = 1 /\ projectiles # <<>>

CPUDecision ==
    /\ pc = "computer"
    /\ \E n \in 0 .. 2 * Cardinality(Others), type \in {"N", "D"} :
          \E shooters \in [1 .. n -> Others] :
             /\ \A i, j \in 1 .. n : i <= j => shooters[i] <= shooters[j]
             /\ \A c \in Others : Shots(shooters, c) <= 2 /\ MayShoot(c, Shots(shooters, c))
             /\ MayFire(n)
             /\ projectiles' = projectiles \o [k \in 1 .. n |-> Bullet(shooters[k], 0, type)]
             /\ BulletNumber' = [c \in Characters |-> BulletNumber[c] + Shots(shooters, c)]
             /\ fired' = fired + n
    /\ pc' = "bullets"
    /\ UNCHANGED <<testMode, scope, turn, Health, Defeated, NextProjectileID, SlugHability,
                   charCopied, isSlip, hearts, newProjectiles, slimes, endVars>>
-----------------------------------------------------------------------------
(***************************************************************************)
(* The bullets, one after the other, in the order of their list.           *)
(***************************************************************************)

Shielded(c) == c = Controllable /\ SlugHability
Reflects(c) == CharType[c] = "S" \/ (c = Controllable /\ charCopied = "S")

\* Whom a bullet can hit: its shooter only after a bounce.
CanHit(bullet, c) == c # bullet.shooter \/ (bullet.type # "N" /\ bullet.hits > 0)

\* Faulty variant: a bullet that hits a character is not taken from the count.
CountLostOnly(lost, touched) == lost

\* Each cause that destroys a bullet takes one from the shooter's count.
Count(lost, touched) == lost + Cardinality(touched)

\* What a hit takes; a critical one may take more than the quarters left.
NotifyHit(health, damage) == health - damage

\* Where a bullet goes: it may be lost (at its target, off the screen, on an
\* obstacle or another bullet; bound: by two of these at once), bounce if it is
\* slimed, and touch characters.
UpdateBullet(lost, bounces, touched, damage, lucky) ==
    LET bullet  == projectiles[turn]
        hits    == bullet.hits + bounces
        spent   == IF hits > MaxBounces THEN 1 ELSE 0
        causes  == Count(lost + spent, touched)
        sends   == {c \in touched : /\ bullet.type # "N" /\ Reflects(c)
                                    /\ Shielded(c) \/ lucky
                                    /\ testMode \/ c = Controllable}
        sending == Ascending(sends)
    IN /\ bullet.type # "S" => bounces = 0
       /\ \A c \in touched : CanHit([bullet EXCEPT !.hits = hits], c)
       /\ MayFire(Cardinality(sends))
       /\ projectiles' = [projectiles EXCEPT ![turn].hits = hits,
                                             ![turn].removed = lost + spent > 0 \/ touched # {}]
       /\ BulletNumber' = [BulletNumber EXCEPT ![bullet.shooter] = @ - causes]
       /\ Health' = [c \in Characters |->
             IF c \in touched /\ ~(Reflects(c) /\ Shielded(c))
             THEN NotifyHit(Health[c], damage) ELSE Health[c]]
       /\ newProjectiles' = newProjectiles \o [k \in DOMAIN sending |->
             [bullet |-> Bullet(sending[k], NextProjectileID[sending[k]], bullet.type),
              delay  |-> Delay]]
       /\ NextProjectileID' = [c \in Characters |->
             IF c \in sends THEN Numbered(c, 1)[c] ELSE NextProjectileID[c]]
       /\ fired' = fired + Cardinality(sends)

UpdateProjectile ==
    /\ pc = "bullets" /\ turn <= Len(projectiles)
    /\ \E lost \in 0 .. 2, bounces \in 0 .. 1, touched \in SUBSET Characters, damage \in Damages,
          lucky \in BOOLEAN : UpdateBullet(lost, bounces, touched, damage, lucky)
    /\ turn' = turn + 1
    /\ UNCHANGED <<testMode, scope, pc, Defeated, SlugHability, charCopied, isSlip, hearts,
                   slimes, endVars>>

\* The reflected bullets wait; one whose wait ends at exactly 0 is dropped.
ReleaseReflected ==
    /\ pc = "bullets" /\ turn > Len(projectiles)
    /\ \E elapsed \in 1 .. 2 :
          LET waited == [k \in DOMAIN newProjectiles |->
                           [newProjectiles[k] EXCEPT !.delay = @ - elapsed]]
              ready  == Pick(waited, {k \in DOMAIN waited : waited[k].delay < 0})
          IN /\ projectiles' = projectiles \o [k \in DOMAIN ready |-> ready[k].bullet]
             /\ newProjectiles' = Pick(waited, {k \in DOMAIN waited : waited[k].delay > 0})
    /\ pc' = "objects" /\ turn' = 0
    /\ UNCHANGED <<testMode, scope, characterVars, slimes, endVars, fired>>
-----------------------------------------------------------------------------
(***************************************************************************)
(* The rest of the frame.                                                  *)
(***************************************************************************)

Falls(c) == Health[c] <= 0

UpdateHealth(c) == ShownHearts(Health[c])

\* Faulty variant: slimes are left without asking whether there is room.
LeaversAnyRoom == Ascending(Characters)

\* Every 60 ms each character leaves a slime, while there is room, and stops
\* slipping; then all slimes age.
Leavers == LET order == Ascending(Characters)
           IN SubSeq(order, 1, IF scope.slimes - Len(slimes) < Len(order)
                               THEN scope.slimes - Len(slimes) ELSE Len(order))

LeaveSlimes ==
    [k \in 1 .. Len(slimes) + Len(Leavers) |->
        IF k <= Len(slimes) THEN [slimes[k] EXCEPT !.timer = @ + 1]
        ELSE [owner |-> Leavers[k - Len(slimes)], salted |-> FALSE, timer |-> 1]]

Expires(slime) == slime.timer > (IF slime.salted THEN SaltedLife ELSE SlimeLife)

\* SlimeEngine: normal bullets salt slimes, old slimes go.
UpdateSlime(list, salting) ==
    LET salted == [k \in DOMAIN list |-> [list[k] EXCEPT !.salted = @ \/ k \in salting]]
    IN Pick(salted, {k \in DOMAIN salted : ~Expires(salted[k])})

\* Faulty variant: only those who were defeated before this frame are out.
StandingBefore == {c \in Characters : ~Defeated[c]}

Standing == {c \in Characters : ~Falls(c) /\ Health[c] > 0}

\* EndOfflineGame: at most one character stands.
OfflineEnds == testMode /\ Cardinality(Characters) > 1 /\ Cardinality(Standing) <= 1

UpdateObjects ==
    /\ pc = "objects"
    /\ Defeated' = [c \in Characters |-> Falls(c)]
    /\ hearts' = [c \in Characters |-> UpdateHealth(c)]
    /\ \E ticks \in BOOLEAN :
          LET list == IF ticks THEN LeaveSlimes ELSE slimes
              salt == IF \E k \in DOMAIN projectiles : projectiles[k].type = "N"
                      THEN DOMAIN list ELSE {}
          IN /\ isSlip' = [c \in Characters |->
                             isSlip[c] /\ ~(ticks /\ c \in {Leavers[k] : k \in DOMAIN Leavers})]
             /\ IF OfflineEnds
                THEN slimes' = <<>>
                ELSE \E salting \in SUBSET salt : slimes' = UpdateSlime(list, salting)
    /\ IF OfflineEnds
       THEN /\ GameEnded' = TRUE
            /\ HasWinner' = (Standing # {})
            /\ IDwinner' = IF Standing = {} THEN IDwinner ELSE CHOOSE c \in Standing : TRUE
            /\ projectiles' = <<>>
       ELSE /\ projectiles' = Pick(projectiles,
                                   {k \in DOMAIN projectiles : ~projectiles[k].removed})
            /\ UNCHANGED endVars
    /\ pc' = "data"
    /\ UNCHANGED <<testMode, scope, turn, Health, BulletNumber, NextProjectileID, SlugHability,
                   charCopied, newProjectiles, fired>>

MatchNext == \/ ReadData \/ EndOnlineGame \/ EndedFrame \/ Input \/ CPUDecision
             \/ UpdateProjectile \/ ReleaseReflected \/ UpdateObjects

MatchSpec == MatchInit /\ [][MatchNext]_matchVars
-----------------------------------------------------------------------------
(***************************************************************************)
(* Properties.                                                             *)
(***************************************************************************)

InFlight(c) == {k \in DOMAIN projectiles :
                  projectiles[k].shooter = c /\ ~projectiles[k].removed}

\* A character is never charged for bullets that are gone.  UpdateProjectiles
\* lowers the counter at each of the many places that destroy a bullet; if one
\* forgot to, the threshold would silence the character for the whole match.
BulletsInFlight ==
    ~GameEnded => \A c \in Characters : BulletNumber[c] <= Cardinality(InFlight(c))

\* The bullets of the player have numbers of their own, also those that its
\* shield sends back and that wait for their delay: the other clients tell
\* bullets apart by these numbers (PeriodicalUpdate adds only unknown ones).
OwnNumbersDistinct ==
    LET flying  == {k \in DOMAIN projectiles : projectiles[k].shooter = Controllable}
        waiting == {k \in DOMAIN newProjectiles :
                      newProjectiles[k].bullet.shooter = Controllable}
        numbers == {projectiles[k].id : k \in flying}
                   \cup {newProjectiles[k].bullet.id : k \in waiting}
    IN /\ Cardinality(numbers) = Cardinality(flying) + Cardinality(waiting)
       /\ \A n \in numbers : n < NextProjectileID[Controllable]

\* A training match (EndOfflineGame) ends in the frame in which at most one
\* character still stands, with that one as its winner or, when the last ones
\* fall in the same frame, with none.
LastOneWins ==
    testMode /\ pc = "data" =>
        LET standing == {c \in Characters : Health[c] > 0}
        IN /\ Others # {} => (GameEnded <=> Cardinality(standing) <= 1)
           /\ GameEnded => standing = IF HasWinner THEN {IDwinner} ELSE {}
=============================================================================
