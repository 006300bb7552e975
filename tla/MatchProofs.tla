----------------------------- MODULE MatchProofs -----------------------------
(***************************************************************************)
(* Proofs about a match, for every number of characters, of any kinds,     *)
(* every bound on bullets and slimes, and every amount of health and       *)
(* damage: bullets are counted and numbered right, and a training match    *)
(* ends with the right winner.                                             *)
(***************************************************************************)
EXTENDS Match, SelectionsProofs

-----------------------------------------------------------------------------
(***************************************************************************)
(* Types, of three groups of variables.                                    *)
(***************************************************************************)

Waiting == [bullet : Bullets, delay : Int]
Slimes  == [owner : Characters, salted : BOOLEAN, timer : Nat]

ControlOK ==
    /\ testMode \in BOOLEAN /\ scope \in Scopes
    /\ pc \in {"data", "input", "computer", "bullets", "objects"}
    /\ turn \in Nat
    /\ SlugHability \in BOOLEAN /\ charCopied \in {"B", "L", "K", "S"}
    /\ GameEnded \in BOOLEAN /\ HasWinner \in BOOLEAN /\ IDwinner \in Characters \cup {-1}
    /\ fired \in 0 .. scope.bullets

HealthOK ==
    /\ Health \in [Characters -> Int] /\ \A c \in Characters : Health[c] <= FullHealth
    /\ Defeated \in [Characters -> BOOLEAN] /\ isSlip \in [Characters -> BOOLEAN]
    /\ hearts \in [Characters -> [0 .. Hearts - 1 -> 0 .. 4]]

CountsOK ==
    /\ BulletNumber \in [Characters -> Int]
    /\ \A c \in Characters : BulletNumber[c] <= BulletThreshold \/ (~testMode /\ c \in Others)
    /\ NextProjectileID \in [Characters -> Nat]

ListsOK ==
    /\ projectiles \in Seq(Bullets)
    /\ newProjectiles \in Seq(Waiting)

SlimesOK == slimes \in Seq(Slimes) /\ Len(slimes) <= scope.slimes

\* The parts are the type invariant.
LEMMA TypeParts ==
    MatchTypeOK <=> ControlOK /\ HealthOK /\ CountsOK /\ ListsOK /\ SlimesOK
  BY DEF MatchTypeOK, ControlOK, HealthOK, CountsOK, ListsOK, SlimesOK, Waiting, Slimes

\* So they are after a step.
LEMMA NextParts ==
    ControlOK' /\ HealthOK' /\ CountsOK' /\ ListsOK' /\ SlimesOK' => MatchTypeOK'
  BY DEF MatchTypeOK, ControlOK, HealthOK, CountsOK, ListsOK, SlimesOK, Waiting, Slimes

\* What the assumptions say of the constants that the actions use.
LEMMA Constants ==
    /\ IsFiniteSet(Characters) /\ Characters \subseteq Nat /\ FiniteNumbers(Characters)
    /\ Controllable \in Characters /\ Others \subseteq Characters /\ Controllable \notin Others
    /\ FullHealth \in Nat /\ FullHealth > 0 /\ Hearts \in Nat /\ BulletThreshold \in Nat
    /\ BulletThreshold > 0 /\ Damages \subseteq Nat /\ Delay \in Int /\ MaxBounces \in Nat
    /\ \A c \in Characters : CharType[c] \in {"B", "L", "K", "S"}
    /\ \A s \in Scopes : s.bullets \in Nat /\ s.slimes \in Nat
  BY MatchAssumption DEF Characters, FullHealth, FiniteNumbers

\* A new bullet is a bullet that hit nothing yet.
LEMMA BulletType ==
    ASSUME NEW c \in Characters, NEW id \in Nat, NEW type \in Types
    PROVE  /\ Bullet(c, id, type) \in Bullets
           /\ Bullet(c, id, type).shooter = c /\ Bullet(c, id, type).id = id
           /\ Bullet(c, id, type).removed = FALSE
  BY DEF Bullet, Bullets

\* What the fields of a bullet are.
LEMMA BulletFields ==
    ASSUME NEW b \in Bullets
    PROVE  /\ b.shooter \in Characters /\ b.id \in Nat /\ b.type \in Types /\ b.hits \in Nat
           /\ b.removed \in BOOLEAN
  BY DEF Bullets

\* Counting a bounce and marking a bullet leave its shooter and its number.
Marked(b, h, r) == [[b EXCEPT !.hits = h] EXCEPT !.removed = r]

LEMMA BulletMarked ==
    ASSUME NEW b \in Bullets, NEW h \in Nat, NEW r \in BOOLEAN
    PROVE  /\ Marked(b, h, r) \in Bullets
           /\ Marked(b, h, r).shooter = b.shooter /\ Marked(b, h, r).id = b.id
           /\ Marked(b, h, r).removed = r
  BY DEF Bullets, Marked

\* The quarters that a heart shows are at most four.
LEMMA HeartsType ==
    ASSUME NEW health \in Int
    PROVE  ShownHearts(health) \in [0 .. Hearts - 1 -> 0 .. 4]
<1>1. ASSUME NEW i \in 0 .. Hearts - 1 PROVE HeartOf(health, i) \in 0 .. 4
  <2>1. i \in Int /\ 4 * i \in Int /\ health - 4 * i \in Int
    BY Constants
  <2> DEFINE q == health - 4 * i
  <2>2. HeartOf(health, i) = IF q >= 4 THEN 4 ELSE IF q < 0 THEN 0 ELSE q
    BY DEF HeartOf
  <2>3. q \in Int
    BY <2>1
  <2> HIDE DEF q
  <2> QED
    BY <2>2, <2>3
<1> QED
  BY <1>1 DEF ShownHearts

\* A list of lists put together.
LEMMA Joined ==
    ASSUME NEW S, NEW s \in Seq(S), NEW t \in Seq(S)
    PROVE  /\ s \o t \in Seq(S) /\ Len(s \o t) = Len(s) + Len(t)
           /\ DOMAIN (s \o t) = 1 .. Len(s) + Len(t)
           /\ \A k \in 1 .. Len(s) : (s \o t)[k] = s[k]
           /\ \A k \in 1 .. Len(t) : (s \o t)[Len(s) + k] = t[k]
           /\ \A k \in DOMAIN (s \o t) : \/ k \in DOMAIN s
                                         \/ k - Len(s) \in DOMAIN t /\ k = Len(s) + (k - Len(s))
<1>1. s \o t \in Seq(S) /\ Len(s \o t) = Len(s) + Len(t)
  OBVIOUS
<1>2. \A k \in 1 .. Len(s) : (s \o t)[k] = s[k]
  OBVIOUS
<1>3. \A k \in 1 .. Len(t) : (s \o t)[Len(s) + k] = t[k]
  OBVIOUS
<1>4. Len(s) \in Nat /\ Len(t) \in Nat /\ DOMAIN s = 1 .. Len(s) /\ DOMAIN t = 1 .. Len(t)
  OBVIOUS
<1>5. DOMAIN (s \o t) = 1 .. Len(s) + Len(t)
  BY <1>1
<1> QED
  BY <1>1, <1>2, <1>3, <1>4, <1>5

-----------------------------------------------------------------------------
(***************************************************************************)
(* Every action keeps the types.                                           *)
(***************************************************************************)

\* A match starts with the right types.
LEMMA TypesInit == MatchInit => MatchTypeOK
<1> SUFFICES ASSUME MatchInit PROVE MatchTypeOK
  OBVIOUS
<1> USE DEF MatchInit
<1>1. ControlOK
  <2>1. scope.bullets \in Nat
    BY Constants
  <2>2. fired \in 0 .. scope.bullets
    BY <2>1
  <2>3. /\ pc \in {"data", "input", "computer", "bullets", "objects"}
        /\ charCopied \in {"B", "L", "K", "S"}
    OBVIOUS
  <2>4. /\ testMode \in BOOLEAN /\ scope \in Scopes /\ turn \in Nat /\ SlugHability \in BOOLEAN
        /\ GameEnded \in BOOLEAN /\ HasWinner \in BOOLEAN /\ IDwinner \in Characters \cup {-1}
    OBVIOUS
  <2> QED
    BY <2>2, <2>3, <2>4 DEF ControlOK
<1>2. HealthOK
  <2>1. ShownHearts(FullHealth) \in [0 .. Hearts - 1 -> 0 .. 4]
    BY Constants, HeartsType
  <2> QED
    BY <2>1, Constants DEF HealthOK
<1>3. CountsOK
  BY Constants DEF CountsOK
<1>4. ListsOK
  <2>1. <<>> \in Seq(Bullets) /\ <<>> \in Seq(Waiting)
    OBVIOUS
  <2> QED
    BY <2>1 DEF ListsOK
<1>5. SlimesOK
  <2>1. <<>> \in Seq(Slimes) /\ Len(<<>>) = 0 /\ scope.slimes \in Nat
    BY Constants
  <2> QED
    BY <2>1 DEF SlimesOK
<1> QED
  BY <1>1, <1>2, <1>3, <1>4, <1>5, TypeParts

\* What may be fired keeps the number of bullets in its bound.
LEMMA FiredBound ==
    ASSUME ControlOK, NEW n \in Nat, MayFire(n)
    PROVE  fired + n \in 0 .. scope.bullets
<1>1. scope.bullets \in Nat /\ fired \in 0 .. scope.bullets
  BY Constants DEF ControlOK
<1> QED
  BY <1>1 DEF MayFire

\* The types after the data of the server were read.
LEMMA ReadDataTypes == MatchTypeOK /\ ReadData => MatchTypeOK'
<1> SUFFICES ASSUME MatchTypeOK, ReadData PROVE MatchTypeOK'
  OBVIOUS
<1>0. ControlOK /\ HealthOK /\ CountsOK /\ ListsOK /\ SlimesOK
  BY TypeParts
<1>1. CASE UNCHANGED <<Health, projectiles, BulletNumber, fired>>
  <2>1. ControlOK' /\ SlimesOK'
    BY <1>0, <1>1 DEF ReadData, ControlOK, SlimesOK, endVars
  <2>2. HealthOK' /\ CountsOK' /\ ListsOK'
    BY <1>0, <1>1 DEF ReadData, HealthOK, CountsOK, ListsOK
  <2> QED
    BY <2>1, <2>2, NextParts
<1>2. CASE ~testMode /\ PeriodicalUpdate
  <2>1. PICK c \in Others, health \in {0, FullHealth} : Health' = [Health EXCEPT ![c] = health]
    BY <1>2 DEF PeriodicalUpdate
  <2>2. c \in Characters /\ health \in Int /\ health <= FullHealth
    BY Constants
  <2>3. HealthOK'
    BY <1>0, <2>1, <2>2 DEF HealthOK, ReadData
  <2>4. CASE UNCHANGED <<projectiles, BulletNumber, fired>>
    <3>1. ControlOK' /\ SlimesOK'
      BY <1>0, <2>4 DEF ReadData, ControlOK, SlimesOK, endVars
    <3>2. CountsOK' /\ ListsOK'
      BY <1>0, <2>4 DEF ReadData, CountsOK, ListsOK
    <3> QED
      BY <2>3, <3>1, <3>2, NextParts
  <2>5. CASE ~UNCHANGED <<projectiles, BulletNumber, fired>>
    <3>1. PICK d \in Others, id \in 0 .. 1, type \in Types :
             /\ MayFire(1)
             /\ projectiles' = Append(projectiles, Bullet(d, id, type))
             /\ BulletNumber' = [BulletNumber EXCEPT ![d] = @ + 1]
             /\ fired' = fired + 1
      BY <1>2, <2>5 DEF PeriodicalUpdate
    <3>2. d \in Characters /\ Bullet(d, id, type) \in Bullets
      <4>1. d \in Characters /\ id \in Nat
        BY Constants
      <4> QED
        BY <4>1, BulletType
    <3>3. ControlOK'
      BY <1>0, <3>1, FiredBound DEF ReadData, ControlOK, endVars
    <3>4. CountsOK'
      BY <1>0, <1>2, <3>1, <3>2 DEF ReadData, CountsOK
    <3>5. ListsOK'
      BY <1>0, <3>1, <3>2 DEF ReadData, ListsOK
    <3>6. SlimesOK'
      BY <1>0 DEF ReadData, SlimesOK
    <3> QED
      BY <2>3, <3>3, <3>4, <3>5, <3>6, NextParts
  <2> QED
    BY <2>4, <2>5
<1> QED
  BY <1>1, <1>2 DEF ReadData

\* The types after the end of an online match, and after a frame that follows an end.
LEMMA EndTypes == MatchTypeOK /\ (EndOnlineGame \/ EndedFrame) => MatchTypeOK'
<1> SUFFICES ASSUME MatchTypeOK, EndOnlineGame \/ EndedFrame PROVE MatchTypeOK'
  OBVIOUS
<1>0. ControlOK /\ HealthOK /\ CountsOK /\ ListsOK /\ SlimesOK
  BY TypeParts
<1>1. CASE EndOnlineGame
  <2>1. ControlOK'
    BY <1>0, <1>1 DEF EndOnlineGame, ControlOK, characterVars
  <2>2. HealthOK' /\ CountsOK'
    BY <1>0, <1>1 DEF EndOnlineGame, HealthOK, CountsOK, characterVars
  <2>3. <<>> \in Seq(Bullets) /\ <<>> \in Seq(Slimes) /\ Len(<<>>) = 0 /\ scope.slimes \in Nat
    BY <1>0, Constants DEF ControlOK
  <2>4. ListsOK' /\ SlimesOK'
    BY <1>0, <1>1, <2>3 DEF EndOnlineGame, ListsOK, SlimesOK
  <2> QED
    BY <2>1, <2>2, <2>4, NextParts
<1>2. CASE EndedFrame
  <2>1. ControlOK' /\ HealthOK' /\ CountsOK' /\ ListsOK' /\ SlimesOK'
    BY <1>0, <1>2 DEF EndedFrame, ControlOK, HealthOK, CountsOK, ListsOK, SlimesOK, endVars,
                      bulletVars
  <2> QED
    BY <2>1, NextParts
<1> QED
  BY <1>1, <1>2

\* What a shot of the player adds.
LEMMA ShotsFired ==
    ASSUME MatchTypeOK, NEW n \in 1 .. 2, Shoot(n)
    PROVE  \E t \in Seq(Bullets) :
             /\ projectiles' = projectiles \o t /\ Len(t) = n
             /\ \A k \in 1 .. n : /\ t[k].shooter = Controllable /\ t[k].removed = FALSE
                                  /\ t[k].id = NextProjectileID[Controllable] + k - 1
<1>0. CountsOK
  BY TypeParts
<1>1. PICK type \in Types : projectiles' = projectiles \o
          [k \in 1 .. n |-> Bullet(Controllable, NextProjectileID[Controllable] + k - 1, type)]
  BY DEF Shoot
<1> DEFINE number(k) == NextProjectileID[Controllable] + k - 1
           t == [k \in 1 .. n |-> Bullet(Controllable, number(k), type)]
<1>2. \A k \in 1 .. n : number(k) \in Nat
  BY <1>0, Constants DEF CountsOK
<1>3. \A k \in 1 .. n : /\ t[k] \in Bullets /\ t[k].shooter = Controllable
                        /\ t[k].removed = FALSE /\ t[k].id = number(k)
  <2> SUFFICES ASSUME NEW k \in 1 .. n
               PROVE  /\ t[k] \in Bullets /\ t[k].shooter = Controllable
                      /\ t[k].removed = FALSE /\ t[k].id = number(k)
    OBVIOUS
  <2>1. PICK m \in Nat : m = number(k)
    BY <1>2
  <2>2. t[k] = Bullet(Controllable, m, type) /\ Controllable \in Characters
    BY <2>1, Constants
  <2> HIDE DEF t, number
  <2>3. LET b == Bullet(Controllable, m, type)
        IN /\ b \in Bullets /\ b.shooter = Controllable /\ b.removed = FALSE /\ b.id = m
    <3>1. Controllable \in Characters /\ m \in Nat /\ type \in Types
      BY <2>2
    <3> QED
      BY <3>1, BulletType
  <2> QED
    BY <2>1, <2>2, <2>3
<1>4. t \in Seq(Bullets) /\ Len(t) = n
  BY <1>3
<1> QED
  BY <1>1, <1>3, <1>4

\* The types after the player's turn.
LEMMA InputTypes == MatchTypeOK /\ Input => MatchTypeOK'
<1> SUFFICES ASSUME MatchTypeOK, Input PROVE MatchTypeOK'
  OBVIOUS
<1>0. ControlOK /\ HealthOK /\ CountsOK /\ ListsOK /\ SlimesOK
  BY TypeParts
<1>1. HealthOK' /\ SlimesOK'
  BY <1>0 DEF Input, HealthOK, SlimesOK
<1>2. SlugHability' \in BOOLEAN /\ charCopied' \in {"B", "L", "K", "S"}
  BY <1>0, Constants DEF Input, UseHability, ControlOK
<1>3. CASE UNCHANGED <<bulletVars, BulletNumber, NextProjectileID>>
  <2>1. ControlOK'
    BY <1>0, <1>2, <1>3 DEF Input, ControlOK, endVars, bulletVars
  <2>2. CountsOK' /\ ListsOK'
    BY <1>0, <1>3 DEF Input, CountsOK, ListsOK, bulletVars
  <2> QED
    BY <1>1, <2>1, <2>2, NextParts
<1>4. ASSUME NEW n \in 1 .. 2, Shoot(n), UNCHANGED newProjectiles PROVE MatchTypeOK'
  <2>1. ControlOK'
    <3>1. fired' \in 0 .. scope.bullets
      BY <1>0, <1>4, FiredBound DEF Shoot
    <3> QED
      BY <1>0, <1>2, <3>1 DEF Input, ControlOK, endVars
  <2>2. CountsOK'
    <3>1. BulletNumber[Controllable] \in Int /\ NextProjectileID[Controllable] \in Nat
      BY <1>0, Constants DEF CountsOK
    <3>2. /\ BulletNumber' = [BulletNumber EXCEPT ![Controllable] = @ + n]
          /\ BulletNumber[Controllable] + n <= BulletThreshold
          /\ NextProjectileID' = [NextProjectileID EXCEPT ![Controllable] = @ + n]
      BY <1>4 DEF Shoot, Numbered
    <3> QED
      BY <1>0, <3>1, <3>2, Constants DEF CountsOK, Input
  <2>3. ListsOK'
    <3>1. PICK t \in Seq(Bullets) : projectiles' = projectiles \o t
      BY <1>4, ShotsFired
    <3> QED
      BY <1>0, <1>4, <3>1, Joined DEF ListsOK
  <2> QED
    BY <1>1, <2>1, <2>2, <2>3, NextParts
<1> QED
  BY <1>3, <1>4 DEF Input

\* What the computer's characters fire: one bullet for each name in shooters.
LEMMA VolleyFired ==
    ASSUME MatchTypeOK, CPUDecision
    PROVE  \E n \in Nat : \E shooters \in [1 .. n -> Others], t \in Seq(Bullets) :
             /\ projectiles' = projectiles \o t /\ Len(t) = n
             /\ \A k \in 1 .. n : t[k].shooter = shooters[k] /\ t[k].removed = FALSE
             /\ \A c \in Others : Shots(shooters, c) <= 2 /\ MayShoot(c, Shots(shooters, c))
             /\ BulletNumber' = [c \in Characters |-> BulletNumber[c] + Shots(shooters, c)]
             /\ MayFire(n) /\ fired' = fired + n
<1> DEFINE Volley(n, type, shooters) ==
             /\ \A c \in Others : Shots(shooters, c) <= 2 /\ MayShoot(c, Shots(shooters, c))
             /\ MayFire(n)
             /\ projectiles' = projectiles \o [k \in 1 .. n |-> Bullet(shooters[k], 0, type)]
             /\ BulletNumber' = [c \in Characters |-> BulletNumber[c] + Shots(shooters, c)]
             /\ fired' = fired + n
<1>9. PICK n \in 0 .. 2 * Cardinality(Others), type \in {"N", "D"} :
         \E shooters \in [1 .. n -> Others] : Volley(n, type, shooters)
  BY DEF CPUDecision
<1>1. PICK shooters \in [1 .. n -> Others] : Volley(n, type, shooters)
  BY <1>9
<1> DEFINE t == [k \in 1 .. n |-> Bullet(shooters[k], 0, type)]
<1>2. n \in Nat
  <2>1. Cardinality(Others) \in Nat
    BY Constants, FS_Subset, FS_CardinalityType
  <2> QED
    BY <2>1
<1>3. ASSUME NEW k \in 1 .. n
      PROVE  t[k] \in Bullets /\ t[k].shooter = shooters[k] /\ t[k].removed = FALSE
  <2>1. PICK c \in Characters : c = shooters[k]
    BY Constants
  <2>2. t[k] = Bullet(c, 0, type) /\ type \in Types /\ 0 \in Nat
    BY <2>1 DEF Types
  <2> HIDE DEF t
  <2>3. /\ Bullet(c, 0, type) \in Bullets /\ Bullet(c, 0, type).shooter = c
        /\ Bullet(c, 0, type).removed = FALSE
    <3>1. c \in Characters /\ 0 \in Nat /\ type \in Types
      BY <2>2
    <3> QED
      BY <3>1, BulletType
  <2> QED
    BY <2>1, <2>2, <2>3
<1>4. t \in Seq(Bullets) /\ Len(t) = n
  <2>1. \A k \in 1 .. n : Bullet(shooters[k], 0, type) \in Bullets
    BY <1>3
  <2> QED
    BY <1>2, <2>1
<1> QED
  BY <1>1, <1>2, <1>3, <1>4

\* The shots of a character are a number.
LEMMA ShotsType ==
    ASSUME NEW n \in Nat, NEW shooters \in [1 .. n -> Others], NEW c
    PROVE  /\ Shots(shooters, c) \in Nat
           /\ c \notin Others => Shots(shooters, c) = 0
<1> DEFINE K == {k \in 1 .. n : shooters[k] = c}
<1>1. Shots(shooters, c) = Cardinality(K)
  BY DEF Shots
<1>2. IsFiniteSet(1 .. n) /\ K \in SUBSET (1 .. n)
  BY FS_Interval
<1>3. IsFiniteSet(K)
  BY <1>2, FS_Subset
<1>4. c \notin Others => K = {}
  OBVIOUS
<1> QED
  BY <1>1, <1>3, <1>4, FS_CardinalityType, FS_EmptySet

\* The types after the computer's turn.
LEMMA ComputerTypes == MatchTypeOK /\ CPUDecision => MatchTypeOK'
<1> SUFFICES ASSUME MatchTypeOK, CPUDecision PROVE MatchTypeOK'
  OBVIOUS
<1>0. ControlOK /\ HealthOK /\ CountsOK /\ ListsOK /\ SlimesOK
  BY TypeParts
<1> DEFINE Volley(n, shooters, t) ==
             /\ projectiles' = projectiles \o t
             /\ \A c \in Others : MayShoot(c, Shots(shooters, c))
             /\ BulletNumber' = [c \in Characters |-> BulletNumber[c] + Shots(shooters, c)]
             /\ MayFire(n) /\ fired' = fired + n
<1>9. PICK n \in Nat : \E shooters \in [1 .. n -> Others], t \in Seq(Bullets) :
                         Volley(n, shooters, t)
  BY VolleyFired
<1>1. PICK shooters \in [1 .. n -> Others], t \in Seq(Bullets) : Volley(n, shooters, t)
  BY <1>9
<1>2. HealthOK' /\ SlimesOK'
  BY <1>0 DEF CPUDecision, HealthOK, SlimesOK
<1>3. ListsOK'
  <2>1. projectiles' \in Seq(Bullets)
    BY <1>0, <1>1, Joined DEF ListsOK
  <2> QED
    BY <1>0, <2>1 DEF ListsOK, CPUDecision
<1>4. ControlOK'
  <2>1. fired' \in 0 .. scope.bullets
    BY <1>0, <1>1, FiredBound
  <2> QED
    BY <1>0, <2>1 DEF ControlOK, CPUDecision, endVars
<1>5. CountsOK'
  <2>1. ASSUME NEW c \in Characters
        PROVE  /\ BulletNumber'[c] \in Int
               /\ BulletNumber'[c] <= BulletThreshold \/ (~testMode /\ c \in Others)
    <3> DEFINE m == Shots(shooters, c)
    <3>1. m \in Nat /\ (c \notin Others => m = 0) /\ BulletNumber[c] \in Int
      BY <1>0, ShotsType DEF CountsOK
    <3>2. BulletNumber'[c] = BulletNumber[c] + m
      BY <1>1
    <3>3. BulletNumber[c] <= BulletThreshold \/ (~testMode /\ c \in Others)
      BY <1>0 DEF CountsOK
    <3>4. c \in Others /\ m > 0 => BulletNumber[c] + m <= BulletThreshold
      BY <1>1 DEF MayShoot
    <3> HIDE DEF m
    <3> QED
      BY <3>1, <3>2, <3>3, <3>4
  <2>2. BulletNumber' \in [Characters -> Int]
    BY <1>1, <2>1
  <2> QED
    BY <1>0, <2>1, <2>2 DEF CountsOK, CPUDecision
<1> QED
  BY <1>2, <1>3, <1>4, <1>5, NextParts

\* What a bullet's turn does to the lists and to the counts: it is marked exactly if its
\* shooter's count falls, and every character that sends it back has one more waiting,
\* with its next number.
BulletEffect(removed, causes, sends, t) ==
    /\ removed \in BOOLEAN /\ causes \in Nat /\ (removed <=> causes > 0)
    /\ sends \in SUBSET Characters /\ t \in Seq(Waiting)
    /\ Len(projectiles') = Len(projectiles) /\ projectiles' \in Seq(Bullets)
    /\ \A k \in DOMAIN projectiles : /\ projectiles'[k].shooter = projectiles[k].shooter
                                     /\ projectiles'[k].id = projectiles[k].id
                                     /\ k # turn => projectiles'[k] = projectiles[k]
    /\ projectiles'[turn].removed = removed
    /\ BulletNumber' = [BulletNumber EXCEPT ![projectiles[turn].shooter] = @ - causes]
    /\ newProjectiles' = newProjectiles \o t
    /\ \A k \in DOMAIN t : /\ t[k].bullet.shooter \in sends
                           /\ t[k].bullet.id = NextProjectileID[t[k].bullet.shooter]
    /\ \A i, j \in DOMAIN t : t[i].bullet.shooter = t[j].bullet.shooter => i = j
    /\ NextProjectileID' = [c \in Characters |->
          IF c \in sends THEN NextProjectileID[c] + 1 ELSE NextProjectileID[c]]
    /\ fired' = fired + Cardinality(sends) /\ MayFire(Cardinality(sends))

\* UpdateBullet has this effect.
LEMMA EffectOfUpdate ==
    ASSUME MatchTypeOK, turn \in 1 .. Len(projectiles),
           NEW lost \in 0 .. 2, NEW bounces \in 0 .. 1, NEW touched \in SUBSET Characters,
           NEW damage \in Damages, NEW lucky \in BOOLEAN,
           UpdateBullet(lost, bounces, touched, damage, lucky)
    PROVE  \E removed \in BOOLEAN, causes \in Nat, sends \in SUBSET Characters,
              t \in Seq(Waiting) : BulletEffect(removed, causes, sends, t)
<1>0. CountsOK /\ ListsOK
  BY TypeParts
<1> DEFINE bullet  == projectiles[turn]
           hits    == bullet.hits + bounces
           spent   == IF hits > MaxBounces THEN 1 ELSE 0
           causes  == Count(lost + spent, touched)
           sends   == {c \in touched : /\ bullet.type # "N" /\ Reflects(c)
                                       /\ Shielded(c) \/ lucky
                                       /\ testMode \/ c = Controllable}
           sending == Ascending(sends)
           removed == lost + spent > 0 \/ touched # {}
           t == [k \in DOMAIN sending |->
                   [bullet |-> Bullet(sending[k], NextProjectileID[sending[k]], bullet.type),
                    delay  |-> Delay]]
<1>1. bullet \in Bullets /\ DOMAIN projectiles = 1 .. Len(projectiles)
  BY <1>0 DEF ListsOK
<1>2. bullet.type \in Types /\ bullet.shooter \in Characters /\ hits \in Nat
  <2> HIDE DEF bullet
  <2> QED
    BY <1>1, BulletFields
<1>3. /\ projectiles' = [projectiles EXCEPT ![turn].hits = hits, ![turn].removed = removed]
      /\ BulletNumber' = [BulletNumber EXCEPT ![bullet.shooter] = @ - causes]
      /\ newProjectiles' = newProjectiles \o t
      /\ NextProjectileID' = [c \in Characters |->
             IF c \in sends THEN Numbered(c, 1)[c] ELSE NextProjectileID[c]]
      /\ fired' = fired + Cardinality(sends) /\ MayFire(Cardinality(sends))
  BY DEF UpdateBullet
<1>4. causes \in Nat /\ (removed <=> causes > 0) /\ removed \in BOOLEAN
  <2>1. IsFiniteSet(touched)
    BY Constants, FS_Subset
  <2>2. Cardinality(touched) \in Nat /\ (Cardinality(touched) = 0 <=> touched = {})
    BY <2>1, FS_CardinalityType, FS_EmptySet
  <2>3. spent \in {0, 1} /\ lost \in Nat
    OBVIOUS
  <2>4. causes = lost + spent + Cardinality(touched)
    BY DEF Count
  <2> HIDE DEF spent, causes
  <2> QED
    BY <2>2, <2>3, <2>4
<1>5. /\ projectiles' \in Seq(Bullets) /\ Len(projectiles') = Len(projectiles)
      /\ projectiles'[turn] = Marked(bullet, hits, removed)
      /\ \A k \in DOMAIN projectiles : k # turn => projectiles'[k] = projectiles[k]
  <2>1. projectiles' = [projectiles EXCEPT ![turn] = Marked(bullet, hits, removed)]
    BY <1>0, <1>1, <1>3 DEF ListsOK, Marked
  <2> HIDE DEF bullet, hits, removed
  <2>2. Marked(bullet, hits, removed) \in Bullets
    BY <1>1, <1>2, <1>4, BulletMarked
  <2> QED
    BY <1>0, <1>1, <2>1, <2>2 DEF ListsOK
<1>6. /\ projectiles'[turn].shooter = bullet.shooter /\ projectiles'[turn].id = bullet.id
      /\ projectiles'[turn].removed = removed
  <2> HIDE DEF bullet, hits, removed
  <2>1. bullet \in Bullets /\ hits \in Nat /\ removed \in BOOLEAN
    BY <1>1, <1>2, <1>4
  <2>2. /\ Marked(bullet, hits, removed).shooter = bullet.shooter
        /\ Marked(bullet, hits, removed).id = bullet.id
        /\ Marked(bullet, hits, removed).removed = removed
    BY <2>1, BulletMarked
  <2> QED
    BY <1>5, <2>2
<1>7. \A k \in DOMAIN projectiles : /\ projectiles'[k].shooter = projectiles[k].shooter
                                    /\ projectiles'[k].id = projectiles[k].id
  BY <1>5, <1>6
<1>8. FiniteNumbers(sends) /\ sends \in SUBSET Characters
  <2>1. sends \in SUBSET Characters
    OBVIOUS
  <2> HIDE DEF sends
  <2> QED
    BY <2>1, Constants, FS_Subset DEF FiniteNumbers
<1>9. NextProjectileID' = [c \in Characters |->
          IF c \in sends THEN NextProjectileID[c] + 1 ELSE NextProjectileID[c]]
  <2>1. ASSUME NEW c \in Characters PROVE Numbered(c, 1)[c] = NextProjectileID[c] + 1
    BY <1>0 DEF Numbered, CountsOK
  <2> HIDE DEF sends
  <2> QED
    BY <1>3, <2>1
<1>10. /\ t \in Seq(Waiting) /\ DOMAIN t = 1 .. Cardinality(sends)
       /\ \A k \in DOMAIN t : /\ t[k].bullet.shooter = Nth(sends, k) /\ Nth(sends, k) \in sends
                              /\ t[k].bullet.id = NextProjectileID[Nth(sends, k)]
  <2>1. /\ DOMAIN sending = 1 .. Cardinality(sends) /\ Cardinality(sends) \in Nat
        /\ \A k \in 1 .. Cardinality(sends) : sending[k] = Nth(sends, k) /\ Nth(sends, k) \in sends
    <3> HIDE DEF sends
    <3> QED
      BY <1>8, AscendingType, FS_CardinalityType DEF FiniteNumbers
  <2>2. ASSUME NEW k \in 1 .. Cardinality(sends)
        PROVE  /\ t[k] \in Waiting /\ t[k].bullet.shooter = Nth(sends, k)
               /\ t[k].bullet.id = NextProjectileID[Nth(sends, k)]
    <3>1. PICK c \in Characters : c = Nth(sends, k) /\ c = sending[k]
      BY <1>8, <2>1
    <3> HIDE DEF sends, sending, bullet
    <3>2. PICK id \in Nat : id = NextProjectileID[c]
      BY <1>0 DEF CountsOK
    <3>3. t[k] = [bullet |-> Bullet(c, id, bullet.type), delay |-> Delay]
      BY <2>1, <3>1, <3>2
    <3>4. /\ Bullet(c, id, bullet.type) \in Bullets /\ Bullet(c, id, bullet.type).shooter = c
          /\ Bullet(c, id, bullet.type).id = id
      BY <1>2, BulletType
    <3> QED
      BY <3>1, <3>2, <3>3, <3>4, Constants DEF Waiting
  <2> HIDE DEF sends, sending
  <2>3. DOMAIN t = 1 .. Cardinality(sends)
    BY <2>1
  <2> HIDE DEF t
  <2>4. t \in Seq(Waiting)
    <3>1. t = [k \in 1 .. Cardinality(sends) |-> t[k]]
      BY <2>3 DEF t
    <3> QED
      BY <2>1, <2>2, <3>1
  <2> QED
    BY <2>1, <2>2, <2>3, <2>4
<1>11. \A i, j \in DOMAIN t : t[i].bullet.shooter = t[j].bullet.shooter => i = j
  <2> HIDE DEF sends, t
  <2>1. \A k \in 1 .. Cardinality(sends) : Rank(sends, Nth(sends, k)) = k
    BY <1>8, NthRank
  <2> QED
    BY <1>10, <2>1
<1> HIDE DEF bullet, hits, spent, causes, sends, removed, t
<1>12. BulletEffect(removed, causes, sends, t)
  BY <1>3, <1>4, <1>5, <1>6, <1>7, <1>8, <1>9, <1>10, <1>11 DEF BulletEffect, bullet
<1> QED
  BY <1>4, <1>8, <1>10, <1>12

\* It is what a step does to the bullet whose turn it is.
LEMMA EffectOfStep ==
    ASSUME MatchTypeOK, turn \in 1 .. Len(projectiles), UpdateProjectile
    PROVE  \E removed \in BOOLEAN, causes \in Nat, sends \in SUBSET Characters,
              t \in Seq(Waiting) : BulletEffect(removed, causes, sends, t)
<1>1. PICK lost \in 0 .. 2, bounces \in 0 .. 1, touched \in SUBSET Characters,
           damage \in Damages, lucky \in BOOLEAN :
              UpdateBullet(lost, bounces, touched, damage, lucky)
  BY DEF UpdateProjectile
<1> QED
  BY <1>1, EffectOfUpdate

\* The health after a bullet's turn.
LEMMA HealthFalls ==
    ASSUME HealthOK, UpdateProjectile
    PROVE  Health' \in [Characters -> Int] /\ \A c \in Characters : Health'[c] <= FullHealth
<1>1. PICK lost \in 0 .. 2, bounces \in 0 .. 1, touched \in SUBSET Characters,
           damage \in Damages, lucky \in BOOLEAN :
              UpdateBullet(lost, bounces, touched, damage, lucky)
  BY DEF UpdateProjectile
<1>2. Health' = [c \in Characters |->
             IF c \in touched /\ ~(Reflects(c) /\ Shielded(c))
             THEN NotifyHit(Health[c], damage) ELSE Health[c]]
  BY <1>1 DEF UpdateBullet
<1>3. damage \in Nat
  BY Constants
<1>4. ASSUME NEW c \in Characters
      PROVE  Health'[c] \in Int /\ Health'[c] <= FullHealth
  <2>1. Health[c] \in Int /\ Health[c] <= FullHealth /\ FullHealth \in Nat
    BY Constants DEF HealthOK
  <2>2. Health'[c] = Health[c] - damage \/ Health'[c] = Health[c]
    BY <1>2 DEF NotifyHit
  <2> QED
    BY <1>3, <2>1, <2>2
<1> QED
  BY <1>2, <1>4

\* The types after a bullet's turn.
LEMMA BulletTypes ==
    MatchTypeOK /\ turn \in 1 .. Len(projectiles) /\ UpdateProjectile => MatchTypeOK'
<1> SUFFICES ASSUME MatchTypeOK, turn \in 1 .. Len(projectiles), UpdateProjectile
             PROVE  MatchTypeOK'
  OBVIOUS
<1>0. ControlOK /\ HealthOK /\ CountsOK /\ ListsOK /\ SlimesOK
  BY TypeParts
<1>1. PICK removed \in BOOLEAN, causes \in Nat, sends \in SUBSET Characters,
           t \in Seq(Waiting) : BulletEffect(removed, causes, sends, t)
  BY EffectOfStep
<1>2. ControlOK'
  <2>1. Cardinality(sends) \in Nat
    BY Constants, FS_Subset, FS_CardinalityType
  <2>2. fired' \in 0 .. scope.bullets
    BY <1>0, <1>1, <2>1, FiredBound DEF BulletEffect
  <2> QED
    BY <1>0, <2>2 DEF ControlOK, UpdateProjectile, endVars
<1>3. HealthOK'
  BY <1>0, HealthFalls DEF HealthOK, UpdateProjectile
<1>4. CountsOK'
  <2> DEFINE c == projectiles[turn].shooter
  <2>1. c \in Characters
    <3>1. projectiles[turn] \in Bullets
      BY <1>0 DEF ListsOK
    <3> QED
      BY <3>1, BulletFields
  <2>2. BulletNumber[c] \in Int /\ BulletNumber' = [BulletNumber EXCEPT ![c] = @ - causes]
    BY <1>0, <1>1, <2>1 DEF CountsOK, BulletEffect
  <2> HIDE DEF c
  <2>3. BulletNumber' \in [Characters -> Int]
    BY <1>0, <2>1, <2>2 DEF CountsOK
  <2>4. ASSUME NEW d \in Characters
        PROVE  BulletNumber'[d] <= BulletThreshold \/ (~testMode /\ d \in Others)
    <3>1. /\ BulletNumber[d] \in Int
          /\ BulletNumber[d] <= BulletThreshold \/ (~testMode /\ d \in Others)
      BY <1>0 DEF CountsOK
    <3>2. BulletNumber'[d] = BulletNumber[d] \/ BulletNumber'[d] = BulletNumber[d] - causes
      BY <1>0, <2>1, <2>2 DEF CountsOK
    <3> QED
      BY <3>1, <3>2, Constants
  <2>5. NextProjectileID' \in [Characters -> Nat]
    BY <1>0, <1>1 DEF CountsOK, BulletEffect
  <2> QED
    BY <2>3, <2>4, <2>5 DEF CountsOK, UpdateProjectile
<1>5. ListsOK'
  BY <1>0, <1>1, Joined DEF ListsOK, BulletEffect
<1>6. SlimesOK'
  BY <1>0 DEF SlimesOK, UpdateProjectile
<1> QED
  BY <1>2, <1>3, <1>4, <1>5, <1>6, NextParts

\* What the end of the bullets' turns moves from one list to the other: the waiting ones at
\* the positions in go join the list, those at the positions in stay keep waiting.
Moves(waited, go, stay) ==
    /\ waited \in Seq(Waiting) /\ DOMAIN waited = DOMAIN newProjectiles
    /\ \A k \in DOMAIN waited : waited[k].bullet = newProjectiles[k].bullet
    /\ go \in SUBSET DOMAIN waited /\ stay \in SUBSET DOMAIN waited /\ go \cap stay = {}
    /\ Len(Pick(waited, go)) = Cardinality(go) /\ Cardinality(go) \in Nat
    /\ projectiles' = projectiles \o
          [k \in 1 .. Cardinality(go) |-> waited[Nth(go, k)].bullet]
    /\ newProjectiles' = Pick(waited, stay)

\* ReleaseReflected has this effect.
LEMMA EffectOfRelease ==
    ASSUME MatchTypeOK, ReleaseReflected
    PROVE  \E waited \in Seq(Waiting) : \E go, stay \in SUBSET DOMAIN waited :
              Moves(waited, go, stay)
<1>0. ListsOK
  BY TypeParts
<1> DEFINE Later(e) == [k \in DOMAIN newProjectiles |-> [newProjectiles[k] EXCEPT !.delay = @ - e]]
           Go(w) == {k \in DOMAIN w : w[k].delay < 0}
           Stay(w) == {k \in DOMAIN w : w[k].delay > 0}
<1>1. PICK e \in 1 .. 2 :
         LET ready == Pick(Later(e), Go(Later(e)))
         IN /\ projectiles' = projectiles \o [k \in DOMAIN ready |-> ready[k].bullet]
            /\ newProjectiles' = Pick(Later(e), Stay(Later(e)))
  BY DEF ReleaseReflected
<1> DEFINE waited == Later(e)
           go     == Go(waited)
           stay   == Stay(waited)
<1>2. \A k \in DOMAIN newProjectiles :
         newProjectiles[k] \in Waiting /\ DOMAIN newProjectiles = 1 .. Len(newProjectiles)
  BY <1>0 DEF ListsOK
<1>3. \A k \in DOMAIN newProjectiles :
         waited[k] \in Waiting /\ waited[k].bullet = newProjectiles[k].bullet
  BY <1>2 DEF Waiting
<1>4. waited \in Seq(Waiting) /\ DOMAIN waited = DOMAIN newProjectiles
  <2>1. Len(newProjectiles) \in Nat /\ DOMAIN newProjectiles = 1 .. Len(newProjectiles)
    BY <1>0 DEF ListsOK
  <2>2. \A k \in 1 .. Len(newProjectiles) : [newProjectiles[k] EXCEPT !.delay = @ - e] \in Waiting
    BY <1>3, <2>1
  <2>3. waited = [k \in 1 .. Len(newProjectiles) |-> [newProjectiles[k] EXCEPT !.delay = @ - e]]
    BY <2>1
  <2> QED
    BY <2>1, <2>2, <2>3
<1>5. go \in SUBSET DOMAIN waited /\ stay \in SUBSET DOMAIN waited
  OBVIOUS
<1>6. go \cap stay = {}
  <2>1. \A k \in DOMAIN waited : waited[k].delay \in Int
    BY <1>3, <1>4 DEF Waiting
  <2> HIDE DEF waited
  <2> QED
    BY <2>1
<1> HIDE DEF waited, go, stay
<1>7. /\ Len(Pick(waited, go)) = Cardinality(go) /\ Cardinality(go) \in Nat
      /\ DOMAIN Pick(waited, go) = 1 .. Cardinality(go)
      /\ \A k \in 1 .. Cardinality(go) : Pick(waited, go)[k] = waited[Nth(go, k)]
  BY <1>4, <1>5, PickType, Positions
<1>8. /\ projectiles' = projectiles \o
            [k \in DOMAIN Pick(waited, go) |-> Pick(waited, go)[k].bullet]
      /\ newProjectiles' = Pick(waited, stay)
  BY <1>1 DEF waited, go, stay
<1>9. projectiles' = projectiles \o [k \in 1 .. Cardinality(go) |-> waited[Nth(go, k)].bullet]
  <2>1. [k \in DOMAIN Pick(waited, go) |-> Pick(waited, go)[k].bullet] =
        [k \in 1 .. Cardinality(go) |-> waited[Nth(go, k)].bullet]
    BY <1>7
  <2> QED
    BY <1>8, <2>1
<1>10. \A k \in DOMAIN waited : waited[k].bullet = newProjectiles[k].bullet
  BY <1>3, <1>4
<1> QED
  BY <1>4, <1>5, <1>6, <1>7, <1>8, <1>9, <1>10 DEF Moves

\* The bullets that are released.
LEMMA Released ==
    ASSUME NEW waited \in Seq(Waiting), NEW go \in SUBSET DOMAIN waited
    PROVE  LET r == [k \in 1 .. Cardinality(go) |-> waited[Nth(go, k)].bullet]
           IN r \in Seq(Bullets) /\ Len(r) = Cardinality(go)
<1>1. Cardinality(go) \in Nat /\ FiniteNumbers(go)
  BY Positions
<1>2. \A k \in 1 .. Cardinality(go) : Nth(go, k) \in go
  BY <1>1, NthRank
<1>3. \A k \in DOMAIN waited : waited[k].bullet \in Bullets
  <2>1. \A k \in DOMAIN waited : waited[k] \in Waiting
    OBVIOUS
  <2>2. \A w \in Waiting : w.bullet \in Bullets
    BY DEF Waiting
  <2> QED
    BY <2>1, <2>2
<1>4. \A k \in 1 .. Cardinality(go) : waited[Nth(go, k)].bullet \in Bullets
  BY <1>2, <1>3
<1> QED
  BY <1>1, <1>4

\* The types after reflected bullets were released.
LEMMA ReleaseTypes == MatchTypeOK /\ ReleaseReflected => MatchTypeOK'
<1> SUFFICES ASSUME MatchTypeOK, ReleaseReflected PROVE MatchTypeOK'
  OBVIOUS
<1>0. ControlOK /\ HealthOK /\ CountsOK /\ ListsOK /\ SlimesOK
  BY TypeParts
<1>1. PICK waited \in Seq(Waiting) : \E go, stay \in SUBSET DOMAIN waited :
              Moves(waited, go, stay)
  BY EffectOfRelease
<1>2. PICK go \in SUBSET DOMAIN waited, stay \in SUBSET DOMAIN waited : Moves(waited, go, stay)
  BY <1>1
<1>3. projectiles' \in Seq(Bullets)
  BY <1>0, <1>2, Released, Joined DEF Moves, ListsOK
<1>4. newProjectiles' \in Seq(Waiting)
  BY <1>2, PickType DEF Moves
<1>5. ControlOK' /\ SlimesOK'
  BY <1>0 DEF ReleaseReflected, ControlOK, SlimesOK, endVars, characterVars
<1>6. HealthOK' /\ CountsOK'
  BY <1>0 DEF ReleaseReflected, HealthOK, CountsOK, characterVars
<1> QED
  BY <1>3, <1>4, <1>5, <1>6, NextParts DEF ListsOK

\* The characters that leave a slime are a list that fits.
LEMMA LeaversFit ==
    ASSUME ControlOK, SlimesOK
    PROVE  /\ Leavers \in Seq(Characters)
           /\ Len(slimes) + Len(Leavers) <= scope.slimes
<1> DEFINE order == Ascending(Characters)
           room  == scope.slimes - Len(slimes)
           m == IF room < Len(order) THEN room ELSE Len(order)
<1>1. order \in Seq(Characters) /\ Len(order) \in Nat
  BY Constants, AscendingType
<1>2. scope.slimes \in Nat /\ Len(slimes) \in Nat /\ Len(slimes) <= scope.slimes
  BY Constants DEF ControlOK, SlimesOK
<1>3. m \in 0 .. Len(order) /\ m <= room /\ room \in Nat
  BY <1>1, <1>2
<1>4. Leavers = SubSeq(order, 1, m)
  BY DEF Leavers
<1> HIDE DEF order, room, m
<1>5. SubSeq(order, 1, m) \in Seq(Characters) /\ Len(SubSeq(order, 1, m)) = m
  BY <1>1, <1>3
<1> QED
  BY <1>2, <1>3, <1>4, <1>5 DEF room

\* The slimes after some were left are a list that fits.
LEMMA SlimesLeft ==
    ASSUME ControlOK, SlimesOK
    PROVE  LeaveSlimes \in Seq(Slimes) /\ Len(LeaveSlimes) <= scope.slimes
<1> DEFINE n == Len(slimes) + Len(Leavers)
           e(k) == IF k <= Len(slimes) THEN [slimes[k] EXCEPT !.timer = @ + 1]
                   ELSE [owner |-> Leavers[k - Len(slimes)], salted |-> FALSE, timer |-> 1]
<1>1. Leavers \in Seq(Characters) /\ n <= scope.slimes
  BY LeaversFit
<1>2. slimes \in Seq(Slimes) /\ Len(slimes) \in Nat /\ Len(Leavers) \in Nat /\ n \in Nat
  BY <1>1 DEF SlimesOK
<1>3. ASSUME NEW k \in 1 .. n PROVE e(k) \in Slimes
  <2>1. CASE k <= Len(slimes)
    <3>1. slimes[k] \in Slimes
      BY <1>2, <2>1
    <3> QED
      BY <2>1, <3>1 DEF Slimes
  <2>2. CASE ~(k <= Len(slimes))
    <3>1. k - Len(slimes) \in 1 .. Len(Leavers)
      BY <1>2, <2>2
    <3>2. Leavers[k - Len(slimes)] \in Characters
      BY <1>1, <3>1
    <3> QED
      BY <2>2, <3>2 DEF Slimes
  <2> QED
    BY <2>1, <2>2
<1>4. LeaveSlimes = [k \in 1 .. n |-> e(k)]
  BY DEF LeaveSlimes
<1> HIDE DEF e
<1>5. [k \in 1 .. n |-> e(k)] \in Seq(Slimes) /\ Len([k \in 1 .. n |-> e(k)]) = n
  BY <1>2, <1>3
<1> QED
  BY <1>1, <1>4, <1>5

\* What is left of a list of slimes is one, no longer than before.
LEMMA SlimesUpdated ==
    ASSUME NEW list \in Seq(Slimes), NEW salting
    PROVE  /\ UpdateSlime(list, salting) \in Seq(Slimes)
           /\ Len(UpdateSlime(list, salting)) <= Len(list)
<1> DEFINE salted == [k \in DOMAIN list |-> [list[k] EXCEPT !.salted = @ \/ k \in salting]]
           K == {k \in DOMAIN salted : ~Expires(salted[k])}
<1>1. DOMAIN list = 1 .. Len(list) /\ Len(list) \in Nat
  OBVIOUS
<1>2. ASSUME NEW k \in 1 .. Len(list)
      PROVE  [list[k] EXCEPT !.salted = @ \/ k \in salting] \in Slimes
  <2>1. list[k] \in Slimes
    BY <1>1
  <2> QED
    BY <2>1 DEF Slimes
<1>3. salted \in Seq(Slimes) /\ Len(salted) = Len(list)
  BY <1>1, <1>2
<1>4. UpdateSlime(list, salting) = Pick(salted, K) /\ K \in SUBSET DOMAIN salted
  BY DEF UpdateSlime
<1> HIDE DEF salted, K
<1> QED
  BY <1>1, <1>3, <1>4, PickType, Positions

\* The types after the rest of a frame.
LEMMA ObjectsTypes == MatchTypeOK /\ UpdateObjects => MatchTypeOK'
<1> SUFFICES ASSUME MatchTypeOK, UpdateObjects PROVE MatchTypeOK'
  OBVIOUS
<1>0. ControlOK /\ HealthOK /\ CountsOK /\ ListsOK /\ SlimesOK
  BY TypeParts
<1>1. ControlOK'
  <2>1. OfflineEnds => /\ GameEnded' = TRUE /\ HasWinner' \in BOOLEAN
                       /\ IDwinner' \in Characters \cup {-1}
    BY <1>0 DEF UpdateObjects, Standing, ControlOK
  <2>2. ~OfflineEnds => UNCHANGED <<GameEnded, HasWinner, IDwinner>>
    BY DEF UpdateObjects, endVars
  <2> QED
    BY <1>0, <2>1, <2>2 DEF ControlOK, UpdateObjects
<1>2. HealthOK'
  <2>1. \A c \in Characters : UpdateHealth(c) \in [0 .. Hearts - 1 -> 0 .. 4]
    BY <1>0, HeartsType DEF HealthOK, UpdateHealth
  <2>2. hearts' \in [Characters -> [0 .. Hearts - 1 -> 0 .. 4]]
    BY <2>1 DEF UpdateObjects
  <2>3. Defeated' \in [Characters -> BOOLEAN]
    BY DEF UpdateObjects, Falls
  <2>4. isSlip' \in [Characters -> BOOLEAN]
    BY <1>0 DEF UpdateObjects, HealthOK
  <2> QED
    BY <1>0, <2>2, <2>3, <2>4 DEF HealthOK, UpdateObjects
<1>3. CountsOK'
  BY <1>0 DEF CountsOK, UpdateObjects
<1>4. ListsOK'
  <2>1. \/ projectiles' = <<>>
        \/ \E K \in SUBSET DOMAIN projectiles : projectiles' = Pick(projectiles, K)
    BY DEF UpdateObjects
  <2>2. <<>> \in Seq(Bullets)
    OBVIOUS
  <2>3. projectiles' \in Seq(Bullets)
    BY <1>0, <2>1, <2>2, PickType DEF ListsOK
  <2> QED
    BY <1>0, <2>3 DEF ListsOK, UpdateObjects
<1>5. SlimesOK'
  <2>1. \/ slimes' = <<>>
        \/ \E list \in {LeaveSlimes, slimes} : \E salting : slimes' = UpdateSlime(list, salting)
    BY DEF UpdateObjects
  <2>2. \A list \in {LeaveSlimes, slimes} : list \in Seq(Slimes) /\ Len(list) <= scope.slimes
    BY <1>0, SlimesLeft DEF SlimesOK
  <2>3. <<>> \in Seq(Slimes) /\ Len(<<>>) = 0 /\ scope.slimes \in Nat
    BY <1>0, Constants DEF ControlOK
  <2>4. slimes' \in Seq(Slimes) /\ Len(slimes') <= scope.slimes
    <3>1. CASE slimes' = <<>>
      BY <2>3, <3>1
    <3>2. ASSUME NEW list \in {LeaveSlimes, slimes}, NEW salting,
                 slimes' = UpdateSlime(list, salting)
          PROVE  slimes' \in Seq(Slimes) /\ Len(slimes') <= scope.slimes
      <4>1. list \in Seq(Slimes) /\ Len(list) <= scope.slimes
        BY <2>2
      <4>2. slimes' \in Seq(Slimes) /\ Len(slimes') <= Len(list)
        BY <3>2, <4>1, SlimesUpdated
      <4>3. Len(slimes') \in Nat /\ Len(list) \in Nat
        BY <4>1, <4>2
      <4> QED
        BY <2>3, <4>1, <4>2, <4>3
    <3> QED
      BY <2>1, <3>1, <3>2
  <2> QED
    BY <2>4 DEF SlimesOK, UpdateObjects
<1> QED
  BY <1>1, <1>2, <1>3, <1>4, <1>5, NextParts

\* The types are an invariant of every step in which the bullets' turns are in order.
LEMMA TypesStep ==
    ASSUME MatchTypeOK, pc = "bullets" => turn >= 1, [MatchNext]_matchVars
    PROVE  MatchTypeOK'
<1>1. CASE UpdateProjectile
  <2>1. turn \in 1 .. Len(projectiles)
    BY <1>1 DEF UpdateProjectile, MatchTypeOK
  <2> QED
    BY <1>1, <2>1, BulletTypes
<1>2. CASE UNCHANGED matchVars
  <2>1. ControlOK /\ HealthOK /\ CountsOK /\ ListsOK /\ SlimesOK
    BY TypeParts
  <2>2. ControlOK' /\ SlimesOK'
    BY <1>2, <2>1 DEF matchVars, endVars, characterVars, bulletVars, ControlOK, SlimesOK
  <2>3. HealthOK' /\ CountsOK' /\ ListsOK'
    BY <1>2, <2>1 DEF matchVars, endVars, characterVars, bulletVars, HealthOK, CountsOK, ListsOK
  <2> QED
    BY <2>2, <2>3, NextParts
<1> QED
  BY <1>1, <1>2, ReadDataTypes, EndTypes, InputTypes, ComputerTypes, ReleaseTypes, ObjectsTypes
     DEF MatchNext

-----------------------------------------------------------------------------
(***************************************************************************)
(* The frame: the order of the turns, and which bullets may be marked.     *)
(***************************************************************************)

\* An ended match stays at the start of a frame.  Bullets are marked as removed in their
\* turn, so none is before it, and none is left at the end of the frame.
FrameInv ==
    /\ GameEnded => pc = "data"
    /\ pc = "computer" => turn = 1
    /\ pc = "bullets" => turn \in 1 .. Len(projectiles) + 1
    /\ \A k \in DOMAIN projectiles :
          projectiles[k].removed => pc = "objects" \/ (pc = "bullets" /\ k < turn)

\* New bullets at the end of the list do not disturb the order.
LEMMA UnmarkedAdded ==
    ASSUME NEW s \in Seq(Bullets), NEW t \in Seq(Bullets),
           \A k \in DOMAIN s : s[k].removed = FALSE, \A k \in DOMAIN t : t[k].removed = FALSE
    PROVE  \A k \in DOMAIN (s \o t) : (s \o t)[k].removed = FALSE
  BY Joined

\* The order of the turns is kept.
LEMMA FrameStep ==
    ASSUME MatchTypeOK, FrameInv, [MatchNext]_matchVars
    PROVE  FrameInv'
<1>0. projectiles \in Seq(Bullets) /\ turn \in Nat /\ DOMAIN projectiles = 1 .. Len(projectiles)
  BY DEF MatchTypeOK
<1>1. CASE ReadData
  <2>1. \A k \in DOMAIN projectiles : projectiles[k].removed = FALSE
    <3>1. \A k \in DOMAIN projectiles : projectiles[k].removed \in BOOLEAN
      BY <1>0, BulletFields
    <3> QED
      BY <1>1, <3>1 DEF ReadData, FrameInv
  <2>2. CASE UNCHANGED projectiles
    BY <1>1, <2>1, <2>2 DEF ReadData, FrameInv, endVars
  <2>3. CASE ~UNCHANGED projectiles
    <3>1. PICK c \in Others, id \in 0 .. 1, type \in Types :
             projectiles' = Append(projectiles, Bullet(c, id, type))
      BY <1>1, <2>3 DEF ReadData, PeriodicalUpdate
    <3>2. /\ Bullet(c, id, type) \in Bullets /\ Bullet(c, id, type).removed = FALSE
      <4>1. c \in Characters /\ id \in Nat /\ type \in Types
        BY Constants
      <4> QED
        BY <4>1, BulletType
    <3>3. \A k \in DOMAIN projectiles' : projectiles'[k].removed = FALSE
      BY <1>0, <2>1, <3>1, <3>2
    <3> QED
      BY <1>1, <3>3 DEF ReadData, FrameInv, endVars
  <2> QED
    BY <2>2, <2>3
<1>2. CASE EndOnlineGame
  <2>1. DOMAIN projectiles' = {}
    BY <1>2 DEF EndOnlineGame
  <2> QED
    BY <1>2, <2>1 DEF EndOnlineGame, FrameInv
<1>3. CASE EndedFrame
  BY <1>3 DEF EndedFrame, FrameInv, endVars, bulletVars
<1>4. CASE Input
  <2>1. \A k \in DOMAIN projectiles : projectiles[k].removed = FALSE
    <3>1. \A k \in DOMAIN projectiles : projectiles[k].removed \in BOOLEAN
      BY <1>0, BulletFields
    <3> QED
      BY <1>4, <3>1 DEF Input, FrameInv
  <2>2. /\ projectiles' \in Seq(Bullets)
        /\ \A k \in DOMAIN projectiles' : projectiles'[k].removed = FALSE
    <3>1. CASE UNCHANGED projectiles
      BY <1>0, <2>1, <3>1
    <3>2. ASSUME NEW n \in 1 .. 2, Shoot(n)
          PROVE  /\ projectiles' \in Seq(Bullets)
                 /\ \A k \in DOMAIN projectiles' : projectiles'[k].removed = FALSE
      <4>1. PICK t \in Seq(Bullets) : /\ projectiles' = projectiles \o t /\ Len(t) = n
                                      /\ \A k \in 1 .. n : t[k].removed = FALSE
        BY <3>2, ShotsFired
      <4>2. \A k \in DOMAIN t : t[k].removed = FALSE
        BY <4>1
      <4> QED
        BY <1>0, <2>1, <4>1, <4>2, UnmarkedAdded, Joined
    <3>3. UNCHANGED projectiles \/ \E n \in 1 .. 2 : Shoot(n)
      BY <1>4 DEF Input, bulletVars
    <3> QED
      BY <3>1, <3>2, <3>3
  <2>3. 1 \in 1 .. Len(projectiles') + 1
    <3>1. Len(projectiles') \in Nat
      BY <2>2
    <3> QED
      BY <3>1
  <2>4. turn' = 1 /\ pc' \in {"computer", "bullets"} /\ UNCHANGED GameEnded /\ pc = "input"
    BY <1>4 DEF Input, endVars
  <2> QED
    BY <2>2, <2>3, <2>4 DEF FrameInv
<1>5. CASE CPUDecision
  <2>1. \A k \in DOMAIN projectiles : projectiles[k].removed = FALSE
    <3>1. \A k \in DOMAIN projectiles : projectiles[k].removed \in BOOLEAN
      BY <1>0, BulletFields
    <3> QED
      BY <1>5, <3>1 DEF CPUDecision, FrameInv
  <2>2. PICK t \in Seq(Bullets) :
           projectiles' = projectiles \o t /\ \A k \in DOMAIN t : t[k].removed = FALSE
    <3>1. PICK n \in Nat, t \in Seq(Bullets) : /\ projectiles' = projectiles \o t /\ Len(t) = n
                                               /\ \A k \in 1 .. n : t[k].removed = FALSE
      BY <1>5, VolleyFired
    <3>2. \A k \in DOMAIN t : t[k].removed = FALSE
      BY <3>1
    <3> QED
      BY <3>1, <3>2
  <2>3. /\ projectiles' \in Seq(Bullets)
        /\ \A k \in DOMAIN projectiles' : projectiles'[k].removed = FALSE
    BY <1>0, <2>1, <2>2, UnmarkedAdded, Joined
  <2>4. 1 \in 1 .. Len(projectiles') + 1
    <3>1. Len(projectiles') \in Nat
      BY <2>3
    <3> QED
      BY <3>1
  <2>5. turn' = 1 /\ pc' = "bullets" /\ UNCHANGED GameEnded /\ pc = "computer"
    BY <1>5 DEF CPUDecision, FrameInv, endVars
  <2> QED
    BY <2>3, <2>4, <2>5 DEF FrameInv
<1>6. CASE UpdateProjectile
  <2>1. turn \in 1 .. Len(projectiles) /\ pc = "bullets" /\ pc' = "bullets" /\ turn' = turn + 1
    BY <1>0, <1>6 DEF UpdateProjectile, FrameInv
  <2>2. PICK removed \in BOOLEAN, causes \in Nat, sends \in SUBSET Characters,
             t \in Seq(Waiting) : BulletEffect(removed, causes, sends, t)
    BY <1>6, <2>1, EffectOfStep
  <2>3. /\ Len(projectiles') = Len(projectiles) /\ DOMAIN projectiles' = DOMAIN projectiles
        /\ \A k \in DOMAIN projectiles : k # turn => projectiles'[k] = projectiles[k]
    BY <1>0, <2>2 DEF BulletEffect
  <2>4. \A k \in DOMAIN projectiles' : projectiles'[k].removed => k < turn'
    BY <1>0, <2>1, <2>3 DEF FrameInv
  <2>5. turn' \in 1 .. Len(projectiles') + 1
    BY <1>0, <2>1, <2>3
  <2>6. ~GameEnded'
    BY <1>6, <2>1 DEF FrameInv, UpdateProjectile, endVars
  <2> QED
    BY <2>1, <2>4, <2>5, <2>6 DEF FrameInv
<1>7. CASE ReleaseReflected
  BY <1>7 DEF ReleaseReflected, FrameInv, endVars
<1>8. CASE UpdateObjects
  <2> DEFINE K == {k \in DOMAIN projectiles : ~projectiles[k].removed}
  <2>1. pc' = "data" /\ (projectiles' = <<>> \/ projectiles' = Pick(projectiles, K))
    BY <1>8 DEF UpdateObjects
  <2>2. \A k \in DOMAIN Pick(projectiles, K) : ~Pick(projectiles, K)[k].removed
    <3>1. \A k \in K : ~projectiles[k].removed
      OBVIOUS
    <3>2. K \in SUBSET DOMAIN projectiles
      OBVIOUS
    <3> HIDE DEF K
    <3> QED
      BY <1>0, <3>1, <3>2, PickType
  <2>3. DOMAIN <<>> = {}
    OBVIOUS
  <2> HIDE DEF K
  <2>4. \A k \in DOMAIN projectiles' : ~projectiles'[k].removed
    BY <2>1, <2>2, <2>3
  <2> QED
    BY <2>1, <2>4 DEF FrameInv
<1>9. CASE UNCHANGED matchVars
  BY <1>9 DEF matchVars, endVars, characterVars, bulletVars, FrameInv
<1> QED
  BY <1>1, <1>2, <1>3, <1>4, <1>5, <1>6, <1>7, <1>8, <1>9 DEF MatchNext

-----------------------------------------------------------------------------
(***************************************************************************)
(* The end of a training match.                                            *)
(***************************************************************************)

\* With another character there are at least two.
LEMMA TwoCharacters == Others # {} => Cardinality(Characters) > 1
<1> SUFFICES ASSUME NEW c \in Others PROVE Cardinality(Characters) > 1
  OBVIOUS
<1>1. c # Controllable /\ {c, Controllable} \in SUBSET Characters /\ IsFiniteSet(Characters)
  BY Constants
<1>2. IsFiniteSet({c}) /\ Cardinality({c}) = 1
  BY FS_Singleton
<1>3. Cardinality({c} \cup {Controllable}) = 2
  BY <1>1, <1>2, FS_AddElement
<1>4. {c} \cup {Controllable} \in SUBSET Characters
  BY <1>1
<1>5. 2 <= Cardinality(Characters) /\ Cardinality(Characters) \in Nat
  BY <1>1, <1>3, <1>4, FS_Subset, FS_CardinalityType
<1> QED
  BY <1>5

\* The frame that ends a training match names the one who stands.
LEMMA EndStep ==
    ASSUME MatchTypeOK, FrameInv, LastOneWins, [MatchNext]_matchVars
    PROVE  LastOneWins'
<1> DEFINE standing == {c \in Characters : Health[c] > 0}
<1>1. CASE UpdateObjects
  <2>1. Health' = Health /\ testMode' = testMode /\ pc = "objects" /\ ~GameEnded
    BY <1>1 DEF UpdateObjects, FrameInv
  <2>2. Standing = standing
    BY DEF Standing, Falls, MatchTypeOK
  <2>3. IsFiniteSet(Characters) /\ IsFiniteSet(standing)
    BY Constants, FS_Subset
  <2>4. Others # {} => Cardinality(Characters) > 1
    BY TwoCharacters
  <2>5. CASE OfflineEnds
    <3>1. /\ testMode /\ Cardinality(standing) <= 1
          /\ GameEnded' = TRUE /\ HasWinner' = (standing # {})
          /\ standing # {} => IDwinner' \in standing
      BY <1>1, <2>2, <2>5 DEF OfflineEnds, UpdateObjects
    <3>2. standing = IF HasWinner' THEN {IDwinner'} ELSE {}
      <4>1. CASE standing = {}
        BY <3>1, <4>1
      <4>2. CASE standing # {}
        <5>1. Cardinality(standing) \in Nat /\ Cardinality(standing) # 0
          BY <2>3, <4>2, FS_CardinalityType, FS_EmptySet
        <5> HIDE DEF standing
        <5>2. Cardinality(standing) = 1
          BY <3>1, <5>1
        <5>3. PICK c : standing = {c}
          BY <2>3, <5>2, FS_Singleton
        <5> QED
          BY <3>1, <4>2, <5>3
      <4> QED
        BY <4>1, <4>2
    <3> QED
      BY <2>1, <3>1, <3>2 DEF LastOneWins
  <2>6. CASE ~OfflineEnds
    <3>1. GameEnded' = FALSE
      BY <1>1, <2>1, <2>6, Constants DEF UpdateObjects, endVars, MatchTypeOK
    <3>2. testMode /\ Others # {} => ~(Cardinality(standing) <= 1)
      BY <2>2, <2>4, <2>6 DEF OfflineEnds
    <3> QED
      BY <2>1, <3>1, <3>2 DEF LastOneWins
  <2> QED
    BY <2>5, <2>6
<1>2. CASE EndedFrame
  BY <1>2 DEF EndedFrame, LastOneWins, endVars
<1>3. CASE EndOnlineGame
  BY <1>3 DEF EndOnlineGame, LastOneWins
<1>4. CASE UNCHANGED matchVars
  BY <1>4 DEF matchVars, characterVars, endVars, LastOneWins
<1>5. CASE ReadData
  BY <1>5 DEF ReadData, LastOneWins
<1>6. CASE Input
  BY <1>6 DEF Input, LastOneWins
<1>7. CASE CPUDecision
  BY <1>7 DEF CPUDecision, LastOneWins
<1>8. CASE UpdateProjectile
  BY <1>8 DEF UpdateProjectile, LastOneWins
<1>9. CASE ReleaseReflected
  BY <1>9 DEF ReleaseReflected, LastOneWins
<1> QED
  BY <1>1, <1>2, <1>3, <1>4, <1>5, <1>6, <1>7, <1>8, <1>9 DEF MatchNext

-----------------------------------------------------------------------------
(***************************************************************************)
(* Bullets in flight.                                                      *)
(***************************************************************************)

\* The bullets of c in a list that are not marked.
FlightOf(s, c) == {k \in DOMAIN s : s[k].shooter = c /\ ~s[k].removed}

\* They are finitely many.
LEMMA FlightFinite ==
    ASSUME NEW s \in Seq(Bullets), NEW c
    PROVE  IsFiniteSet(FlightOf(s, c)) /\ Cardinality(FlightOf(s, c)) \in Nat
<1>1. FlightOf(s, c) \in SUBSET DOMAIN s
  BY DEF FlightOf
<1> QED
  BY <1>1, Positions DEF FiniteNumbers

\* In two lists put together there are as many as in both.
LEMMA FlightJoined ==
    ASSUME NEW s \in Seq(Bullets), NEW t \in Seq(Bullets), NEW c
    PROVE  Cardinality(FlightOf(s \o t, c)) =
              Cardinality(FlightOf(s, c)) + Cardinality(FlightOf(t, c))
<1> DEFINE A == FlightOf(s, c)
           B == FlightOf(t, c)
           C == {k \in FlightOf(s \o t, c) : k > Len(s)}
           f == [k \in B |-> Len(s) + k]
<1>1. /\ Len(s) \in Nat /\ Len(t) \in Nat /\ DOMAIN s = 1 .. Len(s) /\ DOMAIN t = 1 .. Len(t)
      /\ DOMAIN (s \o t) = 1 .. Len(s) + Len(t)
      /\ \A k \in 1 .. Len(s) : (s \o t)[k] = s[k]
      /\ \A k \in 1 .. Len(t) : (s \o t)[Len(s) + k] = t[k]
  BY Joined
<1>2. A = {k \in FlightOf(s \o t, c) : k <= Len(s)}
  BY <1>1 DEF FlightOf
<1>3. FlightOf(s \o t, c) = A \cup C /\ A \cap C = {}
  <2>1. \A k \in FlightOf(s \o t, c) : k \in Nat
    BY <1>1 DEF FlightOf
  <2> QED
    BY <1>1, <1>2, <2>1
<1>4. f \in Bijection(B, C)
  <2>1. \A k \in B : k \in 1 .. Len(t) /\ Len(s) + k \in C
    BY <1>1 DEF FlightOf
  <2>2. \A k \in C : k - Len(s) \in B /\ k = Len(s) + (k - Len(s))
    <3> SUFFICES ASSUME NEW k \in C PROVE k - Len(s) \in B /\ k = Len(s) + (k - Len(s))
      OBVIOUS
    <3>1. k \in 1 .. Len(s) + Len(t) /\ k > Len(s)
      BY <1>1 DEF FlightOf
    <3>2. k - Len(s) \in 1 .. Len(t) /\ k = Len(s) + (k - Len(s))
      BY <1>1, <3>1
    <3>3. (s \o t)[k] = t[k - Len(s)]
      BY <1>1, <3>2
    <3> QED
      BY <1>1, <3>2, <3>3 DEF FlightOf
  <2> HIDE DEF B, C
  <2>3. f \in [B -> C]
    BY <2>1
  <2>4. \A i, j \in B : f[i] = f[j] => i = j
    BY <1>1, <2>1
  <2>5. \A k \in C : \E i \in B : f[i] = k
    BY <2>2
  <2> QED
    BY <2>3, <2>4, <2>5 DEF Bijection, Injection, Surjection, IsInjective
<1>5. IsFiniteSet(A) /\ IsFiniteSet(B) /\ Cardinality(A) \in Nat /\ Cardinality(B) \in Nat
  BY FlightFinite
<1>6. IsFiniteSet(C) /\ Cardinality(C) = Cardinality(B)
  BY <1>4, <1>5, FS_Bijection DEF ExistsBijection
<1> HIDE DEF A, B, C
<1>7. Cardinality(A \cup C) = Cardinality(A) + Cardinality(C) - Cardinality({})
  BY <1>3, <1>5, <1>6, FS_Union
<1>8. Cardinality(FlightOf(s \o t, c)) = Cardinality(A) + Cardinality(B)
  BY <1>3, <1>5, <1>6, <1>7, FS_EmptySet
<1> QED
  BY <1>8 DEF A, B

\* Removing the marked ones from a list leaves as many.
LEMMA FlightPicked ==
    ASSUME NEW s \in Seq(Bullets), NEW c
    PROVE  LET K == {k \in DOMAIN s : ~s[k].removed}
           IN Cardinality(FlightOf(Pick(s, K), c)) = Cardinality(FlightOf(s, c))
<1> DEFINE K == {k \in DOMAIN s : ~s[k].removed}
           T == FlightOf(s, c)
<1>1. K \in SUBSET DOMAIN s /\ T \in SUBSET K
  BY DEF FlightOf
<1>2. \A k \in K : k \in T <=> s[k].shooter = c /\ ~s[k].removed
  BY DEF FlightOf
<1> HIDE DEF K, T
<1>3. /\ DOMAIN Pick(s, K) = 1 .. Cardinality(K)
      /\ \A k \in 1 .. Cardinality(K) : Nth(K, k) \in K /\ Pick(s, K)[k] = s[Nth(K, k)]
  BY <1>1, PickType
<1>4. FlightOf(Pick(s, K), c) = {k \in 1 .. Cardinality(K) : Nth(K, k) \in T}
  BY <1>2, <1>3 DEF FlightOf
<1>5. Cardinality({k \in 1 .. Cardinality(K) : Nth(K, k) \in T}) = Cardinality(T)
  BY <1>1, PickCount
<1> QED
  BY <1>4, <1>5 DEF K, T

\* What is known before a step: c is not charged for more than it has in flight.
LEMMA Charged ==
    ASSUME MatchTypeOK, BulletsInFlight, ~GameEnded, NEW c \in Characters
    PROVE  /\ BulletNumber[c] \in Int /\ Cardinality(FlightOf(projectiles, c)) \in Nat
           /\ BulletNumber[c] <= Cardinality(FlightOf(projectiles, c))
<1>1. BulletNumber[c] \in Int /\ projectiles \in Seq(Bullets)
  BY DEF MatchTypeOK
<1> QED
  BY <1>1, FlightFinite DEF BulletsInFlight, InFlight, FlightOf

\* What has to be shown after it.
LEMMA ChargedNext ==
    ASSUME \A c \in Characters : BulletNumber'[c] <= Cardinality(FlightOf(projectiles', c))
    PROVE  BulletsInFlight'
  BY DEF BulletsInFlight, InFlight, FlightOf

\* Bullets that are added are counted.
LEMMA FlightAdded ==
    ASSUME MatchTypeOK, BulletsInFlight, ~GameEnded, NEW t \in Seq(Bullets),
           projectiles' = projectiles \o t,
           \A c \in Characters : BulletNumber'[c] = BulletNumber[c] + Cardinality(FlightOf(t, c))
    PROVE  BulletsInFlight'
<1>1. ASSUME NEW c \in Characters
      PROVE  BulletNumber'[c] <= Cardinality(FlightOf(projectiles', c))
  <2>1. projectiles \in Seq(Bullets)
    BY DEF MatchTypeOK
  <2>2. Cardinality(FlightOf(projectiles', c)) =
           Cardinality(FlightOf(projectiles, c)) + Cardinality(FlightOf(t, c))
    BY <2>1, FlightJoined
  <2>3. Cardinality(FlightOf(t, c)) \in Nat
    BY FlightFinite
  <2>4. BulletNumber'[c] = BulletNumber[c] + Cardinality(FlightOf(t, c))
    OBVIOUS
  <2> QED
    BY <2>2, <2>3, <2>4, Charged
<1> QED
  BY <1>1, ChargedNext

\* The data of the server add a bullet of another character, which is counted.
LEMMA ReadDataFlight ==
    ASSUME MatchTypeOK, BulletsInFlight, ReadData
    PROVE  BulletsInFlight'
<1>0. ~GameEnded /\ projectiles \in Seq(Bullets) /\ BulletNumber \in [Characters -> Int]
  BY DEF ReadData, MatchTypeOK
<1>1. CASE UNCHANGED <<projectiles, BulletNumber>>
  BY <1>0, <1>1 DEF ReadData, BulletsInFlight, InFlight, endVars
<1>2. CASE ~UNCHANGED <<projectiles, BulletNumber>>
  <2>1. PICK d \in Others, id \in 0 .. 1, type \in Types :
           /\ projectiles' = Append(projectiles, Bullet(d, id, type))
           /\ BulletNumber' = [BulletNumber EXCEPT ![d] = @ + 1]
    BY <1>2 DEF ReadData, PeriodicalUpdate
  <2>2. PICK b : b = Bullet(d, id, type)
    OBVIOUS
  <2>3. b \in Bullets /\ b.shooter = d /\ b.removed = FALSE /\ d \in Characters
    <3>1. d \in Characters /\ id \in Nat /\ type \in Types
      BY Constants
    <3>2. LET n == Bullet(d, id, type)
          IN n \in Bullets /\ n.shooter = d /\ n.removed = FALSE
      BY <3>1, BulletType
    <3> QED
      BY <2>2, <3>1, <3>2
  <2>4. projectiles' = projectiles \o <<b>> /\ <<b>> \in Seq(Bullets)
    BY <1>0, <2>1, <2>2, <2>3
  <2>5. \A c \in Characters : FlightOf(<<b>>, c) = IF c = d THEN {1} ELSE {}
    BY <2>3 DEF FlightOf
  <2>6. \A c \in Characters : Cardinality(FlightOf(<<b>>, c)) = IF c = d THEN 1 ELSE 0
    BY <2>5, FS_Singleton, FS_EmptySet
  <2>7. \A c \in Characters : BulletNumber'[c] = BulletNumber[c] + Cardinality(FlightOf(<<b>>, c))
    BY <1>0, <2>1, <2>3, <2>6
  <2> QED
    BY <1>0, <2>4, <2>7, FlightAdded
<1> QED
  BY <1>1, <1>2

\* The player's bullets are counted.
LEMMA InputFlight ==
    ASSUME MatchTypeOK, BulletsInFlight, ~GameEnded, Input
    PROVE  BulletsInFlight'
<1>0. projectiles \in Seq(Bullets) /\ BulletNumber \in [Characters -> Int]
  BY DEF MatchTypeOK
<1>1. CASE UNCHANGED <<projectiles, BulletNumber>>
  BY <1>0, <1>1 DEF Input, BulletsInFlight, InFlight, endVars
<1>2. ASSUME NEW n \in 1 .. 2, Shoot(n) PROVE BulletsInFlight'
  <2>1. PICK t \in Seq(Bullets) :
             /\ projectiles' = projectiles \o t /\ Len(t) = n
             /\ \A k \in 1 .. n : t[k].shooter = Controllable /\ t[k].removed = FALSE
    BY <1>2, ShotsFired
  <2>2. DOMAIN t = 1 .. n
    BY <2>1
  <2>3. \A c \in Characters : FlightOf(t, c) = IF c = Controllable THEN 1 .. n ELSE {}
    BY <2>1, <2>2 DEF FlightOf
  <2>4. Cardinality(1 .. n) = n /\ Cardinality({}) = 0
    <3>1. n \in Int /\ n >= 1
      OBVIOUS
    <3> QED
      BY <3>1, FS_Interval, FS_EmptySet
  <2>5. \A c \in Characters : Cardinality(FlightOf(t, c)) = IF c = Controllable THEN n ELSE 0
    BY <2>3, <2>4
  <2>6. BulletNumber' = [BulletNumber EXCEPT ![Controllable] = @ + n]
    BY <1>2 DEF Shoot
  <2>7. \A c \in Characters : BulletNumber'[c] = BulletNumber[c] + Cardinality(FlightOf(t, c))
    BY <1>0, <2>5, <2>6, Constants
  <2> QED
    BY <2>1, <2>7, FlightAdded
<1>3. UNCHANGED <<projectiles, BulletNumber>> \/ \E n \in 1 .. 2 : Shoot(n)
  BY DEF Input, bulletVars
<1> QED
  BY <1>1, <1>2, <1>3

\* The computer's bullets are counted.
LEMMA ComputerFlight ==
    ASSUME MatchTypeOK, BulletsInFlight, ~GameEnded, CPUDecision
    PROVE  BulletsInFlight'
<1> DEFINE Volley(n, shooters, t) ==
             /\ projectiles' = projectiles \o t /\ Len(t) = n
             /\ \A k \in 1 .. n : t[k].shooter = shooters[k] /\ t[k].removed = FALSE
             /\ BulletNumber' = [c \in Characters |-> BulletNumber[c] + Shots(shooters, c)]
<1>1. PICK n \in Nat : \E shooters \in [1 .. n -> Others], t \in Seq(Bullets) :
                         Volley(n, shooters, t)
  BY VolleyFired
<1>2. PICK shooters \in [1 .. n -> Others], t \in Seq(Bullets) : Volley(n, shooters, t)
  BY <1>1
<1>3. DOMAIN t = 1 .. n /\ DOMAIN shooters = 1 .. n
  BY <1>2
<1>4. \A c : FlightOf(t, c) = {k \in DOMAIN shooters : shooters[k] = c}
  BY <1>2, <1>3 DEF FlightOf
<1>5. \A c : Cardinality(FlightOf(t, c)) = Shots(shooters, c)
  BY <1>4 DEF Shots
<1>6. \A c \in Characters : BulletNumber'[c] = BulletNumber[c] + Cardinality(FlightOf(t, c))
  BY <1>2, <1>5
<1> QED
  BY <1>2, <1>6, FlightAdded

\* A bullet that is marked was charged at least once.
LEMMA BulletFlight ==
    ASSUME MatchTypeOK, FrameInv, BulletsInFlight, UpdateProjectile
    PROVE  BulletsInFlight'
<1>0. /\ projectiles \in Seq(Bullets) /\ BulletNumber \in [Characters -> Int]
      /\ DOMAIN projectiles = 1 .. Len(projectiles)
  BY DEF MatchTypeOK
<1>1. turn \in 1 .. Len(projectiles) /\ pc = "bullets" /\ ~GameEnded
  BY <1>0 DEF UpdateProjectile, FrameInv, MatchTypeOK
<1>2. PICK removed \in BOOLEAN, causes \in Nat, sends \in SUBSET Characters,
           t \in Seq(Waiting) : BulletEffect(removed, causes, sends, t)
  BY <1>1, EffectOfStep
<1>3. projectiles[turn].removed = FALSE
  <2>1. projectiles[turn].removed \in BOOLEAN
    BY <1>0, <1>1, BulletFields
  <2> QED
    BY <1>0, <1>1, <2>1 DEF FrameInv
<1> DEFINE d == projectiles[turn].shooter
<1>4. d \in Characters
  BY <1>0, <1>1, BulletFields
<1>5. /\ DOMAIN projectiles' = DOMAIN projectiles /\ (removed <=> causes > 0)
      /\ \A k \in DOMAIN projectiles : /\ projectiles'[k].shooter = projectiles[k].shooter
                                       /\ k # turn => projectiles'[k] = projectiles[k]
      /\ projectiles'[turn].removed = removed
      /\ BulletNumber' = [BulletNumber EXCEPT ![d] = @ - causes]
  BY <1>0, <1>2 DEF BulletEffect
<1>6. \A c \in Characters : FlightOf(projectiles', c) =
         IF c = d /\ removed THEN FlightOf(projectiles, c) \ {turn} ELSE FlightOf(projectiles, c)
  BY <1>0, <1>1, <1>3, <1>5 DEF FlightOf
<1>7. ASSUME NEW c \in Characters
      PROVE  BulletNumber'[c] <= Cardinality(FlightOf(projectiles', c))
  <2> DEFINE F == FlightOf(projectiles, c)
  <2>1. /\ BulletNumber[c] \in Int /\ Cardinality(F) \in Nat /\ BulletNumber[c] <= Cardinality(F)
        /\ IsFiniteSet(F)
    BY <1>0, <1>1, Charged, FlightFinite
  <2>2. CASE c = d /\ removed
    <3>1. turn \in F
      BY <1>0, <1>1, <1>3, <2>2 DEF FlightOf
    <3>2. Cardinality(F \ {turn}) = Cardinality(F) - 1
      BY <2>1, <3>1, FS_RemoveElement
    <3>3. FlightOf(projectiles', c) = F \ {turn}
      BY <1>6, <2>2
    <3>4. BulletNumber'[c] = BulletNumber[c] - causes /\ causes > 0
      BY <1>0, <1>4, <1>5, <2>2
    <3> HIDE DEF F, d
    <3> QED
      BY <2>1, <3>2, <3>3, <3>4
  <2>3. CASE ~(c = d /\ removed)
    <3>1. FlightOf(projectiles', c) = F
      BY <1>6, <2>3
    <3>2. BulletNumber'[c] = BulletNumber[c]
      BY <1>0, <1>4, <1>5, <2>1, <2>3
    <3> QED
      BY <2>1, <3>1, <3>2
  <2> QED
    BY <2>2, <2>3
<1> QED
  BY <1>7, ChargedNext

\* No character is charged for bullets that are gone after a step either.
LEMMA FlightStep ==
    ASSUME MatchTypeOK, FrameInv, BulletsInFlight, [MatchNext]_matchVars
    PROVE  BulletsInFlight'
<1>0. projectiles \in Seq(Bullets)
  BY DEF MatchTypeOK
<1>1. CASE ReadData
  BY <1>1, ReadDataFlight
<1>2. CASE EndOnlineGame
  BY <1>2 DEF EndOnlineGame, BulletsInFlight
<1>3. CASE EndedFrame
  BY <1>3 DEF EndedFrame, BulletsInFlight, endVars
<1>4. CASE Input
  <2>1. ~GameEnded
    BY <1>4 DEF Input, FrameInv
  <2> QED
    BY <1>4, <2>1, InputFlight
<1>5. CASE CPUDecision
  <2>1. ~GameEnded
    BY <1>5 DEF CPUDecision, FrameInv
  <2> QED
    BY <1>5, <2>1, ComputerFlight
<1>6. CASE UpdateProjectile
  BY <1>6, BulletFlight
<1>7. CASE ReleaseReflected
  <2>1. ~GameEnded /\ BulletNumber' = BulletNumber
    BY <1>7 DEF ReleaseReflected, FrameInv, characterVars
  <2>2. PICK r \in Seq(Bullets) : projectiles' = projectiles \o r
    <3>1. PICK waited \in Seq(Waiting) : \E go, stay \in SUBSET DOMAIN waited :
              Moves(waited, go, stay)
      BY <1>7, EffectOfRelease
    <3>2. PICK go \in SUBSET DOMAIN waited, stay \in SUBSET DOMAIN waited :
              Moves(waited, go, stay)
      BY <3>1
    <3> QED
      BY <3>2, Released DEF Moves
  <2>3. ASSUME NEW c \in Characters
        PROVE  BulletNumber'[c] <= Cardinality(FlightOf(projectiles', c))
    <3>1. Cardinality(FlightOf(projectiles', c)) =
             Cardinality(FlightOf(projectiles, c)) + Cardinality(FlightOf(r, c))
      BY <1>0, <2>2, FlightJoined
    <3>2. Cardinality(FlightOf(r, c)) \in Nat
      BY FlightFinite
    <3> QED
      BY <2>1, <3>1, <3>2, Charged
  <2> QED
    BY <2>3, ChargedNext
<1>8. CASE UpdateObjects
  <2>1. ~GameEnded /\ BulletNumber' = BulletNumber
    BY <1>8 DEF UpdateObjects, FrameInv
  <2>2. CASE OfflineEnds
    BY <1>8, <2>2 DEF UpdateObjects, BulletsInFlight
  <2>3. CASE ~OfflineEnds
    <3>1. projectiles' = Pick(projectiles, {k \in DOMAIN projectiles : ~projectiles[k].removed})
      BY <1>8, <2>3 DEF UpdateObjects
    <3>2. \A c \in Characters : Cardinality(FlightOf(projectiles', c)) =
                                   Cardinality(FlightOf(projectiles, c))
      BY <1>0, <3>1, FlightPicked
    <3> QED
      BY <2>1, <3>2, Charged, ChargedNext
  <2> QED
    BY <2>2, <2>3
<1>9. CASE UNCHANGED matchVars
  BY <1>9 DEF matchVars, characterVars, endVars, bulletVars, BulletsInFlight, InFlight
<1> QED
  BY <1>1, <1>2, <1>3, <1>4, <1>5, <1>6, <1>7, <1>8, <1>9 DEF MatchNext

-----------------------------------------------------------------------------
(***************************************************************************)
(* The numbers of the player's bullets.                                    *)
(***************************************************************************)

\* The player's numbers in one list differ and are below n.
Unrepeated(s, n) ==
    /\ \A i \in DOMAIN s : s[i].shooter = Controllable => s[i].id < n
    /\ \A i, j \in DOMAIN s : /\ s[i].shooter = Controllable /\ s[j].shooter = Controllable
                              /\ s[i].id = s[j].id
                              => i = j

\* The numbers in two lists differ.
Apart(s, t) ==
    \A i \in DOMAIN s, j \in DOMAIN t :
        ~(s[i].shooter = Controllable /\ t[j].shooter = Controllable /\ s[i].id = t[j].id)

\* The bullets that wait.
Waits == [k \in DOMAIN newProjectiles |-> newProjectiles[k].bullet]

\* The inductive invariant: numbers differ in the list, among those that wait, and between
\* the two.
NumbersInv ==
    /\ Unrepeated(projectiles, NextProjectileID[Controllable])
    /\ Unrepeated(Waits, NextProjectileID[Controllable])
    /\ Apart(projectiles, Waits)

\* What the invariant is about has the right types.
LEMMA NumbersTypes ==
    ASSUME MatchTypeOK
    PROVE  /\ projectiles \in Seq(Bullets) /\ newProjectiles \in Seq(Waiting)
           /\ Waits \in Seq(Bullets) /\ DOMAIN Waits = DOMAIN newProjectiles
           /\ DOMAIN Waits = 1 .. Len(newProjectiles) /\ Len(Waits) = Len(newProjectiles)
           /\ NextProjectileID[Controllable] \in Nat
<1>1. projectiles \in Seq(Bullets) /\ newProjectiles \in Seq(Waiting)
  BY TypeParts DEF ListsOK
<1>2. \A w \in Waiting : w.bullet \in Bullets
  BY DEF Waiting
<1>3. /\ Len(newProjectiles) \in Nat /\ DOMAIN newProjectiles = 1 .. Len(newProjectiles)
      /\ \A k \in 1 .. Len(newProjectiles) : newProjectiles[k] \in Waiting
  BY <1>1
<1>4. Waits = [k \in 1 .. Len(newProjectiles) |-> newProjectiles[k].bullet]
  BY <1>3 DEF Waits
<1>5. \A k \in 1 .. Len(newProjectiles) : newProjectiles[k].bullet \in Bullets
  BY <1>2, <1>3
<1>6. NextProjectileID[Controllable] \in Nat
  BY Constants DEF MatchTypeOK
<1> QED
  BY <1>1, <1>3, <1>4, <1>5, <1>6

\* Numbers stay below a greater number.
LEMMA UnrepeatedBelow ==
    ASSUME NEW s \in Seq(Bullets), NEW n \in Nat, NEW m \in Nat, n <= m, Unrepeated(s, n)
    PROVE  Unrepeated(s, m)
<1>1. \A i \in DOMAIN s : s[i].id \in Nat
  BY BulletFields
<1> QED
  BY <1>1 DEF Unrepeated

\* Two lists whose numbers differ, put together.
LEMMA UnrepeatedJoined ==
    ASSUME NEW s \in Seq(Bullets), NEW t \in Seq(Bullets), NEW n,
           Unrepeated(s, n), Unrepeated(t, n), Apart(s, t)
    PROVE  Unrepeated(s \o t, n)
<1> DEFINE l == s \o t
<1>1. \A k \in DOMAIN l :
         \/ k \in DOMAIN s /\ l[k] = s[k]
         \/ k - Len(s) \in DOMAIN t /\ l[k] = t[k - Len(s)]
  BY Joined
<1>2. DOMAIN l \subseteq Nat /\ Len(s) \in Nat
  BY Joined
<1> HIDE DEF l
<1>3. \A k \in DOMAIN l : l[k].shooter = Controllable => l[k].id < n
  BY <1>1 DEF Unrepeated
<1>4. ASSUME NEW i \in DOMAIN l, NEW j \in DOMAIN l,
             l[i].shooter = Controllable, l[j].shooter = Controllable, l[i].id = l[j].id
      PROVE  i = j
  <2>1. i \in Nat /\ j \in Nat
    BY <1>2
  <2>2. CASE i \in DOMAIN s /\ l[i] = s[i] /\ j \in DOMAIN s /\ l[j] = s[j]
    BY <1>4, <2>2 DEF Unrepeated
  <2>3. CASE /\ i - Len(s) \in DOMAIN t /\ l[i] = t[i - Len(s)]
             /\ j - Len(s) \in DOMAIN t /\ l[j] = t[j - Len(s)]
    <3>1. i - Len(s) = j - Len(s)
      BY <1>4, <2>3 DEF Unrepeated
    <3> QED
      BY <1>2, <2>1, <3>1
  <2>4. CASE i \in DOMAIN s /\ l[i] = s[i] /\ j - Len(s) \in DOMAIN t /\ l[j] = t[j - Len(s)]
    BY <1>4, <2>4 DEF Apart
  <2>5. CASE j \in DOMAIN s /\ l[j] = s[j] /\ i - Len(s) \in DOMAIN t /\ l[i] = t[i - Len(s)]
    BY <1>4, <2>5 DEF Apart
  <2> QED
    BY <1>1, <2>2, <2>3, <2>4, <2>5
<1> QED
  BY <1>3, <1>4 DEF Unrepeated, l

\* What differs from both differs from the two put together, on either side.
LEMMA ApartJoined ==
    ASSUME NEW s \in Seq(Bullets), NEW t \in Seq(Bullets), NEW w
    PROVE  /\ Apart(s, w) /\ Apart(t, w) => Apart(s \o t, w)
           /\ Apart(w, s) /\ Apart(w, t) => Apart(w, s \o t)
<1> DEFINE l == s \o t
<1>1. \A k \in DOMAIN l :
         \/ k \in DOMAIN s /\ l[k] = s[k]
         \/ k - Len(s) \in DOMAIN t /\ l[k] = t[k - Len(s)]
  BY Joined
<1> HIDE DEF l
<1>2. Apart(s, w) /\ Apart(t, w) => Apart(l, w)
  BY <1>1 DEF Apart
<1>3. Apart(w, s) /\ Apart(w, t) => Apart(w, l)
  BY <1>1 DEF Apart
<1> QED
  BY <1>2, <1>3 DEF l

\* Bullets of others have no number of the player's.
LEMMA OthersApart ==
    ASSUME NEW t, \A k \in DOMAIN t : t[k].shooter # Controllable, NEW n, NEW w
    PROVE  Unrepeated(t, n) /\ Apart(t, w) /\ Apart(w, t)
  BY DEF Unrepeated, Apart

\* The bullets at some positions of a list.
Chosen(w, K) == [k \in 1 .. Cardinality(K) |-> w[Nth(K, k)]]

\* Their numbers differ as they did.
LEMMA ChosenUnrepeated ==
    ASSUME NEW w \in Seq(Bullets), NEW K \in SUBSET DOMAIN w
    PROVE  /\ \A n : Unrepeated(w, n) => Unrepeated(Chosen(w, K), n)
           /\ \A s : Apart(s, w) => Apart(s, Chosen(w, K))
           /\ \A s : Apart(w, s) => Apart(Chosen(w, K), s)
<1>1. FiniteNumbers(K) /\ DOMAIN Chosen(w, K) = 1 .. Cardinality(K)
  BY Positions DEF Chosen
<1>2. \A k \in 1 .. Cardinality(K) : /\ Nth(K, k) \in DOMAIN w /\ Rank(K, Nth(K, k)) = k
                                     /\ Chosen(w, K)[k] = w[Nth(K, k)]
  BY <1>1, NthRank DEF Chosen
<1>3. \A s : Apart(s, w) => Apart(s, Chosen(w, K))
  BY <1>1, <1>2 DEF Apart
<1>4. \A s : Apart(w, s) => Apart(Chosen(w, K), s)
  BY <1>1, <1>2 DEF Apart
<1>5. ASSUME NEW n, Unrepeated(w, n) PROVE Unrepeated(Chosen(w, K), n)
  <2>1. \A i \in DOMAIN Chosen(w, K) : Chosen(w, K)[i].shooter = Controllable =>
                                          Chosen(w, K)[i].id < n
    BY <1>1, <1>2, <1>5 DEF Unrepeated
  <2>2. ASSUME NEW i \in 1 .. Cardinality(K), NEW j \in 1 .. Cardinality(K),
               w[Nth(K, i)].shooter = Controllable, w[Nth(K, j)].shooter = Controllable,
               w[Nth(K, i)].id = w[Nth(K, j)].id
        PROVE  i = j
    <3>1. Nth(K, i) = Nth(K, j)
      BY <1>2, <1>5, <2>2 DEF Unrepeated
    <3> QED
      BY <1>2, <3>1
  <2>3. \A i, j \in DOMAIN Chosen(w, K) :
           /\ Chosen(w, K)[i].shooter = Controllable /\ Chosen(w, K)[j].shooter = Controllable
           /\ Chosen(w, K)[i].id = Chosen(w, K)[j].id
           => i = j
    BY <1>1, <1>2, <2>2
  <2> QED
    BY <2>1, <2>3 DEF Unrepeated
<1> QED
  BY <1>3, <1>4, <1>5

\* Those at different positions have different numbers.
LEMMA ChosenApart ==
    ASSUME NEW w \in Seq(Bullets), NEW K \in SUBSET DOMAIN w, NEW L \in SUBSET DOMAIN w,
           K \cap L = {}, NEW n, Unrepeated(w, n)
    PROVE  Apart(Chosen(w, K), Chosen(w, L))
<1>1. FiniteNumbers(K) /\ FiniteNumbers(L)
  BY Positions
<1>2. /\ DOMAIN Chosen(w, K) = 1 .. Cardinality(K) /\ DOMAIN Chosen(w, L) = 1 .. Cardinality(L)
      /\ \A k \in 1 .. Cardinality(K) : Nth(K, k) \in K /\ Chosen(w, K)[k] = w[Nth(K, k)]
      /\ \A k \in 1 .. Cardinality(L) : Nth(L, k) \in L /\ Chosen(w, L)[k] = w[Nth(L, k)]
  BY <1>1, NthRank DEF Chosen
<1> QED
  BY <1>2 DEF Apart, Unrepeated

\* Only shooters and numbers matter.
LEMMA SameNumbers ==
    ASSUME NEW s, NEW l, DOMAIN s = DOMAIN l,
           \A k \in DOMAIN l : s[k].shooter = l[k].shooter /\ s[k].id = l[k].id
    PROVE  /\ \A n : Unrepeated(l, n) => Unrepeated(s, n)
           /\ \A w : Apart(l, w) => Apart(s, w)
           /\ \A w : Apart(w, l) => Apart(w, s)
<1>1. \A n : Unrepeated(l, n) => Unrepeated(s, n)
  BY DEF Unrepeated
<1>2. \A w : Apart(l, w) => Apart(s, w)
  BY DEF Apart
<1>3. \A w : Apart(w, l) => Apart(w, s)
  BY DEF Apart
<1> QED
  BY <1>1, <1>2, <1>3

\* What has to be shown after a step that leaves the numbers in use and the waiting ones.
LEMMA NumbersAdded ==
    ASSUME MatchTypeOK, NumbersInv, NEW t \in Seq(Bullets),
           \A k \in DOMAIN t : t[k].shooter # Controllable,
           projectiles' = projectiles \o t, UNCHANGED <<newProjectiles, NextProjectileID>>
    PROVE  NumbersInv'
<1>1. Waits' = Waits
  BY DEF Waits
<1>2. projectiles \in Seq(Bullets)
  BY NumbersTypes
<1>3. Unrepeated(projectiles', NextProjectileID[Controllable])
  BY <1>2, OthersApart, UnrepeatedJoined DEF NumbersInv
<1>4. Apart(projectiles', Waits)
  BY <1>2, OthersApart, ApartJoined DEF NumbersInv
<1> QED
  BY <1>1, <1>3, <1>4 DEF NumbersInv

\* The player's new bullets take the next numbers.
LEMMA ShootNumbers ==
    ASSUME MatchTypeOK, NumbersInv, NEW n \in 1 .. 2, Shoot(n), UNCHANGED newProjectiles
    PROVE  NumbersInv'
<1> DEFINE first == NextProjectileID[Controllable]
           last  == NextProjectileID'[Controllable]
<1>1. first \in Nat /\ projectiles \in Seq(Bullets) /\ Waits \in Seq(Bullets)
  BY NumbersTypes
<1>2. last = first + n /\ last \in Nat /\ first <= last
  <2>1. NextProjectileID' = [NextProjectileID EXCEPT ![Controllable] = @ + n]
    BY DEF Shoot, Numbered
  <2>2. NextProjectileID \in [Characters -> Nat] /\ Controllable \in Characters
    BY Constants DEF MatchTypeOK
  <2> QED
    BY <1>1, <2>1, <2>2
<1>3. PICK t \in Seq(Bullets) :
             /\ projectiles' = projectiles \o t /\ Len(t) = n
             /\ \A k \in 1 .. n : t[k].shooter = Controllable /\ t[k].id = first + k - 1
  BY ShotsFired
<1>4. DOMAIN t = 1 .. n /\ Waits' = Waits
  BY <1>3 DEF Waits
<1> HIDE DEF first, last
<1>5. Unrepeated(t, last)
  BY <1>1, <1>2, <1>3, <1>4 DEF Unrepeated
<1>6. \A s \in Seq(Bullets) : Unrepeated(s, first) => Apart(s, t) /\ Apart(t, s)
  <2> SUFFICES ASSUME NEW s \in Seq(Bullets), Unrepeated(s, first)
               PROVE  Apart(s, t) /\ Apart(t, s)
    OBVIOUS
  <2>1. \A i \in DOMAIN s : s[i].id \in Nat /\ (s[i].shooter = Controllable => s[i].id < first)
    BY BulletFields DEF Unrepeated
  <2>2. \A k \in DOMAIN t : t[k].id >= first
    BY <1>1, <1>3, <1>4
  <2>3. ASSUME NEW i \in DOMAIN s, NEW k \in DOMAIN t, s[i].shooter = Controllable
        PROVE  s[i].id # t[k].id
    BY <1>1, <2>1, <2>2, <2>3
  <2> QED
    BY <2>3 DEF Apart
<1>7. Unrepeated(projectiles, first) /\ Unrepeated(Waits, first) /\ Apart(projectiles, Waits)
  BY DEF NumbersInv, first
<1>8. Unrepeated(projectiles', last)
  BY <1>1, <1>2, <1>3, <1>5, <1>6, <1>7, UnrepeatedBelow, UnrepeatedJoined
<1>9. Unrepeated(Waits, last)
  BY <1>1, <1>2, <1>7, UnrepeatedBelow
<1>10. Apart(projectiles', Waits)
  BY <1>1, <1>3, <1>6, <1>7, ApartJoined
<1> QED
  BY <1>4, <1>8, <1>9, <1>10 DEF NumbersInv, last

\* A bullet that the player sends back takes its next number.
LEMMA BulletNumbers ==
    ASSUME MatchTypeOK, NumbersInv, turn \in 1 .. Len(projectiles), UpdateProjectile
    PROVE  NumbersInv'
<1> DEFINE first == NextProjectileID[Controllable]
           last  == NextProjectileID'[Controllable]
<1>0. /\ projectiles \in Seq(Bullets) /\ Waits \in Seq(Bullets) /\ first \in Nat
      /\ newProjectiles \in Seq(Waiting) /\ Len(Waits) = Len(newProjectiles)
      /\ DOMAIN Waits = 1 .. Len(newProjectiles)
  BY NumbersTypes
<1>1. PICK removed \in BOOLEAN, causes \in Nat, sends \in SUBSET Characters,
           t \in Seq(Waiting) : BulletEffect(removed, causes, sends, t)
  BY EffectOfStep
<1> DEFINE tb == [k \in 1 .. Len(t) |-> t[k].bullet]
<1>2. /\ projectiles' \in Seq(Bullets) /\ DOMAIN projectiles' = DOMAIN projectiles
      /\ \A k \in DOMAIN projectiles : /\ projectiles'[k].shooter = projectiles[k].shooter
                                       /\ projectiles'[k].id = projectiles[k].id
  BY <1>0, <1>1 DEF BulletEffect
<1>3. /\ newProjectiles' = newProjectiles \o t /\ DOMAIN t = 1 .. Len(t) /\ Len(t) \in Nat
      /\ \A k \in 1 .. Len(t) : /\ t[k].bullet.shooter \in sends
                                /\ t[k].bullet.id = NextProjectileID[t[k].bullet.shooter]
      /\ \A i, j \in 1 .. Len(t) : t[i].bullet.shooter = t[j].bullet.shooter => i = j
  BY <1>1 DEF BulletEffect
<1>4. last = (IF Controllable \in sends THEN first + 1 ELSE first) /\ last \in Nat /\ first <= last
  BY <1>0, <1>1, Constants DEF BulletEffect
<1>5. tb \in Seq(Bullets) /\ DOMAIN tb = 1 .. Len(t) /\ Len(tb) = Len(t)
  <2>1. \A k \in 1 .. Len(t) : t[k] \in Waiting
    OBVIOUS
  <2>2. \A k \in 1 .. Len(t) : t[k].bullet \in Bullets
    BY <2>1 DEF Waiting
  <2> QED
    BY <1>3, <2>2
<1>6. \A k \in DOMAIN tb : tb[k].shooter = Controllable =>
                            Controllable \in sends /\ tb[k].id = first
  BY <1>3, <1>5
<1>7. \A i, j \in DOMAIN tb : tb[i].shooter = tb[j].shooter => i = j
  BY <1>3, <1>5
<1>8. /\ DOMAIN Waits' = DOMAIN (Waits \o tb)
      /\ \A k \in DOMAIN (Waits \o tb) : Waits'[k] = (Waits \o tb)[k]
  <2>1. DOMAIN (Waits \o tb) = 1 .. Len(newProjectiles) + Len(t)
    <3> HIDE DEF tb
    <3>0. Waits \in Seq(Bullets) /\ tb \in Seq(Bullets)
      BY <1>0, <1>5
    <3> HIDE DEF Waits
    <3>1. DOMAIN (Waits \o tb) = 1 .. Len(Waits) + Len(tb)
      BY <3>0, Joined
    <3> QED
      BY <1>0, <1>5, <3>1
  <2>2. DOMAIN newProjectiles' = 1 .. Len(newProjectiles) + Len(t)
    BY <1>0, <1>3, Joined
  <2>3. DOMAIN Waits' = DOMAIN newProjectiles'
    BY DEF Waits
  <2>4. \A k \in DOMAIN newProjectiles' : Waits'[k] = newProjectiles'[k].bullet
    BY DEF Waits
  <2>5. \A k \in DOMAIN newProjectiles : Waits[k] = newProjectiles[k].bullet
    BY DEF Waits
  <2>6. ASSUME NEW k \in 1 .. Len(newProjectiles) PROVE Waits'[k] = (Waits \o tb)[k]
    <3>1. newProjectiles'[k] = newProjectiles[k] /\ k \in DOMAIN newProjectiles'
      BY <1>0, <1>3, <2>2, Joined
    <3>2. (Waits \o tb)[k] = Waits[k] /\ k \in DOMAIN newProjectiles
      BY <1>0, <1>5, Joined
    <3> QED
      BY <2>4, <2>5, <3>1, <3>2
  <2>7. ASSUME NEW k \in 1 .. Len(t)
        PROVE  Waits'[Len(newProjectiles) + k] = (Waits \o tb)[Len(newProjectiles) + k]
    <3>1. /\ newProjectiles'[Len(newProjectiles) + k] = t[k]
          /\ Len(newProjectiles) + k \in DOMAIN newProjectiles'
      <4>1. Len(newProjectiles) \in Nat
        BY <1>0
      <4> QED
        BY <1>0, <1>3, <2>2, <4>1, Joined
    <3>2. (Waits \o tb)[Len(newProjectiles) + k] = tb[k]
      <4> HIDE DEF tb
      <4>1. (Waits \o tb)[Len(Waits) + k] = tb[k]
        BY <1>0, <1>5, Joined
      <4> QED
        BY <1>0, <4>1
    <3> QED
      BY <1>5, <2>4, <3>1, <3>2
  <2>8. ASSUME NEW k \in 1 .. Len(newProjectiles) + Len(t) PROVE Waits'[k] = (Waits \o tb)[k]
    <3>1. Len(newProjectiles) \in Nat
      BY <1>0
    <3>2. \/ k \in 1 .. Len(newProjectiles)
          \/ k - Len(newProjectiles) \in 1 .. Len(t)
             /\ k = Len(newProjectiles) + (k - Len(newProjectiles))
      BY <1>3, <3>1
    <3> HIDE DEF tb
    <3> QED
      BY <2>6, <2>7, <3>2
  <2> QED
    BY <2>1, <2>2, <2>3, <2>8
<1>9. Unrepeated(projectiles, first) /\ Unrepeated(Waits, first) /\ Apart(projectiles, Waits)
  BY DEF NumbersInv
<1> HIDE DEF first, last, tb
<1>10. Unrepeated(tb, last)
  BY <1>0, <1>4, <1>6, <1>7 DEF Unrepeated
<1>11. \A s \in Seq(Bullets) : Unrepeated(s, first) => Apart(s, tb)
  <2> SUFFICES ASSUME NEW s \in Seq(Bullets), Unrepeated(s, first) PROVE Apart(s, tb)
    OBVIOUS
  <2>1. \A i \in DOMAIN s : s[i].id \in Nat /\ (s[i].shooter = Controllable => s[i].id < first)
    BY BulletFields DEF Unrepeated
  <2> QED
    BY <1>0, <1>6, <2>1 DEF Apart
<1>12. Unrepeated(projectiles', last)
  <2>1. Unrepeated(projectiles', first)
    BY <1>2, <1>9, SameNumbers
  <2> QED
    BY <1>0, <1>2, <1>4, <2>1, UnrepeatedBelow
<1>13. Unrepeated(Waits', last)
  <2>1. Unrepeated(Waits, last)
    BY <1>0, <1>4, <1>9, UnrepeatedBelow
  <2>2. Unrepeated(Waits \o tb, last)
    BY <1>0, <1>5, <1>9, <1>10, <1>11, <2>1, UnrepeatedJoined
  <2> QED
    BY <1>8, <2>2, SameNumbers
<1>14. Apart(projectiles', Waits')
  <2>1. Apart(projectiles, Waits \o tb)
    BY <1>0, <1>5, <1>9, <1>11, ApartJoined
  <2>2. Apart(projectiles', Waits \o tb)
    BY <1>2, <2>1, SameNumbers
  <2> QED
    BY <1>8, <2>2, SameNumbers
<1> QED
  BY <1>12, <1>13, <1>14 DEF NumbersInv, last

\* A released bullet takes its number from one list to the other.
LEMMA ReleaseNumbers ==
    ASSUME MatchTypeOK, NumbersInv, ReleaseReflected
    PROVE  NumbersInv'
<1> DEFINE n == NextProjectileID[Controllable]
<1>0. /\ projectiles \in Seq(Bullets) /\ Waits \in Seq(Bullets)
      /\ DOMAIN Waits = DOMAIN newProjectiles
  BY NumbersTypes
<1>1. PICK waited \in Seq(Waiting) : \E go, stay \in SUBSET DOMAIN waited :
              Moves(waited, go, stay)
  BY EffectOfRelease
<1>2. PICK go \in SUBSET DOMAIN waited, stay \in SUBSET DOMAIN waited : Moves(waited, go, stay)
  BY <1>1
<1>3. /\ go \in SUBSET DOMAIN Waits /\ stay \in SUBSET DOMAIN Waits /\ go \cap stay = {}
      /\ \A k \in DOMAIN waited : waited[k].bullet = Waits[k]
  BY <1>0, <1>2 DEF Moves, Waits
<1>4. /\ FiniteNumbers(go) /\ FiniteNumbers(stay)
      /\ \A k \in 1 .. Cardinality(go) : Nth(go, k) \in go
      /\ \A k \in 1 .. Cardinality(stay) : Nth(stay, k) \in stay
  BY Positions, NthRank
<1>5. projectiles' = projectiles \o Chosen(Waits, go)
  <2>1. [k \in 1 .. Cardinality(go) |-> waited[Nth(go, k)].bullet] = Chosen(Waits, go)
    BY <1>2, <1>3, <1>4 DEF Chosen
  <2> QED
    BY <1>2, <2>1 DEF Moves
<1>6. Waits' = Chosen(Waits, stay)
  <2>1. newProjectiles' = [k \in 1 .. Cardinality(stay) |-> waited[Nth(stay, k)]]
    BY <1>2 DEF Moves, Pick
  <2>2. Waits' = [k \in 1 .. Cardinality(stay) |-> waited[Nth(stay, k)].bullet]
    BY <2>1 DEF Waits
  <2> QED
    BY <1>2, <1>3, <1>4, <2>2 DEF Chosen
<1>7. n' = n
  BY DEF ReleaseReflected, characterVars
<1>8. Chosen(Waits, go) \in Seq(Bullets)
  <2>1. [k \in 1 .. Cardinality(go) |-> waited[Nth(go, k)].bullet] = Chosen(Waits, go)
    BY <1>2, <1>3, <1>4 DEF Chosen
  <2> QED
    BY <1>2, <2>1, Released
<1>9. /\ Unrepeated(projectiles, n) /\ Unrepeated(Waits, n) /\ Apart(projectiles, Waits)
  BY DEF NumbersInv
<1> HIDE DEF n
<1>10. /\ Unrepeated(Chosen(Waits, go), n) /\ Unrepeated(Chosen(Waits, stay), n)
       /\ Apart(projectiles, Chosen(Waits, go)) /\ Apart(projectiles, Chosen(Waits, stay))
  BY <1>0, <1>3, <1>9, ChosenUnrepeated
<1>11. Apart(Chosen(Waits, go), Chosen(Waits, stay))
  BY <1>0, <1>3, <1>9, ChosenApart
<1>12. Unrepeated(projectiles', n')
  BY <1>0, <1>5, <1>7, <1>8, <1>9, <1>10, UnrepeatedJoined
<1>13. Apart(projectiles', Waits')
  BY <1>0, <1>5, <1>6, <1>8, <1>10, <1>11, ApartJoined
<1> QED
  BY <1>6, <1>7, <1>10, <1>12, <1>13 DEF NumbersInv, n

\* The numbers of the player's bullets still differ after a step.
LEMMA NumbersStep ==
    ASSUME MatchTypeOK, FrameInv, NumbersInv, [MatchNext]_matchVars
    PROVE  NumbersInv'
<1>0. projectiles \in Seq(Bullets) /\ DOMAIN projectiles = 1 .. Len(projectiles)
  BY DEF MatchTypeOK
<1>1. CASE UNCHANGED <<projectiles, newProjectiles, NextProjectileID>>
  BY <1>1 DEF NumbersInv, Waits
<1>2. CASE ReadData
  <2>1. CASE UNCHANGED projectiles
    BY <1>1, <1>2, <2>1 DEF ReadData
  <2>2. CASE ~UNCHANGED projectiles
    <3>1. PICK d \in Others, id \in 0 .. 1, type \in Types :
             projectiles' = Append(projectiles, Bullet(d, id, type))
      BY <1>2, <2>2 DEF ReadData, PeriodicalUpdate
    <3>2. PICK b : b = Bullet(d, id, type)
      OBVIOUS
    <3>3. b \in Bullets /\ b.shooter # Controllable
      <4>1. d \in Characters /\ id \in Nat /\ type \in Types /\ d # Controllable
        BY Constants
      <4>2. Bullet(d, id, type) \in Bullets /\ Bullet(d, id, type).shooter = d
        BY <4>1, BulletType
      <4> QED
        BY <3>2, <4>1, <4>2
    <3>4. /\ projectiles' = projectiles \o <<b>> /\ <<b>> \in Seq(Bullets)
          /\ \A k \in DOMAIN <<b>> : <<b>>[k].shooter # Controllable
      BY <1>0, <3>1, <3>2, <3>3
    <3> QED
      BY <1>2, <3>4, NumbersAdded DEF ReadData
  <2> QED
    BY <2>1, <2>2
<1>3. CASE EndOnlineGame
  <2>1. projectiles' = <<>> /\ UNCHANGED <<newProjectiles, NextProjectileID>>
    BY <1>3 DEF EndOnlineGame, characterVars
  <2>2. Waits' = Waits
    BY <2>1 DEF Waits
  <2>3. DOMAIN projectiles' = {}
    BY <2>1
  <2> QED
    BY <2>1, <2>2, <2>3 DEF NumbersInv, Unrepeated, Apart
<1>4. CASE Input
  <2>1. \/ UNCHANGED <<projectiles, newProjectiles, NextProjectileID>>
        \/ \E n \in 1 .. 2 : Shoot(n) /\ UNCHANGED newProjectiles
    BY <1>4 DEF Input, bulletVars
  <2> QED
    BY <1>1, <2>1, ShootNumbers
<1>5. CASE CPUDecision
  <2>1. PICK t \in Seq(Bullets) : /\ projectiles' = projectiles \o t
                                  /\ \A k \in DOMAIN t : t[k].shooter # Controllable
    <3> DEFINE Volley(n, shooters, t) ==
                 /\ projectiles' = projectiles \o t /\ Len(t) = n
                 /\ \A k \in 1 .. n : t[k].shooter = shooters[k]
    <3>1. PICK n \in Nat : \E shooters \in [1 .. n -> Others], t \in Seq(Bullets) :
                             Volley(n, shooters, t)
      BY <1>5, VolleyFired
    <3>2. PICK shooters \in [1 .. n -> Others], t \in Seq(Bullets) : Volley(n, shooters, t)
      BY <3>1
    <3>3. DOMAIN t = 1 .. n
      BY <3>2
    <3>4. \A k \in DOMAIN t : t[k].shooter # Controllable
      BY <3>2, <3>3, Constants
    <3> QED
      BY <3>2, <3>4
  <2> QED
    BY <1>5, <2>1, NumbersAdded DEF CPUDecision
<1>6. CASE UpdateProjectile
  <2>1. turn \in 1 .. Len(projectiles)
    BY <1>0, <1>6 DEF UpdateProjectile, FrameInv, MatchTypeOK
  <2> QED
    BY <1>6, <2>1, BulletNumbers
<1>7. CASE ReleaseReflected
  BY <1>7, ReleaseNumbers
<1>8. CASE UpdateObjects
  <2> DEFINE K == {k \in DOMAIN projectiles : ~projectiles[k].removed}
  <2>1. /\ projectiles' = <<>> \/ projectiles' = Pick(projectiles, K)
        /\ UNCHANGED <<newProjectiles, NextProjectileID>>
    BY <1>8 DEF UpdateObjects
  <2>2. Waits' = Waits
    BY <2>1 DEF Waits
  <2>3. CASE projectiles' = <<>>
    <3>1. DOMAIN projectiles' = {}
      BY <2>3
    <3> QED
      BY <2>1, <2>2, <3>1 DEF NumbersInv, Unrepeated, Apart
  <2>4. CASE projectiles' = Pick(projectiles, K)
    <3>1. projectiles' = Chosen(projectiles, K) /\ K \in SUBSET DOMAIN projectiles
      BY <2>4 DEF Pick, Chosen
    <3> HIDE DEF K
    <3> QED
      BY <1>0, <2>1, <2>2, <3>1, ChosenUnrepeated DEF NumbersInv
  <2> QED
    BY <2>1, <2>3, <2>4
<1>9. CASE EndedFrame \/ UNCHANGED matchVars
  BY <1>1, <1>9 DEF EndedFrame, matchVars, characterVars, bulletVars
<1> QED
  BY <1>2, <1>3, <1>4, <1>5, <1>6, <1>7, <1>8, <1>9 DEF MatchNext

\* Different numbers are as many as their bullets.
LEMMA NumbersDistinct ==
    ASSUME MatchTypeOK, NumbersInv
    PROVE  OwnNumbersDistinct
<1> DEFINE n == NextProjectileID[Controllable]
           flying  == {k \in DOMAIN projectiles : projectiles[k].shooter = Controllable}
           waiting == {k \in DOMAIN newProjectiles :
                         newProjectiles[k].bullet.shooter = Controllable}
           F == {projectiles[k].id : k \in flying}
           W == {newProjectiles[k].bullet.id : k \in waiting}
<1>0. /\ projectiles \in Seq(Bullets) /\ newProjectiles \in Seq(Waiting)
      /\ DOMAIN Waits = DOMAIN newProjectiles
      /\ \A k \in DOMAIN newProjectiles : Waits[k] = newProjectiles[k].bullet
  BY NumbersTypes DEF Waits
<1>1. Unrepeated(projectiles, n) /\ Unrepeated(Waits, n) /\ Apart(projectiles, Waits)
  BY DEF NumbersInv
<1>2. IsFiniteSet(flying) /\ IsFiniteSet(waiting)
  <2>1. flying \in SUBSET DOMAIN projectiles /\ waiting \in SUBSET DOMAIN newProjectiles
    OBVIOUS
  <2> HIDE DEF flying, waiting
  <2> QED
    BY <1>0, <2>1, Positions DEF FiniteNumbers
<1>3. IsFiniteSet(F) /\ Cardinality(F) = Cardinality(flying)
  <2> DEFINE f == [k \in flying |-> projectiles[k].id]
  <2>1. \A i, j \in flying : f[i] = f[j] => i = j
    BY <1>1 DEF Unrepeated
  <2>2. f \in Bijection(flying, F)
    BY <2>1 DEF Bijection, Injection, Surjection, IsInjective
  <2> QED
    BY <1>2, <2>2, FS_Bijection DEF ExistsBijection
<1>4. IsFiniteSet(W) /\ Cardinality(W) = Cardinality(waiting)
  <2> DEFINE f == [k \in waiting |-> newProjectiles[k].bullet.id]
  <2>1. \A i, j \in waiting : f[i] = f[j] => i = j
    BY <1>0, <1>1 DEF Unrepeated
  <2>2. f \in Bijection(waiting, W)
    BY <2>1 DEF Bijection, Injection, Surjection, IsInjective
  <2> QED
    BY <1>2, <2>2, FS_Bijection DEF ExistsBijection
<1>5. F \cap W = {}
  BY <1>0, <1>1 DEF Apart
<1>6. \A m \in F \cup W : m < n
  BY <1>0, <1>1 DEF Unrepeated
<1>7. Cardinality(F \cup W) = Cardinality(flying) + Cardinality(waiting)
  <2>1. Cardinality(F) \in Nat /\ Cardinality(W) \in Nat
    BY <1>3, <1>4, FS_CardinalityType
  <2>2. Cardinality(F \cup W) = Cardinality(F) + Cardinality(W) - Cardinality({})
    <3> HIDE DEF F, W, flying, waiting
    <3> QED
      BY <1>3, <1>4, <1>5, FS_Union
  <2> HIDE DEF F, W, flying, waiting
  <2> QED
    BY <1>3, <1>4, <2>1, <2>2, FS_EmptySet
<1> QED
  BY <1>6, <1>7 DEF OwnNumbersDistinct

-----------------------------------------------------------------------------
(***************************************************************************)
(* The theorems.                                                           *)
(***************************************************************************)

\* The inductive invariant.
MatchInv == MatchTypeOK /\ FrameInv /\ LastOneWins /\ BulletsInFlight /\ NumbersInv

\* A match starts in it.
LEMMA MatchInvInit == MatchInit => MatchInv
<1> SUFFICES ASSUME MatchInit PROVE MatchInv
  OBVIOUS
<1>1. MatchTypeOK
  BY TypesInit
<1>2. DOMAIN projectiles = {} /\ DOMAIN newProjectiles = {} /\ DOMAIN Waits = {}
  BY DEF MatchInit, Waits
<1>3. FrameInv
  BY <1>2 DEF MatchInit, FrameInv
<1>4. LastOneWins
  <2> DEFINE standing == {c \in Characters : Health[c] > 0}
  <2>1. standing = Characters /\ GameEnded = FALSE
    BY Constants DEF MatchInit
  <2>2. Others # {} => ~(Cardinality(Characters) <= 1)
    <3>1. Cardinality(Characters) \in Nat
      BY Constants, FS_CardinalityType
    <3> QED
      BY <3>1, TwoCharacters
  <2> QED
    BY <2>1, <2>2 DEF LastOneWins
<1>5. BulletsInFlight
  <2>1. ASSUME NEW c \in Characters PROVE BulletNumber[c] <= Cardinality(InFlight(c))
    <3>1. InFlight(c) = {}
      BY <1>2 DEF InFlight
    <3> QED
      BY <3>1, FS_EmptySet DEF MatchInit
  <2> QED
    BY <2>1 DEF BulletsInFlight
<1>6. NumbersInv
  BY <1>2 DEF NumbersInv, Unrepeated, Apart
<1> QED
  BY <1>1, <1>3, <1>4, <1>5, <1>6 DEF MatchInv

\* Every step keeps it.
LEMMA MatchInvStep == MatchInv /\ [MatchNext]_matchVars => MatchInv'
<1> SUFFICES ASSUME MatchInv, [MatchNext]_matchVars PROVE MatchInv'
  OBVIOUS
<1>1. MatchTypeOK /\ FrameInv /\ LastOneWins /\ BulletsInFlight /\ NumbersInv
  BY DEF MatchInv
<1>2. MatchTypeOK'
  <2>1. pc = "bullets" => turn >= 1
    BY <1>1 DEF FrameInv, MatchTypeOK
  <2> QED
    BY <1>1, <2>1, TypesStep
<1>3. FrameInv' /\ LastOneWins' /\ BulletsInFlight' /\ NumbersInv'
  BY <1>1, FrameStep, EndStep, FlightStep, NumbersStep
<1> QED
  BY <1>2, <1>3 DEF MatchInv

\* It is an invariant.
LEMMA MatchSafe == MatchSpec => []MatchInv
  BY MatchInvInit, MatchInvStep, PTL DEF MatchSpec

\* Type correctness of a match: slimes stay within their number, health never rises above
\* what a character starts with, and no count passes the threshold except those of the
\* characters that the server moves.
THEOREM MatchTypes == MatchSpec => []MatchTypeOK
<1>1. MatchInv => MatchTypeOK
  BY DEF MatchInv
<1> QED
  BY <1>1, MatchSafe, PTL

\* No character is charged for bullets that are gone, whatever destroys them, several
\* causes at once included (ProjectileEngine.UpdateProjectiles).
THEOREM NeverSilenced == MatchSpec => []BulletsInFlight
<1>1. MatchInv => BulletsInFlight
  BY DEF MatchInv
<1> QED
  BY <1>1, MatchSafe, PTL

\* The player's bullets can be told apart by their numbers, those that its shield sent back
\* and that still wait included.
THEOREM NumbersApart == MatchSpec => []OwnNumbersDistinct
<1>1. MatchInv => OwnNumbersDistinct
  BY NumbersDistinct DEF MatchInv
<1> QED
  BY <1>1, MatchSafe, PTL

\* A training match ends in the frame that leaves one standing, with that one as winner, or
\* none, with a draw (EndOfflineGame).
THEOREM RightWinner == MatchSpec => []LastOneWins
<1>1. MatchInv => LastOneWins
  BY DEF MatchInv
<1> QED
  BY <1>1, MatchSafe, PTL
=============================================================================
