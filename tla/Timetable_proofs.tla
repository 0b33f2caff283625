-------------------------- MODULE Timetable_proofs --------------------------
(***************************************************************************)
(* What the timetable promises for a day and an hour of any length and any *)
(* set of settings.                                                        *)
(***************************************************************************)
EXTENDS Timetable, TLAPS

-----------------------------------------------------------------------------
(* The inductive invariant. *)

SyncInStep == sync.interval = cfg.interval /\ sync.offset = cfg.offset /\ sync.zone = cfg.zone

\* What a pass that met no other has seen to, and what it has read is still what is saved.
Progress(t) ==
    /\ pass[t].at \in {"compare", "sync", "catalog", "digest"} => pass[t].read = cfg
    /\ pass[t].at \in {"daily", "catalog", "digest"} => SyncInStep
    /\ pass[t].at = "digest" => catalog = CatalogTrigger(cfg)

Alone == up /\ ~crossed =>
    /\ \A s, t \in Threads : Applying(s) /\ Applying(t) => s = t
    /\ \A t \in Threads : Applying(t) => Progress(t)
    /\ (\A t \in Threads : ~Applying(t)) => InStep

DownIsIdle == ~up => \A t \in Threads : pass[t].at = "none"

IInv == TypeOK /\ OnTheGrid /\ Alone /\ DownIsIdle

-----------------------------------------------------------------------------
(* Division. *)

LEMMA MultipleIsZero == \A n \in Nat \ {0}, k \in Int : (k * n) % n = 0
<1> TAKE n \in Nat \ {0}, k \in Int
<1> QED OBVIOUS

LEMMA Quotient == \A n \in Nat \ {0}, a \in Int : \E k \in Int : a = k * n + (a % n)
<1> TAKE n \in Nat \ {0}, a \in Int
<1> DEFINE q == a \div n
<1>1. q \in Int /\ a = q * n + (a % n) OBVIOUS
<1> HIDE DEF q
<1> QED BY <1>1

LEMMA RemainderTyped == \A n \in Nat \ {0}, a \in Int : a % n \in 0..(n - 1)
OBVIOUS

\* Multiples of n form a group.
LEMMA SumIsZero ==
    ASSUME NEW n \in Nat \ {0}, NEW a \in Int, NEW b \in Int, a % n = 0, b % n = 0
    PROVE  (a + b) % n = 0 /\ (a - b) % n = 0
<1>1. PICK k \in Int : a = k * n + (a % n) BY Quotient
<1>2. PICK l \in Int : b = l * n + (b % n) BY Quotient
<1>3. a + b = (k + l) * n /\ a - b = (k - l) * n BY <1>1, <1>2
<1>4. k + l \in Int /\ k - l \in Int OBVIOUS
<1>5. ((k + l) * n) % n = 0 /\ ((k - l) * n) % n = 0 BY <1>4, MultipleIsZero
<1> QED BY <1>3, <1>5

LEMMA LessRemainder ==
    ASSUME NEW n \in Nat \ {0}, NEW a \in Int
    PROVE  (a - (a % n)) % n = 0
<1>1. PICK k \in Int : a = k * n + (a % n) BY Quotient
<1>2. a % n \in Int BY RemainderTyped
<1>3. a - (a % n) = k * n BY <1>1, <1>2
<1> QED BY <1>3, MultipleIsZero

LEMMA OwnMultiple == \A n \in Nat \ {0} : n % n = 0
<1> TAKE n \in Nat \ {0}
<1>1. (1 * n) % n = 0 BY MultipleIsZero
<1> QED BY <1>1

\* A multiple of a day is one of an interval that divides the day.
LEMMA DaysAreMultiples ==
    ASSUME NEW n \in Nat \ {0}, Day % n = 0, NEW a \in Int, a % Day = 0
    PROVE  a % n = 0
<1>1. Day \in Nat \ {0} /\ Day \in Int BY DayAssumption
<1>2. PICK k \in Int : a = k * Day + (a % Day) BY <1>1, Quotient
<1>a. \E l \in Int : Day = l * n + (Day % n) BY <1>1, Quotient, Zenon
<1>3. PICK l \in Int : Day = l * n + (Day % n) BY <1>a
<1>4. a = (k * l) * n
  <2>1. a = k * Day /\ Day = l * n BY <1>1, <1>2, <1>3
  <2>2. k * (l * n) = (k * l) * n OBVIOUS
  <2> QED BY <2>1, <2>2
<1>5. k * l \in Int OBVIOUS
<1> QED BY <1>4, <1>5, MultipleIsZero

-----------------------------------------------------------------------------
(* The triggers. *)

\* The first time lies on the grid, and not further away than a day.
LEMMA FirstFireOnGrid ==
    ASSUME NEW interval \in 1..Day, NEW offset \in 0..(Hour - 1), NEW zone \in Zones,
           clock \in 0..(Day - 1)
    PROVE  /\ FirstFire(interval, offset, zone) \in 0..Day
           /\ Day % interval = 0 =>
                (clock + FirstFire(interval, offset, zone) - zone - offset) % interval = 0
<1>1. /\ Day \in Nat \ {0} /\ Hour \in 1..Day /\ interval \in Nat \ {0} /\ clock \in Int
      /\ zone \in Int /\ offset \in Int /\ clock - zone \in Int
    BY DayAssumption DEF Zones
<1> DEFINE local == (clock - zone) % Day
           past == local - offset
           due == FirstFire(interval, offset, zone)
<1>2. local \in 0..(Day - 1) BY <1>1, RemainderTyped
<1>3. past \in Int BY <1>1, <1>2
<1>4. ((clock - zone) - local) % Day = 0 BY <1>1, LessRemainder
<1>5. CASE past < 0
  <2>1. due = -past BY <1>5 DEF FirstFire
  <2> HIDE DEF local, due
  <2>2. due \in 0..Day BY <1>1, <1>2, <1>5, <2>1
  <2>3. clock + due - zone - offset = (clock - zone) - local BY <1>1, <1>2, <2>1
  <2>4. (clock - zone) - local \in Int BY <1>1, <1>2
  <2>5. Day % interval = 0 => ((clock - zone) - local) % interval = 0
      BY <1>1, <1>4, <2>4, DaysAreMultiples
  <2> QED BY <2>2, <2>3, <2>5 DEF due
<1>6. CASE ~(past < 0)
  <2> DEFINE rest == past % interval
  <2>1. due = interval - rest BY <1>6 DEF FirstFire
  <2>2. rest \in 0..(interval - 1) BY <1>1, <1>3, RemainderTyped
  <2>3. (past - rest) % interval = 0 BY <1>1, <1>3, LessRemainder
  <2> HIDE DEF local, due, rest
  <2>4. due \in 0..Day BY <1>1, <2>1, <2>2
  <2>5. clock + due - zone - offset = ((clock - zone) - local) + ((past - rest) + interval)
      BY <1>1, <1>2, <2>1, <2>2
  <2>6. (clock - zone) - local \in Int /\ past - rest \in Int /\ (past - rest) + interval \in Int
      BY <1>1, <1>2, <1>3, <2>2
  <2>7. ((past - rest) + interval) % interval = 0
      BY <1>1, <2>3, <2>6, OwnMultiple, SumIsZero
  <2>8. Day % interval = 0 => ((clock - zone) - local) % interval = 0
      BY <1>1, <1>4, <2>6, DaysAreMultiples
  <2>9. Day % interval = 0 => (((clock - zone) - local) + ((past - rest) + interval)) % interval = 0
      BY <1>1, <2>6, <2>7, <2>8, SumIsZero
  <2> QED BY <2>4, <2>5, <2>9 DEF due
<1> QED BY <1>5, <1>6

LEMMA ConfigTyped == \A c \in Configs : c \in Settings
BY ConfigAssumption

LEMMA TriggersTyped ==
    ASSUME NEW c \in Configs, NEW interval \in 1..Day, clock \in 0..(Day - 1)
    PROVE  /\ SyncTrigger(interval, c) \in SyncTriggers
           /\ CatalogTrigger(c) \in CatalogTriggers
           /\ DigestTrigger(c) \in DigestTriggers
<1>1. /\ c.interval \in 1..Day /\ c.offset \in 0..(Hour - 1) /\ c.zone \in Zones
      /\ c.hourly \in BOOLEAN /\ c.hour \in Hours /\ c.minute \in 0..(Hour - 1)
    BY ConfigTyped DEF Settings
<1>2. Day \in Nat \ {0} /\ Hour \in 1..Day BY DayAssumption
<1>3. SyncTrigger(interval, c) \in SyncTriggers
    BY <1>1, FirstFireOnGrid DEF SyncTrigger, SyncTriggers
<1> DEFINE hours == Day \div Hour
<1>4. hours \in Nat /\ hours # 0
  <2>1. hours \in Int BY <1>2
  <2>2. Hours = 0..(hours - 1) BY DEF Hours
  <2> HIDE DEF hours
  <2>3. c.hour >= 0 /\ c.hour <= hours - 1 BY <1>1, <2>1, <2>2
  <2> QED BY <1>1, <2>1, <2>2, <2>3
<1>5. HourOf(c) \in Hours BY <1>1, HourAssumption DEF HourOf
<1>6. 0 \in Hours /\ 0 \in 0..(Hour - 1)
  <2> HIDE DEF hours
  <2>1. 0 \in 0..(hours - 1) BY <1>4
  <2> QED BY <1>2, <2>1 DEF Hours, hours
<1>7. CatalogTrigger(c) \in CatalogTriggers
    BY <1>1, <1>5, <1>6 DEF CatalogTrigger, CatalogTriggers
<1>8. (HourOf(c) + 1) % hours \in Hours
  <2>1. hours \in Nat \ {0} BY <1>4
  <2>2. HourOf(c) + 1 \in Int BY <1>5 DEF Hours
  <2> HIDE DEF hours
  <2>3. (HourOf(c) + 1) % hours \in 0..(hours - 1) BY <2>1, <2>2, RemainderTyped
  <2> QED BY <2>3 DEF Hours, hours
<1>9. DigestTrigger(c) \in DigestTriggers
    BY <1>1, <1>8 DEF DigestTrigger, DigestTriggers
<1> QED BY <1>3, <1>7, <1>9

\* A fresh trigger is on the grid.
LEMMA FreshOnGrid ==
    ASSUME NEW c \in Configs, NEW interval \in 1..Day, clock \in 0..(Day - 1),
           clock' = clock, sync' = SyncTrigger(interval, c)
    PROVE  OnTheGrid'
<1>1. c.offset \in 0..(Hour - 1) /\ c.zone \in Zones BY ConfigTyped DEF Settings
<1>2. /\ sync'.interval = interval /\ sync'.offset = c.offset /\ sync'.zone = c.zone
      /\ sync'.due = FirstFire(interval, c.offset, c.zone)
    BY DEF SyncTrigger
<1>3. Day % interval = 0 =>
          (clock + FirstFire(interval, c.offset, c.zone) - c.zone - c.offset) % interval = 0
    BY <1>1, FirstFireOnGrid
<1> QED BY <1>2, <1>3 DEF OnTheGrid

LEMMA IdleTyped == [t \in Threads |-> Idle] \in [Threads -> Passes]
<1>1. (CHOOSE c \in Configs : TRUE) \in Configs BY ConfigAssumption
<1> QED BY <1>1 DEF Idle, Passes

LEMMA MovesTyped ==
    ASSUME TypeOK, NEW t \in Threads, NEW at, Moves(t, at),
           at \in {"none", "run", "begin", "compare", "sync", "daily", "catalog", "digest"}
    PROVE  /\ pass' \in [Threads -> Passes]
           /\ pass'[t].at = at /\ pass'[t].read = pass[t].read
           /\ \A s \in Threads \ {t} : pass'[s] = pass[s]
BY DEF TypeOK, Moves, Passes

\* A pass that has read the settings.
LEMMA ReadTyped ==
    ASSUME TypeOK, NEW t \in Threads, NEW at,
           at \in {"compare", "catalog"}, pass' = [pass EXCEPT ![t] = [at |-> at, read |-> cfg]]
    PROVE  /\ pass' \in [Threads -> Passes]
           /\ pass'[t].at = at /\ pass'[t].read = cfg
           /\ \A s \in Threads \ {t} : pass'[s] = pass[s]
BY DEF TypeOK, Passes

LEMMA ReadIsConfig ==
    ASSUME TypeOK, NEW t \in Threads
    PROVE  pass[t].read \in Configs /\ pass[t].read.interval \in 1..Day
<1>1. pass[t].read \in Configs BY DEF TypeOK, Passes
<1> QED BY <1>1, ConfigTyped DEF Settings

-----------------------------------------------------------------------------
(* What keeps Alone. *)

\* A step that leaves settings and timetable alone, and every pass that applies.
LEMMA AloneKept ==
    ASSUME Alone, UNCHANGED <<cfg, up, catalog, digest, crossed>>,
           sync'.interval = sync.interval, sync'.offset = sync.offset, sync'.zone = sync.zone,
           \A t \in Threads : pass'[t] = pass[t] \/ (~Applying(t) /\ ~Applying(t)')
    PROVE  Alone'
<1>1. \A t \in Threads : Applying(t)' => Applying(t) /\ pass'[t] = pass[t] BY DEF Applying
<1>2. \A t \in Threads : Applying(t) => Applying(t)' BY DEF Applying
<1>3. SyncInStep' = SyncInStep BY DEF SyncInStep
<1>4. CatalogTrigger(cfg)' = CatalogTrigger(cfg) /\ DigestTrigger(cfg)' = DigestTrigger(cfg)
    BY DEF CatalogTrigger, DigestTrigger, HourOf
<1>5. InStep' = InStep BY <1>4 DEF InStep
<1>6. \A t \in Threads : Applying(t)' /\ Progress(t) => Progress(t)'
    BY <1>1, <1>3, <1>4 DEF Progress
<1> QED BY <1>1, <1>2, <1>5, <1>6 DEF Alone

\* A pass that begins.
LEMMA AloneBegins ==
    ASSUME NEW t \in Threads, Crossing(t), pass'[t].at = "begin",
           \A s \in Threads \ {t} : pass'[s] = pass[s]
    PROVE  Alone'
<1> SUFFICES ASSUME ~crossed' PROVE Alone' BY DEF Alone
<1>1. \A s \in Threads \ {t} : ~Applying(s)' BY DEF Crossing, Applying
<1>2. Applying(t)' /\ Progress(t)' BY DEF Applying, Progress
<1> QED BY <1>1, <1>2 DEF Alone

\* A pass that met no other takes a step.
LEMMA AloneGoesOn ==
    ASSUME Alone, NEW t \in Threads, Applying(t), UNCHANGED <<up, crossed>>,
           \A s \in Threads \ {t} : pass'[s] = pass[s],
           up /\ ~crossed /\ Progress(t) => IF Applying(t)' THEN Progress(t)' ELSE InStep'
    PROVE  Alone'
<1> SUFFICES ASSUME up, ~crossed PROVE Alone' BY DEF Alone
<1>1. Progress(t) /\ \A s \in Threads \ {t} : ~Applying(s) BY DEF Alone
<1>2. \A s \in Threads \ {t} : ~Applying(s)' BY <1>1 DEF Applying
<1> QED BY <1>1, <1>2 DEF Alone

-----------------------------------------------------------------------------
(* The steps. *)

LEMMA InitKeeps == Init => IInv
<1> SUFFICES ASSUME Init PROVE IInv OBVIOUS
<1>1. clock \in 0..(Day - 1) BY DayAssumption DEF Init
<1>2. cfg \in Configs /\ cfg.interval \in 1..Day BY ConfigTyped DEF Init, Settings
<1>3. TypeOK BY <1>1, <1>2, TriggersTyped, IdleTyped DEF Init, TypeOK
<1>4. OnTheGrid
  <2>1. cfg.offset \in 0..(Hour - 1) /\ cfg.zone \in Zones BY <1>2, ConfigTyped DEF Settings
  <2>2. /\ sync.interval = cfg.interval /\ sync.offset = cfg.offset /\ sync.zone = cfg.zone
        /\ sync.due = FirstFire(cfg.interval, cfg.offset, cfg.zone)
      BY DEF Init, SyncTrigger
  <2>3. Day % cfg.interval = 0 =>
          (clock + FirstFire(cfg.interval, cfg.offset, cfg.zone) - cfg.zone - cfg.offset) % cfg.interval = 0
      BY <1>1, <1>2, <2>1, FirstFireOnGrid
  <2> QED BY <2>2, <2>3 DEF OnTheGrid
<1>5. \A t \in Threads : pass[t].at = "none" BY DEF Init, Idle
<1>6. InStep BY DEF Init, InStep, SyncTrigger
<1> QED BY <1>3, <1>4, <1>5, <1>6 DEF IInv, Alone, DownIsIdle, Applying

LEMMA TickKeeps == IInv /\ Tick => IInv'
<1> SUFFICES ASSUME IInv, Tick PROVE IInv' OBVIOUS
<1> USE DEF IInv
<1>1. /\ clock \in 0..(Day - 1) /\ Day \in Nat \ {0} /\ sync \in SyncTriggers
    BY DayAssumption DEF TypeOK
<1>2. clock' = (clock + 1) % Day /\ clock' \in 0..(Day - 1) BY <1>1, RemainderTyped DEF Tick
<1>3. /\ sync'.interval = sync.interval /\ sync'.offset = sync.offset /\ sync'.zone = sync.zone
      /\ sync'.due = IF up THEN sync.due - 1 ELSE sync.due
    BY <1>1 DEF Tick, SyncTriggers
<1>4. sync' \in SyncTriggers BY <1>1 DEF Tick, SyncTriggers
<1>5. TypeOK' BY <1>2, <1>4 DEF TypeOK, Tick
<1>6. OnTheGrid'
  <2> SUFFICES ASSUME up, Day % sync.interval = 0
               PROVE  (clock' + sync'.due - sync.zone - sync.offset) % sync.interval = 0
      BY <1>3 DEF OnTheGrid, Tick
  <2> DEFINE n == sync.interval
             sum == clock + sync.due - sync.zone - sync.offset
             wrap == (clock + 1) - clock'
  <2>1. /\ n \in Nat \ {0} /\ sync.due \in Int /\ sync.zone \in Int /\ sync.offset \in Int
        /\ clock \in Int /\ clock' \in Int /\ clock + 1 \in Int
      BY <1>1, <1>2, DayAssumption DEF SyncTriggers, Zones
  <2>2. sum % n = 0 BY DEF OnTheGrid
  <2>3. wrap % Day = 0 BY <1>1, <1>2, <2>1, LessRemainder
  <2>4. sum \in Int /\ wrap \in Int BY <2>1
  <2>5. wrap % n = 0 BY <2>1, <2>3, <2>4, DaysAreMultiples
  <2>6. (sum - wrap) % n = 0
    <3> HIDE DEF sum, wrap, n
    <3> QED BY <2>1, <2>2, <2>4, <2>5, SumIsZero
  <2>7. clock' + sync'.due - sync.zone - sync.offset = sum - wrap BY <1>3, <2>1
  <2> QED BY <2>6, <2>7
<1>7. Alone' BY <1>3, AloneKept DEF Tick
<1>8. DownIsIdle' BY DEF DownIsIdle, Tick
<1> QED BY <1>5, <1>6, <1>7, <1>8

LEMMA SyncFiresKeeps == IInv /\ SyncFires => IInv'
<1> SUFFICES ASSUME IInv, SyncFires PROVE IInv' OBVIOUS
<1> USE DEF IInv
<1>1. sync \in SyncTriggers /\ clock \in 0..(Day - 1) /\ Day \in Nat \ {0}
    BY DayAssumption DEF TypeOK
<1>2. /\ sync'.interval = sync.interval /\ sync'.offset = sync.offset /\ sync'.zone = sync.zone
      /\ sync'.due = sync.interval /\ sync.due = 0
    BY <1>1 DEF SyncFires, SyncTriggers
<1>3. sync' \in SyncTriggers BY <1>1 DEF SyncFires, SyncTriggers
<1>4. "job" \in Threads BY DEF Threads
<1>5. /\ pass' \in [Threads -> Passes]
      /\ \A t \in Threads : pass'[t] = pass[t] \/ (~Applying(t) /\ ~Applying(t)')
  <2>1. CASE pass["job"].at = "none" /\ Moves("job", "run")
    <3>1. /\ pass' \in [Threads -> Passes] /\ pass'["job"].at = "run"
          /\ \A s \in Threads \ {"job"} : pass'[s] = pass[s]
        BY <1>4, <2>1, MovesTyped
    <3>2. ~Applying("job") /\ ~Applying("job")' BY <2>1, <3>1 DEF Applying
    <3> QED BY <3>1, <3>2
  <2>2. CASE UNCHANGED pass BY <2>2 DEF TypeOK
  <2> QED BY <2>1, <2>2 DEF SyncFires
<1>6. TypeOK' BY <1>3, <1>5 DEF TypeOK, SyncFires
<1>7. OnTheGrid'
  <2> SUFFICES ASSUME Day % sync.interval = 0
               PROVE  (clock + sync.interval - sync.zone - sync.offset) % sync.interval = 0
      BY <1>2 DEF OnTheGrid, SyncFires
  <2> DEFINE n == sync.interval
             sum == clock + sync.due - sync.zone - sync.offset
  <2>1. /\ n \in Nat \ {0} /\ n \in Int /\ sync.zone \in Int /\ sync.offset \in Int /\ clock \in Int
      BY <1>1, DayAssumption DEF SyncTriggers, Zones
  <2>2. sum % n = 0 BY DEF OnTheGrid, SyncFires
  <2>3. sum \in Int BY <1>2, <2>1
  <2>4. clock + n - sync.zone - sync.offset = sum + n BY <1>2, <2>1
  <2>5. (sum + n) % n = 0
    <3> HIDE DEF sum, n
    <3> QED BY <2>1, <2>2, <2>3, OwnMultiple, SumIsZero
  <2> QED BY <2>4, <2>5
<1>8. Alone' BY <1>2, <1>5, AloneKept DEF SyncFires
<1>9. DownIsIdle' BY DEF DownIsIdle, SyncFires
<1> QED BY <1>6, <1>7, <1>8, <1>9

\* The triggers and the clock are left alone.
LEMMA GridKept == OnTheGrid /\ UNCHANGED <<clock, up, sync>> => OnTheGrid'
BY DEF OnTheGrid

LEMMA RunEndsKeeps == IInv /\ RunEnds => IInv'
<1> SUFFICES ASSUME IInv, RunEnds PROVE IInv' OBVIOUS
<1> USE DEF IInv
<1>1. "job" \in Threads BY DEF Threads
<1>2. /\ pass' \in [Threads -> Passes] /\ pass'["job"].at = "begin"
      /\ \A s \in Threads \ {"job"} : pass'[s] = pass[s]
    BY <1>1, MovesTyped DEF RunEnds
<1>3. crossed' \in BOOLEAN BY DEF RunEnds, Crossing
<1>4. TypeOK' BY <1>2, <1>3 DEF TypeOK, RunEnds, triggers
<1>5. OnTheGrid' BY GridKept DEF RunEnds, triggers
<1>6. Alone' BY <1>1, <1>2, AloneBegins DEF RunEnds
<1>7. DownIsIdle' BY <1>1 DEF DownIsIdle, RunEnds
<1> QED BY <1>4, <1>5, <1>6, <1>7

LEMMA RunEndsEarlyKeeps == IInv /\ RunEndsEarly => IInv'
<1> SUFFICES ASSUME IInv, RunEndsEarly PROVE IInv' OBVIOUS
<1> USE DEF IInv
<1>1. "job" \in Threads BY DEF Threads
<1>2. /\ pass' \in [Threads -> Passes] /\ pass'["job"].at = "none"
      /\ \A s \in Threads \ {"job"} : pass'[s] = pass[s]
    BY <1>1, MovesTyped DEF RunEndsEarly
<1>3. TypeOK' BY <1>2 DEF TypeOK, RunEndsEarly, triggers
<1>4. OnTheGrid' BY GridKept DEF RunEndsEarly, triggers
<1>5. ~Applying("job") /\ ~Applying("job")' BY <1>2 DEF Applying, RunEndsEarly
<1>6. Alone' BY <1>2, <1>5, AloneKept DEF RunEndsEarly, triggers
<1>7. DownIsIdle' BY <1>1 DEF DownIsIdle, RunEndsEarly
<1> QED BY <1>3, <1>4, <1>6, <1>7

LEMMA SaveKeeps == ASSUME NEW c \in Configs, IInv, Save(c) PROVE IInv'
<1> USE DEF IInv
<1>1. "page" \in Threads BY DEF Threads
<1>2. /\ pass' \in [Threads -> Passes] /\ pass'["page"].at = "begin"
      /\ \A s \in Threads \ {"page"} : pass'[s] = pass[s]
    BY <1>1, MovesTyped DEF Save
<1>3. crossed' \in BOOLEAN BY DEF Save, Crossing
<1>4. TypeOK' BY <1>2, <1>3 DEF TypeOK, Save, triggers
<1>5. OnTheGrid' BY GridKept DEF Save, triggers
<1>6. Alone' BY <1>1, <1>2, AloneBegins DEF Save
<1>7. DownIsIdle' BY DEF DownIsIdle, Save
<1> QED BY <1>4, <1>5, <1>6, <1>7

\* The six steps of a pass have in common that the process is up.
LEMMA AppliesUp ==
    ASSUME DownIsIdle, NEW t \in Threads, Applying(t), up' = up
    PROVE  up /\ DownIsIdle'
BY DEF DownIsIdle, Applying

LEMMA ReadIntervalKeeps == ASSUME IInv, NEW t \in Threads, ReadInterval(t) PROVE IInv'
<1> USE DEF IInv
<1>1. /\ pass' \in [Threads -> Passes] /\ pass'[t].at = "compare" /\ pass'[t].read = cfg
      /\ \A s \in Threads \ {t} : pass'[s] = pass[s]
    BY ReadTyped DEF ReadInterval
<1>2. Applying(t) /\ Applying(t)' BY <1>1 DEF Applying, ReadInterval
<1>3. TypeOK' BY <1>1 DEF TypeOK, ReadInterval, triggers
<1>4. OnTheGrid' BY GridKept DEF ReadInterval, triggers
<1>5. Progress(t)' BY <1>1 DEF Progress, ReadInterval
<1>6. Alone' BY <1>1, <1>2, <1>5, AloneGoesOn DEF ReadInterval
<1>7. DownIsIdle' BY <1>2, AppliesUp DEF ReadInterval
<1> QED BY <1>3, <1>4, <1>6, <1>7

LEMMA CompareKeeps == ASSUME IInv, NEW t \in Threads, Compare(t) PROVE IInv'
<1> USE DEF IInv
<1> DEFINE to == IF Differs(pass[t].read.interval) THEN "sync" ELSE "daily"
<1>1. /\ pass' \in [Threads -> Passes] /\ pass'[t].at = to /\ pass'[t].read = pass[t].read
      /\ \A s \in Threads \ {t} : pass'[s] = pass[s]
    BY MovesTyped DEF Compare
<1>2. Applying(t) /\ Applying(t)' BY <1>1 DEF Applying, Compare
<1>3. TypeOK' BY <1>1 DEF TypeOK, Compare, triggers
<1>4. OnTheGrid' BY GridKept DEF Compare, triggers
<1>5. Progress(t) => Progress(t)'
  <2> SUFFICES ASSUME Progress(t) PROVE Progress(t)' OBVIOUS
  <2>1. pass[t].read = cfg /\ UNCHANGED <<cfg, sync>> BY DEF Progress, Compare, triggers
  <2>2. to = "daily" => SyncInStep BY <2>1 DEF Differs, SyncInStep
  <2> QED BY <1>1, <2>1, <2>2 DEF Progress, SyncInStep
<1>6. Alone' BY <1>1, <1>2, <1>5, AloneGoesOn DEF Compare
<1>7. DownIsIdle' BY <1>2, AppliesUp DEF Compare
<1> QED BY <1>3, <1>4, <1>6, <1>7

LEMMA SetSyncKeeps == ASSUME IInv, NEW t \in Threads, SetSync(t) PROVE IInv'
<1> USE DEF IInv
<1>1. /\ pass' \in [Threads -> Passes] /\ pass'[t].at = "daily" /\ pass'[t].read = pass[t].read
      /\ \A s \in Threads \ {t} : pass'[s] = pass[s]
    BY MovesTyped DEF SetSync
<1>2. Applying(t) /\ Applying(t)' BY <1>1 DEF Applying, SetSync
<1>3. cfg \in Configs /\ clock \in 0..(Day - 1) /\ clock' = clock BY DEF TypeOK, SetSync
<1>4. pass[t].read.interval \in 1..Day BY ReadIsConfig
<1>5. sync' \in SyncTriggers BY <1>3, <1>4, TriggersTyped DEF SetSync
<1>6. TypeOK' BY <1>1, <1>5 DEF TypeOK, SetSync
<1>7. OnTheGrid' BY <1>3, <1>4, FreshOnGrid DEF SetSync
<1>8. Progress(t) => Progress(t)'
    BY <1>1 DEF Progress, SetSync, SyncInStep, SyncTrigger
<1>9. Alone' BY <1>1, <1>2, <1>8, AloneGoesOn DEF SetSync
<1>10. DownIsIdle' BY <1>2, AppliesUp DEF SetSync
<1> QED BY <1>6, <1>7, <1>9, <1>10

LEMMA ReadDailyKeeps == ASSUME IInv, NEW t \in Threads, ReadDaily(t) PROVE IInv'
<1> USE DEF IInv
<1>1. /\ pass' \in [Threads -> Passes] /\ pass'[t].at = "catalog" /\ pass'[t].read = cfg
      /\ \A s \in Threads \ {t} : pass'[s] = pass[s]
    BY ReadTyped DEF ReadDaily
<1>2. Applying(t) /\ Applying(t)' BY <1>1 DEF Applying, ReadDaily
<1>3. TypeOK' BY <1>1 DEF TypeOK, ReadDaily, triggers
<1>4. OnTheGrid' BY GridKept DEF ReadDaily, triggers
<1>5. Progress(t) => Progress(t)'
    BY <1>1 DEF Progress, ReadDaily, SyncInStep, triggers
<1>6. Alone' BY <1>1, <1>2, <1>5, AloneGoesOn DEF ReadDaily
<1>7. DownIsIdle' BY <1>2, AppliesUp DEF ReadDaily
<1> QED BY <1>3, <1>4, <1>6, <1>7

LEMMA SetCatalogKeeps == ASSUME IInv, NEW t \in Threads, SetCatalog(t) PROVE IInv'
<1> USE DEF IInv
<1>1. /\ pass' \in [Threads -> Passes] /\ pass'[t].at = "digest" /\ pass'[t].read = pass[t].read
      /\ \A s \in Threads \ {t} : pass'[s] = pass[s]
    BY MovesTyped DEF SetCatalog
<1>2. Applying(t) /\ Applying(t)' BY <1>1 DEF Applying, SetCatalog
<1>3. catalog' = CatalogTrigger(pass[t].read) BY DEF SetCatalog, SameCatalog
<1>4. catalog' \in CatalogTriggers
    BY <1>3, ReadIsConfig, TriggersTyped DEF TypeOK
<1>5. TypeOK' BY <1>1, <1>4 DEF TypeOK, SetCatalog
<1>6. OnTheGrid' BY GridKept DEF SetCatalog
<1>7. Progress(t) => Progress(t)'
  <2> SUFFICES ASSUME Progress(t) PROVE Progress(t)' OBVIOUS
  <2>1. pass[t].read = cfg /\ SyncInStep /\ UNCHANGED <<cfg, sync>> BY DEF Progress, SetCatalog
  <2>2. catalog' = CatalogTrigger(cfg)' BY <1>3, <2>1 DEF CatalogTrigger, HourOf
  <2> QED BY <1>1, <2>1, <2>2 DEF Progress, SyncInStep
<1>8. Alone' BY <1>1, <1>2, <1>7, AloneGoesOn DEF SetCatalog
<1>9. DownIsIdle' BY <1>2, AppliesUp DEF SetCatalog
<1> QED BY <1>5, <1>6, <1>8, <1>9

LEMMA SetDigestKeeps == ASSUME IInv, NEW t \in Threads, SetDigest(t) PROVE IInv'
<1> USE DEF IInv
<1>1. /\ pass' \in [Threads -> Passes] /\ pass'[t].at = "none" /\ pass'[t].read = pass[t].read
      /\ \A s \in Threads \ {t} : pass'[s] = pass[s]
    BY MovesTyped DEF SetDigest
<1>2. Applying(t) /\ ~Applying(t)' BY <1>1 DEF Applying, SetDigest
<1>3. digest' \in DigestTriggers
  <2>1. pass[t].read \in Configs /\ pass[t].read.interval \in 1..Day BY ReadIsConfig
  <2> QED BY <2>1, TriggersTyped DEF TypeOK, SetDigest
<1>4. TypeOK' BY <1>1, <1>3 DEF TypeOK, SetDigest
<1>5. OnTheGrid' BY GridKept DEF SetDigest
<1>6. Progress(t) => InStep'
  <2> SUFFICES ASSUME Progress(t) PROVE InStep' OBVIOUS
  <2>1. /\ pass[t].read = cfg /\ SyncInStep /\ catalog = CatalogTrigger(cfg)
        /\ UNCHANGED <<cfg, sync, catalog>>
      BY DEF Progress, SetDigest
  <2>2. digest' = DigestTrigger(cfg)' BY <2>1 DEF SetDigest, DigestTrigger, HourOf
  <2>3. catalog' = CatalogTrigger(cfg)' BY <2>1 DEF CatalogTrigger, HourOf
  <2> QED BY <2>1, <2>2, <2>3 DEF InStep, SyncInStep
<1>7. Alone' BY <1>1, <1>2, <1>6, AloneGoesOn DEF SetDigest
<1>8. DownIsIdle' BY <1>2, AppliesUp DEF SetDigest
<1> QED BY <1>4, <1>5, <1>7, <1>8

LEMMA StopKeeps == IInv /\ Stop => IInv'
<1> SUFFICES ASSUME IInv, Stop PROVE IInv' OBVIOUS
<1> USE DEF IInv
<1>1. TypeOK' BY IdleTyped DEF TypeOK, Stop, triggers
<1>2. OnTheGrid' /\ Alone' BY DEF OnTheGrid, Alone, Stop
<1>3. DownIsIdle' BY DEF DownIsIdle, Stop, Idle
<1> QED BY <1>1, <1>2, <1>3

LEMMA StartKeeps == IInv /\ Start => IInv'
<1> SUFFICES ASSUME IInv, Start PROVE IInv' OBVIOUS
<1> USE DEF IInv
<1>1. cfg \in Configs /\ cfg.interval \in 1..Day /\ clock \in 0..(Day - 1)
    BY ConfigTyped DEF TypeOK, Settings
<1>2. TypeOK' BY <1>1, TriggersTyped DEF TypeOK, Start
<1>3. OnTheGrid' BY <1>1, FreshOnGrid DEF Start
<1>4. DownIsIdle' BY DEF DownIsIdle, Start
<1>5. Alone'
  <2>1. \A t \in Threads : ~Applying(t)' BY DEF DownIsIdle, Applying, Start
  <2>2. sync'.interval = cfg.interval /\ sync'.offset = cfg.offset /\ sync'.zone = cfg.zone
      BY DEF Start, SyncTrigger
  <2>3. catalog' = CatalogTrigger(cfg)' /\ digest' = DigestTrigger(cfg)'
      BY DEF Start, CatalogTrigger, DigestTrigger, HourOf
  <2>4. InStep' BY <2>2, <2>3 DEF InStep, Start
  <2> QED BY <2>1, <2>4 DEF Alone
<1> QED BY <1>2, <1>3, <1>4, <1>5

LEMMA StutterKeeps == IInv /\ UNCHANGED vars => IInv'
<1> SUFFICES ASSUME IInv, UNCHANGED vars PROVE IInv' OBVIOUS
<1> USE DEF IInv
<1>1. UNCHANGED <<clock, cfg, up, sync, catalog, digest, pass, crossed>> BY DEF vars, triggers
<1>2. TypeOK' /\ DownIsIdle' BY <1>1 DEF TypeOK, DownIsIdle
<1>3. OnTheGrid' BY <1>1, GridKept
<1>4. Alone' BY <1>1, AloneKept
<1> QED BY <1>2, <1>3, <1>4

LEMMA StepKeeps == IInv /\ [Next]_vars => IInv'
<1> SUFFICES ASSUME IInv, [Next]_vars PROVE IInv' OBVIOUS
<1>1. CASE Tick BY <1>1, TickKeeps
<1>2. CASE SyncFires BY <1>2, SyncFiresKeeps
<1>3. CASE RunEnds BY <1>3, RunEndsKeeps
<1>4. CASE RunEndsEarly BY <1>4, RunEndsEarlyKeeps
<1>5. CASE Stop BY <1>5, StopKeeps
<1>6. CASE Start BY <1>6, StartKeeps
<1>7. CASE \E c \in Configs : Save(c) BY <1>7, SaveKeeps
<1>8. ASSUME NEW t \in Threads, Apply(t) PROVE IInv'
    BY <1>8, ReadIntervalKeeps, CompareKeeps, SetSyncKeeps, ReadDailyKeeps, SetCatalogKeeps,
       SetDigestKeeps DEF Apply
<1>9. CASE UNCHANGED vars BY <1>9, StutterKeeps
<1> QED BY <1>1, <1>2, <1>3, <1>4, <1>5, <1>6, <1>7, <1>8, <1>9 DEF Next

LEMMA AlwaysIInv == Spec => []IInv
<1>1. Init => IInv BY InitKeeps
<1>2. IInv /\ [Next]_vars => IInv' BY StepKeeps
<1> QED BY <1>1, <1>2, PTL DEF Spec

-----------------------------------------------------------------------------
(* The theorems. *)

\* Clock, triggers and passes stay in their sets: in particular no check is ever more than
\* a day away, and no trigger asks for an hour the day does not have.
\* (_sync_trigger, _catalog_trigger, _digest_trigger)
THEOREM TypeCorrect == Spec => []TypeOK
<1>1. IInv => TypeOK BY DEF IInv
<1> QED BY <1>1, AlwaysIInv, PTL

\* With an interval that divides the day the checks stay on the grid of midnight plus the
\* offset, over midnight, restarts, and every crossing of saves with ends of runs.
\* (_sync_trigger, start, apply_schedule_settings)
THEOREM ChecksStayOnTheGrid == Spec => []OnTheGrid
<1>1. IInv => OnTheGrid BY DEF IInv
<1> QED BY <1>1, AlwaysIInv, PTL

\* Outside a pass, the timetable is that of the settings, unless two passes have met since
\* one last ran alone.  (save_settings, apply_schedule_settings)
THEOREM OnlyCrossingIsLate == Spec => []LateOnlyAfterCrossing
<1>1. IInv => LateOnlyAfterCrossing BY DEF IInv, Alone, LateOnlyAfterCrossing
<1> QED BY <1>1, AlwaysIInv, PTL
=============================================================================
