----------------------------- MODULE Timetable -----------------------------
(***************************************************************************)
(* When the jobs of the scheduler fire, and how a change of the settings   *)
(* reaches it.  apply_schedule_settings compares the settings, read one    *)
(* after another, with the live triggers and replaces what differs; it is  *)
(* called from the page that saves the settings and, in a thread of the    *)
(* scheduler, at the end of a run.  Time is counted in ticks of a day that *)
(* repeats; a trigger knows how many ticks away its next time is.          *)
(***************************************************************************)
EXTENDS Integers

CONSTANTS
    Day,          \* ticks of a day
    Hour,         \* ticks of an hour
    DefaultHour,  \* what an unset catalog_refresh_hour means
    Configs       \* the settings an operator may save

Zones == 0..(Day - 1)
Hours == 0..(Day \div Hour - 1)
Settings == [interval: 1..Day, offset: 0..(Hour - 1), zone: Zones,
             hourly: BOOLEAN, hour: Hours, minute: 0..(Hour - 1)]

ASSUME DayAssumption == Day \in Nat \ {0} /\ Hour \in 1..Day /\ Day % Hour = 0
ASSUME HourAssumption == DefaultHour \in Hours
ASSUME ConfigAssumption == Configs \subseteq Settings /\ Configs # {}

VARIABLES
    clock,    \* the tick of the day
    cfg,      \* the settings, committed
    up,       \* the process with the scheduler runs
    sync,     \* the trigger of the sync, and the ticks until it fires
    catalog,  \* the trigger of the catalogue refresh
    digest,   \* the trigger of the daily summary
    pass,     \* where the page, and the job, are in applying the settings
    crossed   \* history: passes overlapped since one last ran alone

triggers == <<sync, catalog, digest>>
vars == <<clock, cfg, up, triggers, pass, crossed>>

Threads == {"page", "job"}

SyncTriggers == [interval: 1..Day, offset: 0..(Hour - 1), zone: Zones, due: 0..Day]
CatalogTriggers == [hourly: BOOLEAN, hour: Hours, minute: 0..(Hour - 1), zone: Zones]
DigestTriggers == [hour: Hours, zone: Zones]

\* read: the settings a pass has read, the interval first.
Passes == [at: {"none", "run", "begin", "compare", "sync", "daily", "catalog", "digest"},
           read: Configs]

TypeOK ==
    /\ clock \in 0..(Day - 1)
    /\ cfg \in Configs
    /\ up \in BOOLEAN /\ crossed \in BOOLEAN
    /\ sync \in SyncTriggers /\ catalog \in CatalogTriggers /\ digest \in DigestTriggers
    /\ pass \in [Threads -> Passes]

-----------------------------------------------------------------------------
(* The triggers. *)

\* A mutant of FirstFire: counted from the start of the process.
FirstFireFromNow(interval, offset, zone) == interval

\* The next time on the grid that is anchored at midnight plus the offset; a time that is
\* now has just passed.
FirstFire(interval, offset, zone) ==
    LET past == ((clock - zone) % Day) - offset
    IN  IF past < 0 THEN -past ELSE interval - (past % interval)

SyncTrigger(interval, c) == [interval |-> interval, offset |-> c.offset, zone |-> c.zone,
                             due |-> FirstFire(interval, c.offset, c.zone)]

\* get(...) or 3: zero counts as unset.
HourOf(c) == IF c.hour = 0 THEN DefaultHour ELSE c.hour

\* hour and minute where the cron expression has them; the rest is zero.
CatalogTrigger(c) == [hourly |-> c.hourly, hour |-> IF c.hourly THEN 0 ELSE HourOf(c),
                      minute |-> IF c.hourly THEN c.minute ELSE 0, zone |-> c.zone]

DigestTrigger(c) == [hour |-> (HourOf(c) + 1) % (Day \div Hour), zone |-> c.zone]

Idle == [at |-> "none", read |-> CHOOSE c \in Configs : TRUE]

Init ==
    /\ clock = 0
    /\ cfg \in Configs
    /\ up = TRUE
    /\ sync = SyncTrigger(cfg.interval, cfg)
    /\ catalog = CatalogTrigger(cfg) /\ digest = DigestTrigger(cfg)
    /\ pass = [t \in Threads |-> Idle]
    /\ crossed = FALSE

-----------------------------------------------------------------------------
(* Time, the job and the page. *)

Tick ==
    /\ up => sync.due > 0
    /\ clock' = (clock + 1) % Day
    /\ sync' = IF up THEN [sync EXCEPT !.due = @ - 1] ELSE sync
    /\ UNCHANGED <<cfg, up, catalog, digest, pass, crossed>>

Applying(t) == pass[t].at \notin {"none", "run"}
Moves(t, at) == pass' = [pass EXCEPT ![t].at = at]

\* A pass that meets no other clears what an earlier meeting left.
Crossing(t) == crossed' = \E s \in Threads \ {t} : Applying(s)

\* After a first time the next one is counted from the previous.  The job steps aside
\* if the run lock is held, and is not started while it still runs.
SyncFires ==
    /\ up /\ sync.due = 0
    /\ sync' = [sync EXCEPT !.due = sync.interval]
    /\ \/ pass["job"].at = "none" /\ Moves("job", "run")
       \/ UNCHANGED pass
    /\ UNCHANGED <<clock, cfg, up, catalog, digest, crossed>>

\* The end of job_sync.
RunEnds ==
    /\ pass["job"].at = "run"
    /\ Moves("job", "begin") /\ Crossing("job")
    /\ UNCHANGED <<clock, cfg, up, triggers>>

\* No vendor is configured, or an exception ends the job.
RunEndsEarly ==
    /\ pass["job"].at = "run"
    /\ Moves("job", "none")
    /\ UNCHANGED <<clock, cfg, up, triggers, crossed>>

\* save_settings: the commit, then the pass.
Save(c) ==
    /\ up /\ pass["page"].at = "none"
    /\ cfg' = c
    /\ Moves("page", "begin") /\ Crossing("page")
    /\ UNCHANGED <<clock, up, triggers>>

-----------------------------------------------------------------------------
(* apply_schedule_settings in thread t. *)

ReadInterval(t) ==
    /\ pass[t].at = "begin"
    /\ pass' = [pass EXCEPT ![t] = [at |-> "compare", read |-> cfg]]
    /\ UNCHANGED <<clock, cfg, up, triggers, crossed>>

\* A mutant of Differs: the first version, which compared one of three.
DiffersInterval(interval) == sync.interval # interval

Differs(interval) ==
    sync.interval # interval \/ sync.offset # cfg.offset \/ sync.zone # cfg.zone

Compare(t) ==
    /\ pass[t].at = "compare"
    /\ Moves(t, IF Differs(pass[t].read.interval) THEN "sync" ELSE "daily")
    /\ UNCHANGED <<clock, cfg, up, triggers, crossed>>

\* _sync_trigger reads offset and zone once more; the interval is the one read before.
SetSync(t) ==
    /\ pass[t].at = "sync"
    /\ sync' = SyncTrigger(pass[t].read.interval, cfg)
    /\ Moves(t, "daily")
    /\ UNCHANGED <<clock, cfg, up, catalog, digest, crossed>>

ReadDaily(t) ==
    /\ pass[t].at = "daily"
    /\ pass' = [pass EXCEPT ![t] = [at |-> "catalog", read |-> cfg]]
    /\ UNCHANGED <<clock, cfg, up, triggers, crossed>>

\* A mutant of SameCatalog: the hour alone is compared.
SameCatalogHour(new) == catalog.hour = new.hour

\* The triggers are compared whole.
SameCatalog(new) == catalog = new

SetCatalog(t) ==
    /\ pass[t].at = "catalog"
    /\ LET new == CatalogTrigger(pass[t].read) IN catalog' = IF SameCatalog(new) THEN catalog ELSE new
    /\ Moves(t, "digest")
    /\ UNCHANGED <<clock, cfg, up, sync, digest, crossed>>

SetDigest(t) ==
    /\ pass[t].at = "digest"
    /\ digest' = DigestTrigger(pass[t].read)
    /\ Moves(t, "none")
    /\ UNCHANGED <<clock, cfg, up, sync, catalog, crossed>>

-----------------------------------------------------------------------------
Stop ==
    /\ up /\ up' = FALSE
    /\ pass' = [t \in Threads |-> Idle]
    /\ UNCHANGED <<clock, cfg, triggers, crossed>>

\* start, before the process serves its first page.
Start ==
    /\ ~up /\ up' = TRUE
    /\ sync' = SyncTrigger(cfg.interval, cfg)
    /\ catalog' = CatalogTrigger(cfg) /\ digest' = DigestTrigger(cfg)
    /\ crossed' = FALSE
    /\ UNCHANGED <<clock, cfg, pass>>

Apply(t) ==
    \/ ReadInterval(t) \/ Compare(t) \/ SetSync(t)
    \/ ReadDaily(t) \/ SetCatalog(t) \/ SetDigest(t)

Next ==
    \/ Tick \/ SyncFires \/ RunEnds \/ RunEndsEarly \/ Stop \/ Start
    \/ \E c \in Configs : Save(c)
    \/ \E t \in Threads : Apply(t)

Spec == Init /\ [][Next]_vars

\* Time passes, threads go on, a process that stopped is started again; now and then a
\* check finds the run lock free and runs to its end.
Fairness ==
    /\ WF_vars(Tick) /\ SF_vars(SyncFires /\ pass' # pass) /\ SF_vars(RunEnds) /\ WF_vars(Start)
    /\ \A t \in Threads : WF_vars(Apply(t))

FairSpec == Spec /\ Fairness

-----------------------------------------------------------------------------
(* Properties. *)

\* With an interval that divides the day, checks happen on the grid of midnight plus the
\* offset, whatever was restarted or saved in between.  (_sync_trigger, start)
OnTheGrid ==
    up /\ Day % sync.interval = 0 =>
        (clock + sync.due - sync.zone - sync.offset) % sync.interval = 0

\* The timetable is that of the settings.
InStep ==
    /\ sync.interval = cfg.interval /\ sync.offset = cfg.offset /\ sync.zone = cfg.zone
    /\ catalog = CatalogTrigger(cfg) /\ digest = DigestTrigger(cfg)

\* The times on the page are right as soon as the form comes back, unless the end of a
\* run applied the settings at the same moment.  (save_settings, apply_schedule_settings)
LateOnlyAfterCrossing ==
    up /\ ~crossed /\ (\A t \in Threads : ~Applying(t)) => InStep

\* Settings that are left alone reach the timetable, and stay there, even if two passes
\* have crossed and left it with parts of both.  (job_sync, apply_schedule_settings)
SettingsReachTimetable == <>[](up => InStep) \/ []<><<cfg' # cfg>>_cfg
=============================================================================
