----------------------------- MODULE SyncTiming -----------------------------
(***************************************************************************)
(* When a tracking is due (scheduler/sync_manager.rs): slots start at the  *)
(* instant its package was created and are sync_interval_hours apart.      *)
(* Time is counted in units short enough to fall between slots.            *)
(***************************************************************************)
EXTENDS Integers

CONSTANTS
  Intervals,    \* sync_interval_hours, of any sign
  CreatedAt,    \* packages.created_at
  MaxTime,      \* bound on the clock
  Never

ASSUME TimingAssumption ==
  /\ Intervals \subseteq Int
  /\ CreatedAt \in Nat /\ MaxTime \in Nat /\ Never \notin Int

VARIABLES
  now,
  interval,     \* the package's sync_interval_hours
  lastSync,     \* tracking.last_sync_time
  word          \* tracking_status

timingVars == <<now, interval, lastSync, word>>
-----------------------------------------------------------------------------
\* seeded fault: an instant on a slot has not used it
NextSlotAtOrAfter(after) ==
  IF interval <= 0 \/ after < CreatedAt THEN CreatedAt
  ELSE CreatedAt + interval * ((after - CreatedAt + interval - 1) \div interval)

\* next_aligned_after: the first slot later than `after`
NextAlignedAfter(after) ==
  IF interval <= 0 \/ after < CreatedAt THEN CreatedAt
  ELSE CreatedAt + interval * ((after - CreatedAt) \div interval + 1)

\* calculate_next_sync_time: one that never synced is due from the first slot
NextSyncTime ==
  IF interval <= 0 THEN CreatedAt
  ELSE NextAlignedAfter(IF lastSync = Never THEN CreatedAt - interval ELSE lastSync)

\* should_sync
ShouldSync ==
  /\ word \notin {"paused", "archived", "syncing"}
  /\ \/ lastSync = Never
     \/ interval <= 0
     \/ now >= NextAlignedAfter(lastSync)
-----------------------------------------------------------------------------
TimingInit ==
  /\ now = 0 /\ interval \in Intervals
  /\ lastSync = Never /\ word = "active"

Tick == now < MaxTime /\ now' = now + 1 /\ UNCHANGED <<interval, lastSync, word>>

\* a round syncs what is due; a manual sync asks nothing
Sync ==
  /\ word = "active"
  /\ lastSync' = now
  /\ UNCHANGED <<now, interval, word>>

SetWord(w) == word' = w /\ UNCHANGED <<now, interval, lastSync>>

\* the package's interval is edited
SetInterval(i) == interval' = i /\ UNCHANGED <<now, lastSync, word>>

TimingNext ==
  \/ Tick \/ Sync
  \/ \E w \in {"active", "paused", "archived", "syncing"} : SetWord(w)
  \/ \E i \in Intervals : SetInterval(i)

TimingSpec == TimingInit /\ [][TimingNext]_timingVars
-----------------------------------------------------------------------------
\* should_sync and next_aligned_after: an active tracking that has synced is due
\* exactly when a slot has begun since, the slot the last sync fell on excepted, so
\* each slot makes it due once, whatever syncs fell between, before or on slots, and
\* however the interval was edited; and the announced next time is that slot.
DueOncePerSlot ==
  interval > 0 /\ word = "active" /\ lastSync # Never =>
    LET begun == {s \in CreatedAt..now : (s - CreatedAt) % interval = 0 /\ s > lastSync} IN
    /\ ShouldSync = (begun # {})
    /\ begun # {} => NextSyncTime \in begun /\ \A s \in begun : NextSyncTime <= s
=============================================================================
