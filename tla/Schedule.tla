------------------------------ MODULE Schedule ------------------------------
(***************************************************************************)
(* The five systemd services of the system and their timers, day by day.   *)
(* The health check and the backup begin with guards, and some of these    *)
(* guards read what the services left behind: a unit in the state failed   *)
(* (check-systemd-units.sh, check-systemd-loaded-units.py), the newest log *)
(* of a backup (check-backup-freshness.py), the newest log of a restore    *)
(* drill (check-restore-freshness.py, which check-readiness-doc.py runs    *)
(* again). So a failure of one service is a reason for another to fail.    *)
(*                                                                         *)
(* On a normal day a run of the health check is over before the BAG import *)
(* and the backup begin, and the backup before the drill; after an outage  *)
(* the persistent timers all elapse together. Ages are kept in days; how   *)
(* many hours that is for a guard depends on when in the day the log was   *)
(* written and is read, and is free within the timetable.                  *)
(***************************************************************************)
EXTENDS Integers, FiniteSets

CONSTANTS DrillDays,     \* the drill is due every so many days
          BackupMaxHours, \* the age of a backup check-backup-freshness allows
          DrillMaxHours,  \* the age of a drill check-restore-freshness allows
          MaxDisturbances, \* bound: failures of their own and starts by hand, together
          MaxOutages      \* bound: nights the host is off

ASSUME DaysAssumption ==
  /\ DrillDays \in Nat \ {0}
  /\ BackupMaxHours \in Nat
  /\ DrillMaxHours \in Nat
  /\ MaxDisturbances \in Nat
  /\ MaxOutages \in Nat

Services == {"health", "m00h", "bag", "backup", "drill"}
Guarded == {"health", "backup"}

VARIABLES
  unit,       \* what systemd shows of a service
  pc,         \* which guard a run has come to, or its own work
  due,        \* services whose timer elapses today
  together,   \* after an outage: what is due is started at once
  odd,        \* services last started at another time than their timer's
  weekday,    \* days since the drill was due
  backupLog,  \* the newest log of a backup: does it end well
  backupAge,  \* days since the last good backup, capped
  drillLog,   \* the newest log of a drill: does it end well
  drillAge,   \* days since the last good drill, capped
  why,        \* what a failed service failed of (history)
  seen,       \* services whose failure somebody is told of (history)
  disturbances, \* how many of them there were
  outages

clock == <<due, together, odd, weekday, outages>>
logs == <<backupLog, backupAge, drillLog, drillAge>>
vars == <<unit, pc, clock, logs, why, seen, disturbances>>

Phases == {"units", "freshness", "readiness", "work"}
Reasons == {"none", "itself", "units", "unfinished backup", "stale backup", "restore freshness"}

(* Services of whose logs, or for whose guards, the time of day matters. *)
Timed == {"health", "backup", "drill"}

(* Bound: a log of that age is too old at any time of the day. *)
AgeCap == 2 + (IF BackupMaxHours > DrillMaxHours THEN BackupMaxHours ELSE DrillMaxHours) \div 24

ScheduleTypeOK ==
  /\ unit \in [Services -> {"inactive", "activating", "failed"}]
  /\ pc \in [Services -> Phases]
  /\ due \subseteq Services
  /\ together \in BOOLEAN
  /\ odd \subseteq Timed
  /\ weekday \in 0 .. DrillDays - 1
  /\ backupLog \in {"begun", "done"}
  /\ backupAge \in 0 .. AgeCap
  /\ drillLog \in {"begun", "done"}
  /\ drillAge \in 0 .. AgeCap
  /\ why \in [Services -> Reasons]
  /\ seen \subseteq Services
  /\ disturbances \in 0 .. MaxDisturbances
  /\ outages \in 0 .. MaxOutages

\* A day at the end of which everything has run well.
Init ==
  /\ unit = [s \in Services |-> "inactive"]
  /\ pc = [s \in Services |-> "work"]
  /\ due = {} /\ together = FALSE /\ odd = {} /\ weekday = 0
  /\ backupLog = "done" /\ backupAge = 0
  /\ drillLog = "done" /\ drillAge = 0
  /\ why = [s \in Services |-> "none"]
  /\ seen = {}
  /\ disturbances = 0 /\ outages = 0

Running == {s \in Services : unit[s] = "activating"}
Failed == {s \in Services : unit[s] = "failed"}

-----------------------------------------------------------------------------
(* The days and the timers *)

Older(age) == IF age < AgeCap THEN age + 1 ELSE age

(* The drill is due on one day of DrillDays, everything else daily. *)
DueOn(day) == IF day = 0 THEN Services ELSE Services \ {"drill"}

NextDay ==
  /\ due = {} /\ Running = {}
  /\ weekday' = (weekday + 1) % DrillDays
  /\ due' = DueOn(weekday')
  /\ together' = FALSE
  /\ backupAge' = Older(backupAge)
  /\ drillAge' = Older(drillAge)
  /\ UNCHANGED <<unit, pc, odd, backupLog, drillLog, why, seen, disturbances, outages>>

\* The times of the timers, with their random delays.
Before(s) ==
  CASE s \in {"health", "m00h"} -> {}
    [] s \in {"bag", "backup"} -> {"health", "m00h"}
    [] s = "drill" -> Services \ {"drill"}

\* Runs that are over by then on a normal day; imports may take longer.
OverBy(s) == Before(s) \cap Guarded

(* As a bug would have it: the drill begins with the guards, too. *)
FirstGuardDrill(s) == IF s \in Guarded \cup {"drill"} THEN "units" ELSE "work"
FirstGuard(s) == IF s \in Guarded THEN "units" ELSE "work"

(* A service starts: systemd forgets that it had failed, its log is begun. *)
Start(s, onTime) ==
  /\ unit[s] # "activating"
  /\ unit' = [unit EXCEPT ![s] = "activating"]
  /\ pc' = [pc EXCEPT ![s] = FirstGuard(s)]
  /\ backupLog' = IF s = "backup" THEN "begun" ELSE backupLog
  /\ drillLog' = IF s = "drill" THEN "begun" ELSE drillLog
  /\ why' = [why EXCEPT ![s] = "none"]
  /\ odd' = IF onTime THEN odd \ {s} ELSE odd \cup ({s} \cap Timed)
  /\ UNCHANGED <<backupAge, drillAge, together, weekday, outages>>

Elapse(s) ==
  /\ s \in due
  /\ together \/ (Before(s) \cap due = {} /\ OverBy(s) \cap Running = {})
  /\ Start(s, ~together)
  /\ due' = due \ {s}
  /\ seen' = seen \ {s}
  /\ UNCHANGED disturbances

(* The host is off over night: what runs is cut off, no unit is failed any *)
(* more, and the timers have missed their time.                            *)
Outage ==
  /\ outages < MaxOutages
  /\ weekday' = (weekday + 1) % DrillDays
  /\ due' = due \cup DueOn(weekday')
  /\ together' = TRUE
  /\ unit' = [s \in Services |-> "inactive"]
  /\ pc' = [s \in Services |-> "work"]
  /\ why' = [s \in Services |-> "none"]
  /\ seen' = {}
  /\ backupAge' = Older(backupAge)
  /\ drillAge' = Older(drillAge)
  /\ outages' = outages + 1
  /\ UNCHANGED <<odd, backupLog, drillLog, disturbances>>

-----------------------------------------------------------------------------
(* The runs *)

Goto(s, phase) ==
  /\ pc' = [pc EXCEPT ![s] = phase]
  /\ UNCHANGED <<unit, clock, logs, why, disturbances>>

(* set -e, or an ExecStartPre that is not 0: the unit is failed. *)
Fail(s, reason) ==
  /\ unit' = [unit EXCEPT ![s] = "failed"]
  /\ why' = [why EXCEPT ![s] = reason]
  /\ pc' = [pc EXCEPT ![s] = "work"]
  /\ UNCHANGED <<clock, logs>>

(* Fails for a reason of its own: the network, a full disk, another guard. *)
FailItself(s) ==
  /\ unit[s] = "activating" /\ disturbances < MaxDisturbances
  /\ Fail(s, "itself")
  /\ disturbances' = disturbances + 1
  /\ UNCHANGED seen

(* As a bug would have it: the guards look at one unit only. *)
UnitsOkBackupOnly == "backup" \notin Failed

(* The guards of the units: nothing is failed; who is running is not. *)
UnitsOk == Failed = {}

Reported == IF UnitsOk THEN {} ELSE Failed

CheckUnits(s) ==
  /\ unit[s] = "activating" /\ pc[s] = "units"
  /\ seen' = seen \cup Reported
  /\ \/ UnitsOk /\ Goto(s, IF s = "health" THEN "freshness" ELSE "readiness")
     \/ ~UnitsOk /\ Fail(s, "units") /\ UNCHANGED disturbances

(***************************************************************************)
(* Minutes of the day between which a service runs: from its timer until   *)
(* what the timetable has next; at any time, if it was not started by its  *)
(* timer on a normal day.                                                  *)
(***************************************************************************)
Begins == [health |-> 4 * 60 + 12, backup |-> 4 * 60 + 47, drill |-> 6 * 60 + 10]
OverAt == [health |-> 4 * 60 + 43, backup |-> 6 * 60 + 10, drill |-> 24 * 60]
Earliest(s) == IF s \in odd THEN 0 ELSE Begins[s]
Latest(s) == IF s \in odd THEN 24 * 60 ELSE OverAt[s]

\* Timers go by Berlin time, ages do not: a day may have 23 or 25 hours.
ClockChange == 60

(* Between these minutes lies the age a log has, which s finished so many  *)
(* days ago, when the guard of a run r looks.                              *)
YoungestAge(r, s, days) == 24 * 60 * days + Earliest(r) - Latest(s) - ClockChange
OldestAge(r, s, days) == 24 * 60 * days + Latest(r) - Earliest(s) + ClockChange

(* As a bug would have it: two hours less, which for a drill is a week. *)
TooOldTwoHoursLess(minutes, maxHours) == minutes > 60 * (maxHours - 2)
TooOld(minutes, maxHours) == minutes > 60 * maxHours

(* check-backup-freshness.py, of the health check only. *)
BackupMayBeFresh(r) ==
  backupLog = "done" /\ ~TooOld(YoungestAge(r, "backup", backupAge), BackupMaxHours)
BackupMayBeStale(r) ==
  backupLog = "done" /\ TooOld(OldestAge(r, "backup", backupAge), BackupMaxHours)

CheckBackupFreshness(s) ==
  /\ unit[s] = "activating" /\ pc[s] = "freshness"
  /\ \/ BackupMayBeFresh(s) /\ Goto(s, "readiness")
     \/ backupLog # "done" /\ Fail(s, "unfinished backup") /\ UNCHANGED disturbances
     \/ BackupMayBeStale(s) /\ Fail(s, "stale backup") /\ UNCHANGED disturbances
  /\ UNCHANGED seen

(* check-restore-freshness.py. *)
RestoreMayBeFresh(r) ==
  drillLog = "done" /\ ~TooOld(YoungestAge(r, "drill", drillAge), DrillMaxHours)
RestoreMayBeStale(r) ==
  drillLog # "done" \/ TooOld(OldestAge(r, "drill", drillAge), DrillMaxHours)

(* check-readiness-doc.py runs it, and the guards of the units once more. *)
CheckReadiness(s) ==
  /\ unit[s] = "activating" /\ pc[s] = "readiness"
  /\ seen' = seen \cup Reported
  /\ \/ RestoreMayBeFresh(s) /\ UnitsOk /\ Goto(s, "work")
     \/ RestoreMayBeStale(s) /\ Fail(s, "restore freshness") /\ UNCHANGED disturbances
     \/ RestoreMayBeFresh(s) /\ ~UnitsOk /\ Fail(s, "units") /\ UNCHANGED disturbances

Succeed(s) ==
  /\ unit[s] = "activating" /\ pc[s] = "work"
  /\ unit' = [unit EXCEPT ![s] = "inactive"]
  /\ backupLog' = IF s = "backup" THEN "done" ELSE backupLog
  /\ backupAge' = IF s = "backup" THEN 0 ELSE backupAge
  /\ drillLog' = IF s = "drill" THEN "done" ELSE drillLog
  /\ drillAge' = IF s = "drill" THEN 0 ELSE drillAge
  /\ UNCHANGED <<pc, clock, why, seen, disturbances>>

Step(s) == CheckUnits(s) \/ CheckBackupFreshness(s) \/ CheckReadiness(s) \/ Succeed(s)

-----------------------------------------------------------------------------
(* The administrator *)

ResetFailed ==
  /\ Failed # {}
  /\ unit' = [s \in Services |-> IF s \in Failed THEN "inactive" ELSE unit[s]]
  /\ seen' = seen \ Failed
  /\ why' = [s \in Services |-> IF s \in Failed THEN "none" ELSE why[s]]
  /\ UNCHANGED <<pc, clock, logs, disturbances>>

(* By day, when the timers have elapsed; systemctl tells whether it fails. *)
StartByHand(s) ==
  /\ due = {} /\ disturbances < MaxDisturbances
  /\ Start(s, FALSE)
  /\ seen' = seen \cup {s}
  /\ disturbances' = disturbances + 1
  /\ UNCHANGED due

Administrator == ResetFailed \/ \E s \in Services : StartByHand(s)

-----------------------------------------------------------------------------
Next ==
  \/ NextDay \/ Outage \/ Administrator
  \/ \E s \in Services : Elapse(s) \/ Step(s) \/ FailItself(s)

Spec == Init /\ [][Next]_vars

(* systemd starts what is due and lets it run; the days go by. *)
FairSpec ==
  Spec /\ WF_vars(NextDay)
       /\ \A s \in Services : WF_vars(Elapse(s)) /\ WF_vars(Step(s))

-----------------------------------------------------------------------------
(***************************************************************************)
(* The limits and the timetable fit together, to the hour: until something *)
(* fails of its own, the host is off or somebody starts a service, no      *)
(* service fails, week after week, whatever the random delays and although *)
(* a week in autumn has 169 hours.                                         *)
(***************************************************************************)
GreenUntilDisturbed == disturbances = 0 /\ outages = 0 => Failed = {}

(***************************************************************************)
(* No failure is wiped in silence while the host is never off: when a      *)
(* timer starts a failed service again, the guard of another run has       *)
(* reported it, or another service is still shown as failed. Not for the   *)
(* m00h import: its timer may elapse before the next health check.         *)
(***************************************************************************)
FailuresSeen ==
  [][\A s \in Services \ {"m00h"} :
       s \in due \ due' /\ s \in Failed /\ outages = 0 => s \in seen \/ Failed # {s}]_vars

(***************************************************************************)
(* Health check and backup, once both have failed, keep each other failed: *)
(* on no later day does one of them pass the guards of the units, until    *)
(* somebody resets or starts them or the host is restarted.                *)
(***************************************************************************)
Other(s) == CHOOSE t \in Guarded : t # s
Latched ==
  /\ due \cap Guarded = {} \/ ~together
  /\ \E s \in Guarded :
       /\ s \in Failed
       /\ Other(s) \in Failed \/ (Other(s) \in Running /\ pc[Other(s)] = "units")

LatchedUntilReset == [][Latched => Latched' \/ Outage \/ Administrator]_vars

(***************************************************************************)
(* The drill stands alone: whatever failed, and although nobody resets     *)
(* anything, there is again and again a drill no guard can find too old.   *)
(***************************************************************************)
DrillRecovers == []<>(\A s \in Guarded : ~RestoreMayBeStale(s))

(***************************************************************************)
(* "... bewusst nicht als Backup-Preflight, damit ein neues Backup nicht   *)
(* durch ein veraltetes vorheriges Backup blockiert wird" (README.md:1297):*)
(* no backup is refused only because the health check has found the backup *)
(* before it too old. It is, by the guards of the units: the health check, *)
(* which has failed of it, is a failed unit.                               *)
(***************************************************************************)
StaleBackupBlocksNone ==
  ~ /\ Failed = Guarded
    /\ why["backup"] = "units"
    /\ why["health"] = "stale backup"
=============================================================================
