--------------------------- MODULE ScheduleProofs ---------------------------
(***************************************************************************)
(* Theorems of Schedule, for any limits, any interval of the drill, and    *)
(* any number of disturbances and outages. The timetable (TableInv) says   *)
(* who can be running while whose timer is still to elapse; the other      *)
(* invariants follow failures (ReportInv) and ages (GreenInv) through it.  *)
(***************************************************************************)
EXTENDS Schedule, TLAPS

(* On a day without an outage before it, the health check comes before the *)
(* backup, and nothing runs whose timer has not elapsed.                   *)
TableInv ==
  ~together =>
    /\ due \cap Running = {}
    /\ "health" \in due => "backup" \in due
    /\ "health" \in Running => "backup" \in due \/ "health" \in seen

\* s has begun, and is at the guards of the units.
AtUnits(s) == unit[s] = "activating" /\ pc[s] = "units"

(* Before a failed service is started again, another run looks for failed  *)
(* units: for the health check the backup of the same day, for the others  *)
(* the health check of the day; or the one who should look is failed.      *)
ReportInv ==
  outages = 0 =>
    /\ ~together
    /\ \A s \in {"bag", "backup", "drill"} : s \in due /\ s \in Failed =>
         "health" \in due \cup Failed \/ AtUnits("health")
    /\ "health" \in Failed =>
         \/ "health" \in seen
         \/ "backup" \in due /\ "health" \notin due
         \/ "backup" \in Failed
         \/ AtUnits("backup")

(* Undisturbed days: a guard that reads the log of a backup or of a drill  *)
(* is not run while that log is being written, everything runs at its      *)
(* time, and the ages follow the weekday.                                  *)
GreenInv ==
  disturbances = 0 /\ outages = 0 =>
    /\ ~together /\ odd = {} /\ Failed = {}
    /\ \A s \in Services \ Guarded : pc[s] = "work"
    /\ pc["backup"] # "freshness"
    /\ "backup" \in Running => "health" \notin due \cup Running
    /\ "backup" \notin Running =>
         backupLog = "done" /\ backupAge <= IF "backup" \in due THEN 1 ELSE 0
    /\ "health" \in Running => "backup" \in due
    /\ "drill" \in Running => due \cap Guarded = {} /\ Running \cap Guarded = {}
    /\ "drill" \notin Running => drillLog = "done"
    /\ "drill" \in due \cup Running => weekday = 0
    /\ drillAge <= IF "drill" \in due \cup Running THEN DrillDays ELSE weekday

-----------------------------------------------------------------------------
(* Types *)

(* The day after is the next one, or the first one again.                  *)
LEMMA NextWeekday ==
  ASSUME NEW d \in 0 .. DrillDays - 1
  PROVE  (d + 1) % DrillDays = IF d + 1 = DrillDays THEN 0 ELSE d + 1
  BY DaysAssumption

LEMMA OlderTyped ==
  ASSUME NEW age \in 0 .. AgeCap
  PROVE  /\ AgeCap \in Nat
         /\ Older(age) \in 0 .. AgeCap /\ Older(age) <= age + 1
  BY DaysAssumption DEF AgeCap, Older

(* What a start, by its timer or by hand, does to the service.             *)
LEMMA StartTyped ==
  ASSUME ScheduleTypeOK, NEW s \in Services, NEW onTime \in BOOLEAN, Start(s, onTime)
  PROVE  /\ odd' \subseteq Timed
         /\ unit' \in [Services -> {"inactive", "activating", "failed"}]
         /\ pc' \in [Services -> Phases]
         /\ backupLog' \in {"begun", "done"} /\ drillLog' \in {"begun", "done"}
         /\ why' \in [Services -> Reasons]
         /\ UNCHANGED <<backupAge, drillAge, together, weekday, outages>>
  BY DEF ScheduleTypeOK, Start, FirstGuard, Phases, Reasons, Timed

LEMMA GotoTyped ==
  ASSUME ScheduleTypeOK, NEW s \in Services, NEW phase \in Phases, Goto(s, phase), seen' \subseteq Services
  PROVE  ScheduleTypeOK'
  BY DEF ScheduleTypeOK, Goto, clock, logs

LEMMA FailTyped ==
  ASSUME ScheduleTypeOK, NEW s \in Services, NEW reason \in Reasons, Fail(s, reason),
         seen' \subseteq Services, disturbances' \in 0 .. MaxDisturbances
  PROVE  ScheduleTypeOK'
  BY DEF ScheduleTypeOK, Fail, Phases, clock, logs

LEMMA ScheduleNextTyped == ScheduleTypeOK /\ [Next]_vars => ScheduleTypeOK'
  <1> SUFFICES ASSUME ScheduleTypeOK, [Next]_vars PROVE ScheduleTypeOK'
    OBVIOUS
  <1>0. /\ Older(backupAge) \in 0 .. AgeCap /\ Older(drillAge) \in 0 .. AgeCap
        /\ (weekday + 1) % DrillDays \in 0 .. DrillDays - 1
    BY OlderTyped, NextWeekday, DaysAssumption DEF ScheduleTypeOK
  <1>1. CASE NextDay
    BY <1>0, <1>1 DEF NextDay, ScheduleTypeOK, DueOn
  <1>2. CASE Outage
    <2>1. outages' \in 0 .. MaxOutages
      BY <1>2, DaysAssumption DEF Outage, ScheduleTypeOK
    <2>2. due' \subseteq Services
      BY <1>2 DEF Outage, ScheduleTypeOK, DueOn
    <2>3. weekday' \in 0 .. DrillDays - 1 /\ backupAge' \in 0 .. AgeCap /\ drillAge' \in 0 .. AgeCap
      BY <1>0, <1>2 DEF Outage
    <2>4. QED BY <1>2, <2>1, <2>2, <2>3 DEF Outage, ScheduleTypeOK, Phases, Reasons
  <1>3. CASE ResetFailed
    BY <1>3 DEF ResetFailed, ScheduleTypeOK, Reasons, clock, logs
  <1>4. ASSUME NEW s \in Services, StartByHand(s) PROVE ScheduleTypeOK'
    <2>1. /\ Start(s, FALSE) /\ disturbances < MaxDisturbances /\ UNCHANGED due
          /\ disturbances' = disturbances + 1 /\ seen' = seen \cup {s}
      BY <1>4 DEF StartByHand
    <2>2. disturbances' \in 0 .. MaxDisturbances /\ seen' \subseteq Services
      BY <2>1, DaysAssumption DEF ScheduleTypeOK
    <2>3. QED BY <2>1, <2>2, StartTyped DEF ScheduleTypeOK
  <1>5. ASSUME NEW s \in Services, Elapse(s) PROVE ScheduleTypeOK'
    BY <1>5, StartTyped DEF Elapse, ScheduleTypeOK
  <1>6. ASSUME NEW s \in Services, FailItself(s) PROVE ScheduleTypeOK'
    <2>1. disturbances' \in 0 .. MaxDisturbances /\ seen' \subseteq Services
      BY <1>6, DaysAssumption DEF FailItself, ScheduleTypeOK
    <2>2. Fail(s, "itself") /\ "itself" \in Reasons
      BY <1>6 DEF FailItself, Reasons
    <2>3. QED BY <2>1, <2>2, FailTyped
  <1>7. ASSUME NEW s \in Services, CheckUnits(s) PROVE ScheduleTypeOK'
    <2>1. seen' \subseteq Services
      BY <1>7 DEF CheckUnits, Reported, Failed, ScheduleTypeOK
    <2>2. \/ \E phase \in Phases : Goto(s, phase)
          \/ Fail(s, "units") /\ UNCHANGED disturbances
      BY <1>7 DEF CheckUnits, Phases
    <2>3. QED BY <2>1, <2>2, GotoTyped, FailTyped DEF ScheduleTypeOK, Reasons
  <1>8. ASSUME NEW s \in Services, CheckBackupFreshness(s) PROVE ScheduleTypeOK'
    <2>1. seen' \subseteq Services
      BY <1>8 DEF CheckBackupFreshness, ScheduleTypeOK
    <2>2. \/ \E phase \in Phases : Goto(s, phase)
          \/ \E reason \in Reasons : Fail(s, reason) /\ UNCHANGED disturbances
      BY <1>8 DEF CheckBackupFreshness, Phases, Reasons
    <2>3. QED BY <2>1, <2>2, GotoTyped, FailTyped DEF ScheduleTypeOK
  <1>9. ASSUME NEW s \in Services, CheckReadiness(s) PROVE ScheduleTypeOK'
    <2>1. seen' \subseteq Services
      BY <1>9 DEF CheckReadiness, Reported, Failed, ScheduleTypeOK
    <2>2. \/ \E phase \in Phases : Goto(s, phase)
          \/ \E reason \in Reasons : Fail(s, reason) /\ UNCHANGED disturbances
      BY <1>9 DEF CheckReadiness, Phases, Reasons
    <2>3. QED BY <2>1, <2>2, GotoTyped, FailTyped DEF ScheduleTypeOK
  <1>10. ASSUME NEW s \in Services, Succeed(s) PROVE ScheduleTypeOK'
    BY <1>10, OlderTyped DEF Succeed, ScheduleTypeOK, clock
  <1>11. CASE UNCHANGED vars
    BY <1>11 DEF vars, clock, logs, ScheduleTypeOK
  <1>12. QED BY <1>1, <1>2, <1>3, <1>4, <1>5, <1>6, <1>7, <1>8, <1>9, <1>10, <1>11
          DEF Next, Administrator, Step

LEMMA ScheduleInitTyped == Init => ScheduleTypeOK
  <1>1. 0 \in 0 .. AgeCap /\ 0 \in 0 .. DrillDays - 1 /\ 0 \in 0 .. MaxDisturbances
        /\ 0 \in 0 .. MaxOutages
    BY DaysAssumption DEF AgeCap
  <1>2. QED BY <1>1 DEF Init, ScheduleTypeOK, Phases, Reasons

(* Units, phases, logs and ages keep their types, whatever the days bring: *)
(* no age runs past its cap and no weekday past the interval of the drill. *)
THEOREM ScheduleTypeCorrect == Spec => []ScheduleTypeOK
  BY ScheduleInitTyped, ScheduleNextTyped, PTL DEF Spec
-----------------------------------------------------------------------------
(* What the actions do to units and phases *)

(* One guard or the work of a run: it fails, or passes a guard, which those *)
(* of the units let it do only while nothing is failed, or is over.         *)
LEMMA RunEffect ==
  ASSUME ScheduleTypeOK, NEW s \in Services, Step(s) \/ FailItself(s)
  PROVE  /\ unit[s] = "activating" /\ UNCHANGED clock /\ seen \subseteq seen'
         /\ \A t \in Services \ {s} : unit'[t] = unit[t] /\ pc'[t] = pc[t]
         /\ \/ unit'[s] = "failed" /\ pc'[s] = "work"
            \/ /\ unit'[s] = "activating" /\ pc[s] # "work" /\ pc'[s] # "units"
               /\ pc[s] = "units" => Failed = {}
            \/ unit'[s] = "inactive" /\ pc[s] = "work" /\ pc'[s] = "work"
  <1>1. CASE FailItself(s)
    BY <1>1 DEF FailItself, Fail, clock, ScheduleTypeOK
  <1>2. CASE CheckUnits(s)
    BY <1>2 DEF CheckUnits, Goto, Fail, UnitsOk, clock, ScheduleTypeOK
  <1>3. CASE CheckBackupFreshness(s)
    BY <1>3 DEF CheckBackupFreshness, Goto, Fail, clock, ScheduleTypeOK
  <1>4. CASE CheckReadiness(s)
    BY <1>4 DEF CheckReadiness, Goto, Fail, clock, ScheduleTypeOK
  <1>5. CASE Succeed(s)
    BY <1>5 DEF Succeed, clock, ScheduleTypeOK
  <1>6. QED BY <1>1, <1>2, <1>3, <1>4, <1>5 DEF Step

LEMMA StartEffect ==
  ASSUME ScheduleTypeOK, NEW s \in Services, NEW onTime \in BOOLEAN, Start(s, onTime)
  PROVE  /\ onTime => odd' = odd \ {s}
         /\ unit[s] # "activating" /\ unit'[s] = "activating" /\ UNCHANGED <<together, weekday, outages>>
         /\ pc'[s] = IF s \in Guarded THEN "units" ELSE "work"
         /\ \A t \in Services \ {s} : unit'[t] = unit[t] /\ pc'[t] = pc[t]
  BY DEF Start, FirstGuard, ScheduleTypeOK

LEMMA OutagesCounted ==
  ASSUME ScheduleTypeOK, [Next]_vars, outages' = 0
  PROVE  outages = 0 /\ ~Outage
  <1>1. outages \in Nat BY DaysAssumption DEF ScheduleTypeOK
  <1>2. CASE Outage BY <1>1, <1>2 DEF Outage
  <1>3. CASE ~Outage
    <2>1. ASSUME NEW s \in Services, NEW onTime \in BOOLEAN, Start(s, onTime) PROVE outages' = outages
      BY <2>1, StartEffect
    <2>2. ASSUME NEW s \in Services, Step(s) \/ FailItself(s) PROVE outages' = outages
      BY <2>2, RunEffect DEF clock
    <2>3. outages' = outages
      BY <1>3, <2>1, <2>2 DEF Next, NextDay, Administrator, ResetFailed, StartByHand, Elapse, clock, vars
    <2>4. QED BY <1>3, <2>3
  <1>4. QED BY <1>2, <1>3

LEMMA TableStep == ScheduleTypeOK /\ TableInv /\ [Next]_vars => TableInv'
  <1> SUFFICES ASSUME ScheduleTypeOK, TableInv, [Next]_vars PROVE TableInv'
    OBVIOUS
  <1>0. Running \subseteq Services /\ due \subseteq Services
    BY DEF Running, ScheduleTypeOK
  <1>1. CASE NextDay
    BY <1>1 DEF NextDay, TableInv, Running, DueOn, Services
  <1>2. CASE Outage
    BY <1>2 DEF Outage, TableInv
  <1>3. CASE ResetFailed
    BY <1>3 DEF ResetFailed, TableInv, Running, Failed, clock
  <1>4. ASSUME NEW s \in Services, StartByHand(s) PROVE TableInv'
    <2>1. due = {} /\ due' = {} /\ seen' = seen \cup {s} /\ together' = together
          /\ \A t \in Services \ {s} : unit'[t] = unit[t]
      BY <1>4, StartEffect DEF StartByHand
    <2>2. QED BY <2>1 DEF TableInv, Running
  <1>5. ASSUME NEW s \in Services, Elapse(s) PROVE TableInv'
    <2>0. SUFFICES ASSUME ~together' PROVE TableInv'
      BY DEF TableInv
    <2>1. /\ ~together /\ due' = due \ {s} /\ seen' = seen \ {s} /\ unit'[s] = "activating"
          /\ \A t \in Services \ {s} : unit'[t] = unit[t]
          /\ Before(s) \cap due = {} /\ OverBy(s) \cap Running = {}
      BY <1>5, <2>0, StartEffect DEF Elapse
    <2>2. due' \cap Running' = {}
      BY <2>1 DEF TableInv, Running
    <2>3. CASE s = "health"
      BY <1>5, <2>1, <2>2, <2>3 DEF Elapse, TableInv, Running
    <2>4. CASE s = "backup"
      <3>1. "health" \notin due /\ "health" \notin Running
        BY <2>1, <2>4 DEF Before, OverBy, Guarded
      <3>2. QED BY <2>1, <2>2, <2>4, <3>1 DEF TableInv, Running, Services
    <2>5. CASE s \notin {"health", "backup"}
      BY <2>1, <2>2, <2>5 DEF TableInv, Running, Services
    <2>6. QED BY <2>3, <2>4, <2>5
  <1>6. ASSUME NEW s \in Services, Step(s) \/ FailItself(s) PROVE TableInv'
    <2>1. UNCHANGED <<due, together>> /\ seen \subseteq seen' /\ Running' \subseteq Running
      BY <1>6, RunEffect DEF Running, clock
    <2>2. QED BY <2>1 DEF TableInv
  <1>7. CASE UNCHANGED vars
    BY <1>7 DEF vars, clock, TableInv, Running
  <1>8. QED BY <1>1, <1>2, <1>3, <1>4, <1>5, <1>6, <1>7 DEF Next, Administrator

LEMMA TableInvariant == Spec => [](ScheduleTypeOK /\ TableInv)
  <1>1. Init => TableInv
    BY DEF Init, TableInv, Running
  <1>2. QED BY <1>1, TableStep, ScheduleInitTyped, ScheduleNextTyped, PTL DEF Spec

-----------------------------------------------------------------------------
(* Failures *)

LEMMA ReportStep == ScheduleTypeOK /\ TableInv /\ ReportInv /\ [Next]_vars => ReportInv'
  <1> SUFFICES ASSUME ScheduleTypeOK, TableInv, ReportInv, [Next]_vars, outages' = 0 PROVE ReportInv'
    BY DEF ReportInv
  <1>0. outages = 0 /\ ~Outage
    BY OutagesCounted
  <1>1. CASE NextDay
    BY <1>0, <1>1 DEF NextDay, ReportInv, Failed, Running, AtUnits, DueOn, Services
  <1>3. CASE ResetFailed
    BY <1>0, <1>3 DEF ResetFailed, ReportInv, Failed, clock
  <1>4. ASSUME NEW s \in Services, StartByHand(s) PROVE ReportInv'
    <2>1. /\ due = {} /\ due' = {} /\ seen' = seen \cup {s} /\ together' = together
          /\ unit'[s] = "activating" /\ (s \in Guarded => pc'[s] = "units")
          /\ \A t \in Services \ {s} : unit'[t] = unit[t] /\ pc'[t] = pc[t]
      BY <1>4, StartEffect DEF StartByHand
    <2>2. CASE s = "health"
      BY <1>0, <2>1, <2>2 DEF ReportInv, Failed
    <2>3. CASE s = "backup"
      BY <1>0, <2>1, <2>3 DEF ReportInv, Failed, AtUnits, Guarded, Services
    <2>4. CASE s \notin {"health", "backup"}
      BY <1>0, <2>1, <2>4 DEF ReportInv, Failed, AtUnits, Services
    <2>5. QED BY <2>2, <2>3, <2>4
  <1>5. ASSUME NEW s \in Services, Elapse(s) PROVE ReportInv'
    <2>1. /\ due' = due \ {s} /\ seen' = seen \ {s} /\ together' = together /\ ~together
          /\ unit'[s] = "activating" /\ (s \in Guarded => pc'[s] = "units")
          /\ \A t \in Services \ {s} : unit'[t] = unit[t] /\ pc'[t] = pc[t]
          /\ Before(s) \cap due = {} /\ s \in due
      BY <1>0, <1>5, StartEffect DEF Elapse, ReportInv
    <2>2. CASE s = "health"
      BY <1>0, <2>1, <2>2 DEF ReportInv, Failed, AtUnits, Guarded, Services
    <2>3. CASE s = "backup"
      BY <1>0, <2>1, <2>3 DEF ReportInv, Failed, AtUnits, Guarded, Services
    <2>4. CASE s \notin {"health", "backup"}
      BY <1>0, <2>1, <2>4 DEF ReportInv, Failed, AtUnits, Services
    <2>5. QED BY <2>2, <2>3, <2>4
  <1>6. ASSUME NEW s \in Services, Step(s) \/ FailItself(s) PROVE ReportInv'
    <2>1. /\ UNCHANGED <<due, together>> /\ seen \subseteq seen' /\ unit[s] = "activating"
          /\ \A t \in Services \ {s} : unit'[t] = unit[t] /\ pc'[t] = pc[t]
          /\ \/ unit'[s] = "failed"
             \/ unit'[s] \in {"activating", "inactive"} /\ (pc[s] = "units" => Failed = {})
      BY <1>6, RunEffect DEF clock
    <2>2. ~together /\ s \notin due
      BY <1>0, <2>1 DEF ReportInv, TableInv, Running
    <2>3. \A t \in {"bag", "backup", "drill"} : t \in due' /\ t \in Failed' =>
            "health" \in due' \cup Failed' \/ AtUnits("health")'
      BY <1>0, <2>1, <2>2 DEF ReportInv, Failed, AtUnits, Services
    <2>4. "health" \in Failed' =>
            \/ "health" \in seen'
            \/ "backup" \in due' /\ "health" \notin due'
            \/ "backup" \in Failed'
            \/ AtUnits("backup")'
      <3>1. CASE s = "health"
        BY <2>1, <2>2, <3>1 DEF TableInv, Running
      <3>2. CASE s # "health"
        BY <1>0, <2>1, <2>2, <3>2 DEF ReportInv, Failed, AtUnits, Services
      <3>3. QED BY <3>1, <3>2
    <2>5. QED BY <2>1, <2>2, <2>3, <2>4 DEF ReportInv
  <1>7. CASE UNCHANGED vars
    BY <1>0, <1>7 DEF vars, clock, ReportInv, Failed, AtUnits
  <1>8. QED BY <1>0, <1>1, <1>3, <1>4, <1>5, <1>6, <1>7 DEF Next, Administrator

LEMMA ReportInvariant == Spec => [](ScheduleTypeOK /\ TableInv /\ ReportInv)
  <1>1. Init => ReportInv
    BY DEF Init, ReportInv, Failed
  <1>2. QED BY <1>1, ReportStep, TableInvariant, PTL DEF Spec

(* The timer of s elapses in a step in which s is no longer due.           *)
LEMMA OnlyElapseTakes ==
  ASSUME ScheduleTypeOK, Next, NEW s \in Services, s \in due, s \notin due'
  PROVE  Elapse(s)
  <1>1. ASSUME NEW t \in Services, Elapse(t) PROVE t = s
    BY <1>1 DEF Elapse
  <1>2. ASSUME NEW t \in Services, Step(t) \/ FailItself(t) PROVE FALSE
    BY <1>2, RunEffect DEF clock
  <1>3. ~(NextDay \/ Outage \/ Administrator)
    BY DEF NextDay, Outage, Administrator, ResetFailed, StartByHand, clock
  <1>4. QED BY <1>1, <1>2, <1>3 DEF Next

(* A timer wipes no failure that only it would have shown: another guard   *)
(* has seen it, or its own failure is there to be seen.                    *)
THEOREM FailuresAreSeen == Spec => FailuresSeen
  <1>1. ScheduleTypeOK /\ TableInv /\ ReportInv /\ [Next]_vars =>
          [\A s \in Services \ {"m00h"} :
             s \in due \ due' /\ s \in Failed /\ outages = 0 => s \in seen \/ Failed # {s}]_vars
    <2>1. SUFFICES ASSUME ScheduleTypeOK, TableInv, ReportInv, Next, NEW s \in Services \ {"m00h"},
                          s \in due, s \notin due', s \in Failed, outages = 0
                   PROVE  s \in seen \/ Failed # {s}
      OBVIOUS
    <2>2. Elapse(s) /\ ~together
      BY <2>1, OnlyElapseTakes DEF ReportInv
    <2>3. Before(s) \cap due = {} /\ OverBy(s) \cap Running = {}
      BY <2>2 DEF Elapse
    <2>4. CASE s = "health"
      <3>1. ~AtUnits("backup")
        BY <2>1, <2>2, <2>4 DEF TableInv, AtUnits, Running, Services
      <3>2. QED BY <2>1, <2>4, <3>1 DEF ReportInv
    <2>5. CASE s \in {"bag", "backup", "drill"}
      <3>1. "health" \notin due /\ "health" \notin Running
        BY <2>3, <2>5 DEF Before, OverBy, Guarded, Services
      <3>2. ~AtUnits("health") BY <3>1 DEF AtUnits, Running, Services
      <3>3. "health" \in Failed
        BY <2>1, <2>5, <3>1, <3>2 DEF ReportInv
      <3>4. QED BY <2>5, <3>3
    <2>6. QED BY <2>1, <2>4, <2>5 DEF Services
  <1>2. QED BY <1>1, ReportInvariant, PTL DEF Spec, FailuresSeen

LEMMA OtherGuarded == Other("health") = "backup" /\ Other("backup") = "health"
  BY DEF Other, Guarded

(* No day gets health check and backup out of it: whoever of the two runs, *)
(* comes to the guards of the units while the other is failed. A reset, a  *)
(* start by hand or a reboot does.                                         *)
THEOREM LatchedStays == Spec => LatchedUntilReset
  <1>1. ScheduleTypeOK /\ TableInv /\ [Next]_vars => [Latched => Latched' \/ Outage \/ Administrator]_vars
    <2>1. SUFFICES ASSUME ScheduleTypeOK, TableInv, Next, Latched, ~Outage, ~Administrator
                   PROVE  Latched'
      OBVIOUS
    <2>2. PICK s \in Guarded : s \in Failed /\ (Other(s) \in Failed \/ AtUnits(Other(s)))
      BY <2>1 DEF Latched, AtUnits, Running
    <2> DEFINE t == Other(s)
    <2>3. /\ t \in Guarded /\ t # s /\ Other(t) = s /\ Guarded = {s, t}
          /\ s \in Services /\ t \in Services
      BY <2>2, OtherGuarded DEF Guarded, Services
    <2>4. ASSUME due' \cap Guarded = {} \/ ~together',
                 \/ unit'[s] = "failed" /\ (unit'[t] = "failed" \/ AtUnits(t)')
                 \/ unit'[t] = "failed" /\ (unit'[s] = "failed" \/ AtUnits(s)')
          PROVE  Latched'
      BY <2>3, <2>4 DEF Latched, Failed, Running, AtUnits
    <2>5. unit[s] = "failed" /\ (unit[t] = "failed" \/ AtUnits(t))
      BY <2>2 DEF Failed, AtUnits
    <2> HIDE DEF t
    <2>6. CASE NextDay
      BY <2>4, <2>5, <2>6 DEF NextDay, AtUnits
    <2>7. ASSUME NEW x \in Services, Step(x) \/ FailItself(x) PROVE Latched'
      <3>1. /\ due' = due /\ together' = together /\ unit[x] = "activating"
            /\ \A y \in Services \ {x} : unit'[y] = unit[y] /\ pc'[y] = pc[y]
            /\ unit'[x] = "failed" \/ pc[x] = "work" \/ pc[x] # "units" \/ Failed = {}
        BY <2>1, <2>7, RunEffect DEF clock
      <3>2. x # s /\ Failed # {} BY <2>3, <2>5, <3>1 DEF Failed
      <3>3. CASE x = t
        BY <2>1, <2>3, <2>4, <2>5, <3>1, <3>2, <3>3 DEF AtUnits, Latched
      <3>4. CASE x # t
        BY <2>1, <2>3, <2>4, <2>5, <3>1, <3>2, <3>4 DEF AtUnits, Latched
      <3>5. QED BY <3>3, <3>4
    <2>8. ASSUME NEW x \in Services, Elapse(x) PROVE Latched'
      <3>1. /\ due' = due \ {x} /\ together' = together /\ x \in due
            /\ unit[x] # "activating" /\ unit'[x] = "activating" /\ (x \in Guarded => pc'[x] = "units")
            /\ \A y \in Services \ {x} : unit'[y] = unit[y] /\ pc'[y] = pc[y]
            /\ together \/ OverBy(x) \cap Running = {}
        BY <2>1, <2>8, StartEffect DEF Elapse
      <3>2. due' \cap Guarded = {} \/ ~together'
        BY <2>1, <3>1 DEF Latched
      <3>3. CASE x \notin Guarded
        BY <2>3, <2>4, <2>5, <3>1, <3>2, <3>3 DEF AtUnits
      <3>4. CASE x = t
        BY <2>3, <2>4, <2>5, <3>1, <3>2, <3>4 DEF AtUnits
      <3>5. CASE x = s
        <4>1. ~together BY <2>1, <2>3, <3>1, <3>5 DEF Latched
        <4>2. ~AtUnits(t)
          <5>1. CASE s = "health"
            <6>1. t = "backup" BY <5>1, OtherGuarded DEF t
            <6>2. "backup" \notin Running
              BY <2>1, <3>1, <3>5, <4>1, <5>1 DEF TableInv
            <6>3. QED BY <2>3, <6>1, <6>2 DEF AtUnits, Running
          <5>2. CASE s = "backup"
            <6>1. t = "health" BY <5>2, OtherGuarded DEF t
            <6>2. "health" \notin Running
              BY <3>1, <3>5, <4>1, <5>2 DEF OverBy, Before, Guarded
            <6>3. QED BY <2>3, <6>1, <6>2 DEF AtUnits, Running
          <5>3. QED BY <2>2, <5>1, <5>2 DEF Guarded
        <4>3. QED BY <2>3, <2>4, <2>5, <3>1, <3>2, <3>5, <4>2 DEF AtUnits
      <3>6. QED BY <2>3, <3>3, <3>4, <3>5
    <2>9. QED BY <2>1, <2>6, <2>7, <2>8 DEF Next
  <1>2. QED BY <1>1, TableInvariant, PTL DEF Spec, LatchedUntilReset
-----------------------------------------------------------------------------
(* Days without a disturbance *)

LEMMA DisturbancesCounted ==
  ASSUME ScheduleTypeOK, [Next]_vars, disturbances' = 0
  PROVE  disturbances = 0 /\ \A s \in Services : ~FailItself(s) /\ ~StartByHand(s)
  <1>0. disturbances \in Nat BY DaysAssumption DEF ScheduleTypeOK
  <1>1. \A s \in Services : ~FailItself(s) /\ ~StartByHand(s)
    <2>1. disturbances' # disturbances + 1
      BY <1>0
    <2>2. QED BY <2>1 DEF FailItself, StartByHand
  <1>2. ASSUME NEW s \in Services, Step(s) PROVE disturbances' = disturbances
    BY <1>2 DEF Step, CheckUnits, CheckBackupFreshness, CheckReadiness, Succeed, Goto
  <1>3. disturbances' = disturbances
    BY <1>1, <1>2 DEF Next, NextDay, Outage, Administrator, ResetFailed, Elapse, vars
  <1>4. QED BY <1>1, <1>3

(* The interval of the drill and of the backup, with an hour for the night *)
(* the clocks are put back, fit into the limits: 169 of 170 hours and 25   *)
(* of 30 in the code.                                                      *)
LimitsFit == 24 * DrillDays + 1 <= DrillMaxHours /\ 25 <= BackupMaxHours

(* On the timetable, a guard looks before the time of day at which the log *)
(* was written: a log of so many days is no older than that, and an hour.  *)
LEMMA BackupInTime ==
  ASSUME LimitsFit, odd = {}, NEW days \in Nat, days <= 1
  PROVE  ~TooOld(OldestAge("health", "backup", days), BackupMaxHours)
  <1>1. OldestAge("health", "backup", days) = 24 * 60 * days + (4 * 60 + 43) - (4 * 60 + 47) + 60
    BY DEF OldestAge, Earliest, Latest, Begins, OverAt, ClockChange
  <1>2. QED BY <1>1, DaysAssumption DEF TooOld, LimitsFit

LEMMA DrillInTime ==
  ASSUME LimitsFit, odd = {}, NEW r \in Guarded, NEW days \in Nat, days <= DrillDays
  PROVE  ~TooOld(OldestAge(r, "drill", days), DrillMaxHours)
  <1>1. Latest(r) \in Int /\ Latest(r) <= 6 * 60 + 10
    BY DEF Guarded, Latest, OverAt
  <1>2. OldestAge(r, "drill", days) = 24 * 60 * days + Latest(r) - (6 * 60 + 10) + 60
    BY DEF OldestAge, Earliest, Begins, ClockChange
  <1>3. QED BY <1>1, <1>2, DaysAssumption DEF TooOld, LimitsFit

(* A step that starts nothing and fails nothing: a guard that lets its run *)
(* pass, or the end of the run.                                            *)
LEMMA GreenRun ==
  ASSUME LimitsFit, ScheduleTypeOK, TableInv, GreenInv,
         disturbances = 0, outages = 0, NEW s \in Services, Step(s)
  PROVE  /\ unit[s] = "activating" /\ UNCHANGED <<due, together, odd, weekday>>
         /\ \A t \in Services \ {s} : unit'[t] = unit[t] /\ pc'[t] = pc[t]
         /\ \/ /\ unit'[s] = "activating" /\ s \in Guarded /\ UNCHANGED logs
               /\ s = "backup" => pc'[s] # "freshness"
            \/ unit'[s] = "inactive" /\ pc'[s] = "work" /\ Succeed(s)
  <1>0. Failed = {} /\ s \in Running /\ unit[s] = "activating"
    BY DEF GreenInv, Step, CheckUnits, CheckBackupFreshness, CheckReadiness, Succeed, Running
  <1>1. CASE CheckUnits(s)
    <2>1. Goto(s, IF s = "health" THEN "freshness" ELSE "readiness") /\ s \in Guarded
      BY <1>0, <1>1 DEF CheckUnits, UnitsOk, GreenInv
    <2>2. QED BY <1>0, <2>1 DEF Goto, clock, ScheduleTypeOK
  <1>2. CASE CheckBackupFreshness(s)
    <2>1. s = "health"
      BY <1>2 DEF CheckBackupFreshness, GreenInv, Guarded
    <2>2. "backup" \in due /\ "backup" \notin Running
      BY <1>0, <2>1 DEF GreenInv, TableInv
    <2>3. backupLog = "done" /\ ~BackupMayBeStale(s)
      <3>1. backupLog = "done" /\ backupAge \in Nat /\ backupAge <= 1 /\ odd = {}
        BY <2>2 DEF GreenInv, ScheduleTypeOK
      <3>2. QED BY <2>1, <3>1, BackupInTime DEF BackupMayBeStale
    <2>4. Goto(s, "readiness") /\ UNCHANGED seen
      BY <1>2, <2>3 DEF CheckBackupFreshness
    <2>5. QED BY <1>0, <2>1, <2>4 DEF Goto, clock, ScheduleTypeOK, Guarded
  <1>3. CASE CheckReadiness(s)
    <2>1. s \in Guarded
      BY <1>3 DEF CheckReadiness, GreenInv
    <2>2. drillLog = "done" /\ drillAge \in Nat /\ drillAge <= DrillDays /\ odd = {}
      BY <1>0, <2>1, DaysAssumption DEF GreenInv, ScheduleTypeOK
    <2>3. ~RestoreMayBeStale(s)
      BY <2>1, <2>2, DrillInTime DEF RestoreMayBeStale
    <2>4. Goto(s, "work")
      BY <1>0, <1>3, <2>3 DEF CheckReadiness, UnitsOk
    <2>5. QED BY <1>0, <2>1, <2>4 DEF Goto, clock, ScheduleTypeOK
  <1>4. CASE Succeed(s)
    BY <1>4 DEF Succeed, clock, ScheduleTypeOK
  <1>5. QED BY <1>1, <1>2, <1>3, <1>4 DEF Step

LEMMA GreenStep ==
  ASSUME LimitsFit
  PROVE  ScheduleTypeOK /\ TableInv /\ GreenInv /\ [Next]_vars => GreenInv'
  <1> SUFFICES ASSUME ScheduleTypeOK, TableInv, GreenInv, [Next]_vars, disturbances' = 0, outages' = 0
               PROVE  GreenInv'
    BY DEF GreenInv
  <1>0. /\ disturbances = 0 /\ outages = 0 /\ ~Outage /\ ~together /\ Failed = {}
        /\ \A s \in Services : ~FailItself(s) /\ ~StartByHand(s)
    BY OutagesCounted, DisturbancesCounted DEF GreenInv
  <1>1. CASE NextDay
    <2>1. /\ due = {} /\ Running = {} /\ due' = DueOn(weekday') /\ ~together'
          /\ weekday' = (weekday + 1) % DrillDays
          /\ UNCHANGED <<unit, pc, odd, backupLog, drillLog>>
          /\ backupAge' = Older(backupAge) /\ drillAge' = Older(drillAge)
      BY <1>1 DEF NextDay
    <2>2. backupLog = "done" /\ backupAge <= 0 /\ drillLog = "done" /\ drillAge <= weekday
      BY <1>0, <2>1 DEF GreenInv
    <2>3. weekday' = IF weekday + 1 = DrillDays THEN 0 ELSE weekday + 1
      BY <2>1, NextWeekday DEF ScheduleTypeOK
    <2>4. backupAge' <= 1 /\ drillAge' <= weekday + 1
      BY <2>1, <2>2, OlderTyped, DaysAssumption DEF ScheduleTypeOK
    <2>5. "backup" \in due' /\ ("drill" \in due' <=> weekday' = 0)
      BY <2>1 DEF DueOn, Services
    <2>6. drillAge' <= IF "drill" \in due' THEN DrillDays ELSE weekday'
      BY <2>3, <2>4, <2>5, DaysAssumption DEF ScheduleTypeOK
    <2>7. Running' = {} /\ Failed' = {}
      BY <1>0, <2>1 DEF Running, Failed
    <2>8. QED BY <1>0, <2>1, <2>2, <2>4, <2>5, <2>6, <2>7 DEF GreenInv
  <1>2. CASE Administrator
    BY <1>0, <1>2 DEF Administrator, ResetFailed
  <1>3. ASSUME NEW s \in Services, Elapse(s) PROVE GreenInv'
    <2>1. /\ due' = due \ {s} /\ ~together' /\ odd' = {} /\ weekday' = weekday /\ s \in due
          /\ unit'[s] = "activating" /\ pc'[s] = (IF s \in Guarded THEN "units" ELSE "work")
          /\ \A t \in Services \ {s} : unit'[t] = unit[t] /\ pc'[t] = pc[t]
          /\ Before(s) \cap due = {} /\ OverBy(s) \cap Running = {}
          /\ UNCHANGED <<backupAge, drillAge>>
          /\ backupLog' = IF s = "backup" THEN "begun" ELSE backupLog
          /\ drillLog' = IF s = "drill" THEN "begun" ELSE drillLog
      BY <1>0, <1>3, StartEffect DEF Elapse, Start, GreenInv
    <2>2. Running' = Running \cup {s} /\ Failed' = {}
      BY <1>0, <2>1 DEF Running, Failed
    <2>3. CASE s = "health"
      <3>1. "backup" \in due /\ "backup" \notin Running /\ "drill" \notin Running
        BY <1>0, <2>1, <2>3 DEF TableInv, GreenInv, Guarded
      <3>2. QED BY <1>0, <2>1, <2>2, <2>3, <3>1 DEF GreenInv, Guarded, Services
    <2>4. CASE s = "backup"
      <3>1. "health" \notin due \cup Running /\ "drill" \notin Running
        BY <1>0, <2>1, <2>4 DEF Before, OverBy, GreenInv, Guarded
      <3>2. QED BY <1>0, <2>1, <2>2, <2>4, <3>1 DEF GreenInv, Guarded, Services
    <2>5. CASE s = "drill"
      <3>1. due \cap Guarded = {} /\ Running \cap Guarded = {}
        BY <2>1, <2>5 DEF Before, OverBy, Guarded, Services
      <3>2. QED BY <1>0, <2>1, <2>2, <2>5, <3>1 DEF GreenInv, Guarded, Services
    <2>6. CASE s \in {"m00h", "bag"}
      BY <1>0, <2>1, <2>2, <2>6 DEF GreenInv, Guarded, Services
    <2>7. QED BY <2>3, <2>4, <2>5, <2>6 DEF Services
  <1>4. ASSUME NEW s \in Services, Step(s) PROVE GreenInv'
    <2>1. /\ unit[s] = "activating" /\ UNCHANGED <<due, together, odd, weekday>>
          /\ \A t \in Services \ {s} : unit'[t] = unit[t] /\ pc'[t] = pc[t]
          /\ \/ /\ unit'[s] = "activating" /\ s \in Guarded /\ UNCHANGED logs
                /\ s = "backup" => pc'[s] # "freshness"
             \/ unit'[s] = "inactive" /\ pc'[s] = "work" /\ Succeed(s)
      BY <1>0, <1>4, GreenRun
    <2>2. s \in Running /\ s \notin due
      BY <1>0, <2>1 DEF TableInv, Running
    <2>3. CASE unit'[s] = "activating"
      <3>1. Running' = Running /\ Failed' = {} /\ s \in Guarded /\ UNCHANGED logs
            /\ (s = "backup" => pc'[s] # "freshness")
        BY <1>0, <2>1, <2>3 DEF Running, Failed
      <3>2. QED BY <1>0, <2>1, <3>1 DEF GreenInv, logs, Services
    <2>4. CASE unit'[s] = "inactive"
      <3>1. Running' = Running \ {s} /\ Failed' = {} /\ pc'[s] = "work" /\ Succeed(s)
        BY <1>0, <2>1, <2>4 DEF Running, Failed
      <3>2. /\ backupLog' = IF s = "backup" THEN "done" ELSE backupLog
            /\ backupAge' = IF s = "backup" THEN 0 ELSE backupAge
            /\ drillLog' = IF s = "drill" THEN "done" ELSE drillLog
            /\ drillAge' = IF s = "drill" THEN 0 ELSE drillAge
        BY <3>1 DEF Succeed
      <3>3. weekday \in Nat /\ 0 <= weekday BY DaysAssumption DEF ScheduleTypeOK
      <3>4. CASE s = "drill"
        BY <1>0, <2>1, <2>2, <3>1, <3>2, <3>3, <3>4 DEF GreenInv, Services
      <3>5. CASE s = "backup"
        BY <1>0, <2>1, <2>2, <3>1, <3>2, <3>5 DEF GreenInv, Services
      <3>6. CASE s \notin {"drill", "backup"}
        BY <1>0, <2>1, <2>2, <3>1, <3>2, <3>6 DEF GreenInv, Services
      <3>7. QED BY <3>4, <3>5, <3>6
    <2>5. QED BY <2>1, <2>3, <2>4
  <1>5. CASE UNCHANGED vars
    BY <1>0, <1>5 DEF vars, clock, logs, GreenInv, Running, Failed
  <1>6. QED BY <1>0, <1>1, <1>2, <1>3, <1>4, <1>5 DEF Next

(* The limits fit the timetable to the hour: while nothing disturbs the    *)
(* days, no guard makes a service fail because of the others, whatever the *)
(* random delays, also in the week the clocks are put back.                *)
THEOREM GreenWhileUndisturbed ==
  ASSUME LimitsFit
  PROVE  Spec => []GreenUntilDisturbed
  <1>1. Init => GreenInv
    BY DaysAssumption DEF Init, GreenInv, Running, Failed, Services, Guarded
  <1>2. GreenInv => GreenUntilDisturbed
    BY DEF GreenInv, GreenUntilDisturbed
  <1>3. ScheduleTypeOK /\ TableInv /\ GreenInv /\ [Next]_vars => GreenInv'
    BY GreenStep
  <1>4. QED BY <1>1, <1>2, <1>3, TableInvariant, PTL DEF Spec
=============================================================================
