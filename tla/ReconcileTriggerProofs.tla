----------------------- MODULE ReconcileTriggerProofs -----------------------
(***************************************************************************)
(* What the trigger decisions guarantee for every configuration: there is  *)
(* always a next pass, and never sooner than a minute after the last one   *)
(* when it comes from a schedule.                                          *)
(***************************************************************************)
EXTENDS ReconcileTrigger, TLAPS

\* parseInterval answers 0 ("no interval") or at least one minute.
THEOREM ParsedIntervalFloor ==
    ASSUME NEW i \in Intervals
    PROVE  /\ parseInterval(i) \in Int
           /\ parseInterval(i) = 0 \/ parseInterval(i) >= Minute
BY DEF parseInterval, Intervals, Minute

\* Every completed pass asks for another one, in a minute at the earliest:
\* Result{RequeueAfter: getNextReconcileInterval(...)} never means "done".
THEOREM NextIntervalPositive ==
    ASSUME NEW t \in TriggerConfigs
    PROVE  /\ getNextReconcileInterval(t) \in Int
           /\ getNextReconcileInterval(t) >= Minute
<1>1. t.interval \in Intervals
  BY DEF TriggerConfigs
<1>2. OrDefault(parseInterval(t.interval)) \in Int /\ OrDefault(parseInterval(t.interval)) >= Minute
  BY <1>1, ParsedIntervalFloor DEF OrDefault, defaultInterval, Minute
<1>. QED
  BY <1>2 DEF getNextReconcileInterval, defaultInterval, Day, Minute

\* A pass that is skipped is repeated, in a minute at the earliest.
THEOREM SkipAsksForAnother ==
    ASSUME NEW t \in TriggerConfigs, NEW changed \in BOOLEAN,
           ~shouldReconcile(t, changed).proceed
    PROVE  /\ shouldReconcile(t, changed).after \in Int
           /\ shouldReconcile(t, changed).after >= Minute
<1>1. t.interval \in Intervals
  BY DEF TriggerConfigs
<1>2. OrDefault(parseInterval(t.interval)) \in Int /\ OrDefault(parseInterval(t.interval)) >= Minute
  BY <1>1, ParsedIntervalFloor DEF OrDefault, defaultInterval, Minute
<1>. QED
  BY <1>2 DEF shouldReconcile, Proceed, SkipFor, Day, Minute

\* With immediateOnCRChange, and in every mode but "scheduled" without it, a
\* changed CR is not skipped.
THEOREM ChangeProceeds ==
    ASSUME NEW t \in TriggerConfigs, NEW changed \in BOOLEAN, changed,
           t.immediateOnCRChange \/ t.mode # "scheduled"
    PROVE  shouldReconcile(t, changed) = Proceed
BY DEF shouldReconcile, TriggerConfigs

\* Only "scheduled" passes repeat the work without a change: every other mode,
\* "immediate" and "webhook" included, behaves as "manual".
THEOREM OnlyScheduleRepeats ==
    ASSUME NEW t \in TriggerConfigs
    PROVE  shouldReconcile(t, FALSE).proceed <=> t.mode = "scheduled"
BY DEF shouldReconcile, Proceed, SkipFor

\* The configuration used is well formed whatever the operators say, and its
\* mode is never empty.
THEOREM ConfigDefaults ==
    ASSUME NEW ops \in SUBSET TriggerConfigs
    PROVE  /\ getReconcileTriggerConfig(ops) \subseteq TriggerConfigs
           /\ getReconcileTriggerConfig(ops) # {}
           /\ \A t \in getReconcileTriggerConfig(ops) :
                t.mode # "" /\ (t.mode = "immediate" => t.immediateOnCRChange)
<1>1. DefaultTrigger \in TriggerConfigs
  <2>1. NoInterval \in Intervals
    BY DEF NoInterval, Intervals
  <2>2. "immediate" \in Modes
    BY DEF Modes
  <2>. QED
    BY <2>1, <2>2 DEF DefaultTrigger, Trigger, TriggerConfigs
<1>2. ASSUME NEW t \in TriggerConfigs
      PROVE  /\ WithDefaults(t) \in TriggerConfigs
             /\ WithDefaults(t).mode # ""
             /\ WithDefaults(t).mode = "immediate" => WithDefaults(t).immediateOnCRChange
  <2>1. t.mode \in Modes /\ t.interval \in Intervals /\ t.immediateOnCRChange \in BOOLEAN
    BY DEF TriggerConfigs
  <2>2. CASE t.mode = ""
    BY <2>1, <2>2 DEF WithDefaults, Trigger, TriggerConfigs, Modes
  <2>3. CASE t.mode # ""
    BY <2>1, <2>3 DEF WithDefaults, Trigger, TriggerConfigs, Modes
  <2>. QED
    BY <2>2, <2>3
<1>3. CASE ops = {}
  BY <1>1, <1>3 DEF getReconcileTriggerConfig, DefaultTrigger, Trigger
<1>4. CASE ops # {}
  BY <1>2, <1>4 DEF getReconcileTriggerConfig
<1>. QED
  BY <1>3, <1>4
=============================================================================
