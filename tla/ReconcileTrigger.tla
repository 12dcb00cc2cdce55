-------------------------- MODULE ReconcileTrigger --------------------------
(***************************************************************************)
(* The decisions of the reconcile trigger: given the trigger configuration *)
(* of the namespace and whether the hash of the custom resource (CR)       *)
(* changed, does this pass talk to OpenStack, and when is the next pass?   *)
(* Pure operators, translated from openstackconfig_controller.go; every    *)
(* duration is in seconds.                                                 *)
(*                                                                         *)
(* An interval string is abstracted to what time.ParseDuration makes of    *)
(* it: either it does not parse (the empty string included) or it is a     *)
(* number of seconds, possibly negative.                                   *)
(***************************************************************************)
EXTENDS Integers

Minute == 60
Day == 24 * 60 * Minute
defaultInterval == 5 * Minute   \* const reconcileInterval

\* What the Mode field may hold; "other" stands for any string the code does
\* not name.
Modes == {"", "immediate", "scheduled", "manual", "webhook", "other"}

Intervals == [parses: BOOLEAN, seconds: Int]
TriggerConfigs == [mode: Modes, interval: Intervals, immediateOnCRChange: BOOLEAN]

NoInterval == [parses |-> FALSE, seconds |-> 0]
Trigger(m, i, now) == [mode |-> m, interval |-> i, immediateOnCRChange |-> now]

\* The configuration of a namespace without a MultiNicOperator.
DefaultTrigger == Trigger("immediate", NoInterval, TRUE)

\* reconcileNormal's substitute when the MultiNicOperators cannot be listed.
FallbackTrigger == Trigger("manual", NoInterval, TRUE)

parseInterval(i) ==
    IF i.parses THEN (IF i.seconds < Minute THEN Minute ELSE i.seconds) ELSE 0

\* The defaults getReconcileTriggerConfig fills in.
WithDefaults(t) ==
    LET mode == IF t.mode = "" THEN "immediate" ELSE t.mode
    IN  Trigger(mode, t.interval, t.immediateOnCRChange \/ mode = "immediate")

\* The configurations getReconcileTriggerConfig may return when `operators' is
\* the set of trigger configurations of the namespace's MultiNicOperators: the
\* list comes from the cache in no particular order, and Items[0] is used.
getReconcileTriggerConfig(operators) ==
    IF operators = {} THEN {DefaultTrigger} ELSE {WithDefaults(t) : t \in operators}

Proceed == [proceed |-> TRUE, after |-> 0]
SkipFor(d) == [proceed |-> FALSE, after |-> d]

OrDefault(d) == IF d > 0 THEN d ELSE defaultInterval

\* Every mode but "scheduled" behaves as "manual": the default branch of the
\* switch repeats the "manual" one.  The interval returned along with TRUE is
\* never used by the caller.
shouldReconcile(t, changed) ==
    IF changed /\ t.immediateOnCRChange
    THEN Proceed
    ELSE CASE t.mode = "scheduled" ->
                 IF changed THEN SkipFor(OrDefault(parseInterval(t.interval))) ELSE Proceed
           [] OTHER -> IF changed THEN Proceed ELSE SkipFor(Day)

getNextReconcileInterval(t) ==
    CASE t.mode = "scheduled" -> OrDefault(parseInterval(t.interval))
      [] t.mode = "manual"    -> Day
      [] OTHER                -> defaultInterval

\* What TimerBasedPredicate may answer to an update that left the generation
\* alone (a status or metadata update).  In scheduled mode it depends on the
\* time since the last event it let through, which this operator leaves open.
TimerAnswers(t) ==
    CASE t.mode \in {"manual", "immediate", "webhook", ""} -> {FALSE}
      [] t.mode = "scheduled"                              -> BOOLEAN
      [] OTHER                                             -> {TRUE}
=============================================================================
