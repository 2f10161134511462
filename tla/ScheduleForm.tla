------------------------------- MODULE ScheduleForm -------------------------------
(* The dialog that makes a schedule (ScheduleFormModal) and the builder of cron    *)
(* expressions inside it (CronExpressionBuilder).  The builder is mounted when it  *)
(* is opened; after every render its two effects run in their order: one writes    *)
(* the expression the choices mean, one reads the expression of the form.          *)
(* An expression is the sequence of its fields: minute, hour, day of the month,    *)
(* month, day of the week.                                                         *)
(*                                                                                 *)
(* X_fault is X with a bug that X could have had (README, "Mutants").              *)
EXTENDS Integers, Sequences

CONSTANTS Typed,      \* expressions a user may type, one that is no cron expression among them
          Minutes, Hours, DaysOfMonth, DaysOfWeek,   \* what a user may choose
          FlowChoices,
          NoChoice,
          MaxTouches, \* bound: what a user does in the builder until it is closed
          MaxLists    \* bound: lists of flows in flight

ASSUME FormAssumption ==
  MaxTouches \in Nat /\ MaxLists \in Nat /\ NoChoice \notin FlowChoices

VARIABLES shown,     \* the dialog is open
          cron,      \* the form's expression
          flow,      \* the form's flow
          making,    \* isLoading
          creates,   \* requests to make a schedule in flight
          lists,     \* requests for the flows in flight
          loading,   \* loadingFlows
          flows,     \* the flows to choose from
          building,  \* showCronBuilder: the builder is mounted
          config, custom,   \* its state
          effects,   \* what its effects saw last: the choices and the form's expression
          touches    \* history: what the user has done in it

formVars == <<shown, cron, flow, making, creates, lists, loading, flows>>
cronVars == <<building, config, custom, effects, touches>>

----------------------------------------------------------------------------
(* Expressions *)

Star == -1              \* a field "*"
Every == -2            \* a field such as "*/5", which parseInt does not read
UpFrom(n) == 100 + n   \* a field such as "1-5", of which parseInt reads the 1
NoText == <<>>

\* A number, of which those from 100 on stand for ranges, or a sign
Field == Nat \union {Star, Every}

\* What is typed is fields, as long as it is; what is chosen is numbers.
ASSUME ExpressionsAssumption ==
  /\ Typed \subseteq Seq(Field)
  /\ Minutes \union Hours \union DaysOfMonth \union DaysOfWeek \subseteq Nat

Weekdays == <<0, 9, Star, Star, UpFrom(1)>>

\* parseInt(field) || default: a zero is replaced as well, also one that begins a range
Number(field, default) ==
  LET n == IF field >= 100 THEN field - 100 ELSE field IN IF n > 0 THEN n ELSE default

ConfigOf(type, minute, hour, dayOfMonth, dayOfWeek, expression) ==
  [type |-> type, minute |-> minute, hour |-> hour, dayOfMonth |-> dayOfMonth,
   dayOfWeek |-> dayOfWeek, expression |-> expression]
DefaultConfig(type, expression) == ConfigOf(type, 0, 9, 1, 1, expression)

\* The month is not read.
ParseCronExpression(e) ==
  IF Len(e) # 5 THEN DefaultConfig("custom", e)
  ELSE LET minute == Number(e[1], 0)
           hour == Number(e[2], 9)
           any == {i \in {1, 2, 3, 5} : e[i] = Star}
       IN CASE any = {1, 2, 3, 5} -> DefaultConfig("minute", e)
            [] any = {2, 3, 5} -> ConfigOf("hourly", minute, 9, 1, 1, e)
            [] 3 \in any /\ 5 \notin any -> ConfigOf("weekly", minute, hour, 1, Number(e[5], 1), e)
            [] 3 \notin any /\ 5 \in any -> ConfigOf("monthly", minute, hour, Number(e[3], 1), 1, e)
            [] {3, 5} \subseteq any /\ 2 \notin any -> ConfigOf("daily", minute, hour, 1, 1, e)
            [] OTHER -> DefaultConfig("custom", e)

BuildCronExpression_swapped(c) ==
  CASE c.type = "minute" -> <<Star, Star, Star, Star, Star>>
    [] c.type = "hourly" -> <<c.minute, Star, Star, Star, Star>>
    [] c.type = "daily" -> <<c.hour, c.minute, Star, Star, Star>>
    [] c.type = "weekly" -> <<c.minute, c.hour, Star, Star, c.dayOfWeek>>
    [] c.type = "monthly" -> <<c.minute, c.hour, c.dayOfMonth, Star, Star>>

BuildCronExpression(c) ==
  CASE c.type = "minute" -> <<Star, Star, Star, Star, Star>>
    [] c.type = "hourly" -> <<c.minute, Star, Star, Star, Star>>
    [] c.type = "daily" -> <<c.minute, c.hour, Star, Star, Star>>
    [] c.type = "weekly" -> <<c.minute, c.hour, Star, Star, c.dayOfWeek>>
    [] c.type = "monthly" -> <<c.minute, c.hour, c.dayOfMonth, Star, Star>>

Presets ==
  {<<m, Star, Star, Star, Star>> : m \in {Star, Every, 0}}
  \union {<<0, h, Star, Star, Star>> : h \in {Every, 9, 18}}
  \union {Weekdays, <<0, 9, Star, Star, 1>>, <<0, 9, 1, Star, Star>>}

\* The pattern of SchedulerService has no ranges.
ValidateCronExpression(e) == Len(e) = 5 /\ \A i \in 1..5 : e[i] < 100

----------------------------------------------------------------------------
(* The builder *)

Choices(c) == <<c.type, c.minute, c.hour, c.dayOfMonth, c.dayOfWeek>>
Never == <<>>   \* what an effect saw that has not run

Settled == effects = <<Choices(config), cron>>
FinalExpression == IF config.type = "custom" THEN custom ELSE config.expression

\* the effect on the choices
Rebuilt ==
  IF Choices(config) # effects[1] /\ config.type # "custom"
  THEN [config EXCEPT !.expression = BuildCronExpression(config)]
  ELSE config

\* Both run after one render, and what the second sets replaces what the first set.
RunEffects ==
  /\ building /\ ~Settled
  /\ IF cron # effects[2] /\ cron # NoText
     THEN config' = ParseCronExpression(cron) /\ custom' = cron
     ELSE config' = Rebuilt /\ UNCHANGED custom
  /\ effects' = <<Choices(config), cron>>
  /\ UNCHANGED <<formVars, building, touches>>

Mount(e) ==
  /\ building' = TRUE /\ touches' = 0
  /\ config' = DefaultConfig("daily", e) /\ custom' = e /\ effects' = <<Never, Never>>

\* Nothing of the builder outlives it.
Unmount ==
  /\ building' = FALSE /\ touches' = 0
  /\ config' = DefaultConfig("daily", NoText) /\ custom' = NoText /\ effects' = <<Never, Never>>

\* The effects have run before the user's next event.
Touch == building /\ Settled /\ touches < MaxTouches /\ touches' = touches + 1

ChooseType ==
  /\ Touch
  /\ \E type \in {"minute", "hourly", "daily", "weekly", "monthly", "custom"} :
       config' = [config EXCEPT !.type = type]
  /\ UNCHANGED <<formVars, building, custom, effects>>

\* The selects that are shown depend on the type.
ChooseTime ==
  /\ Touch
  /\ \/ /\ config.type \in {"hourly", "daily", "weekly", "monthly"}
        /\ \E m \in Minutes : config' = [config EXCEPT !.minute = m]
     \/ /\ config.type \in {"daily", "weekly", "monthly"}
        /\ \E h \in Hours : config' = [config EXCEPT !.hour = h]
     \/ /\ config.type = "weekly"
        /\ \E d \in DaysOfWeek : config' = [config EXCEPT !.dayOfWeek = d]
     \/ /\ config.type = "monthly"
        /\ \E d \in DaysOfMonth : config' = [config EXCEPT !.dayOfMonth = d]
  /\ UNCHANGED <<formVars, building, custom, effects>>

TypeCustom ==
  /\ Touch /\ config.type = "custom"
  /\ \E e \in Typed : custom' = e
  /\ UNCHANGED <<formVars, building, config, effects>>

\* handleCronExpressionChange: the preset is the form's at once
ChoosePreset ==
  /\ Touch
  /\ \E e \in Presets : config' = ParseCronExpression(e) /\ custom' = e /\ cron' = e
  /\ UNCHANGED <<shown, flow, making, creates, lists, loading, flows, building, effects>>

UseThisSchedule ==
  /\ building /\ Settled
  /\ cron' = FinalExpression /\ Unmount
  /\ UNCHANGED <<shown, flow, making, creates, lists, loading, flows>>

CancelBuilder ==
  /\ building /\ Settled
  /\ Unmount /\ UNCHANGED formVars

----------------------------------------------------------------------------
(* The form *)

FormInit ==
  /\ shown = FALSE /\ cron = Weekdays /\ flow = NoChoice
  /\ making = FALSE /\ creates = 0 /\ lists = 0 /\ loading = FALSE /\ flows = {}
  /\ building = FALSE /\ touches = 0
  /\ config = DefaultConfig("daily", NoText) /\ custom = NoText /\ effects = <<Never, Never>>

OpenForm ==
  /\ ~shown /\ shown' = TRUE
  /\ lists < MaxLists /\ lists' = lists + 1 /\ loading' = TRUE
  /\ UNCHANGED <<cron, flow, making, creates, flows, cronVars>>

FlowsArrive ==
  /\ lists > 0 /\ lists' = lists - 1 /\ loading' = FALSE
  /\ flows' \in {{}, FlowChoices}   \* an error empties the list
  /\ UNCHANGED <<shown, cron, flow, making, creates, cronVars>>

ChooseFlow ==
  /\ shown /\ ~building /\ ~loading
  /\ \E f \in flows : flow' = f
  /\ UNCHANGED <<shown, cron, making, creates, lists, loading, flows, cronVars>>

TypeCron ==
  /\ shown /\ ~building
  /\ \E e \in Typed \union {NoText} : cron' = e
  /\ UNCHANGED <<shown, flow, making, creates, lists, loading, flows, cronVars>>

OpenBuilder ==
  /\ shown /\ ~building
  /\ Mount(cron) /\ UNCHANGED formVars

\* reset() gives the form its first values.
HandleClose ==
  /\ shown' = FALSE /\ cron' = Weekdays /\ flow' = NoChoice
  /\ Unmount

CloseForm ==
  /\ shown /\ ~building /\ HandleClose
  /\ UNCHANGED <<making, creates, lists, loading, flows>>

\* what the schema asks of the fields, and the button of the form
CanSubmit == shown /\ ~building /\ flow # NoChoice /\ cron # NoText /\ ~making

SubmitForm ==
  /\ CanSubmit /\ ValidateCronExpression(cron)
  /\ creates' = creates + 1 /\ making' = TRUE
  /\ UNCHANGED <<shown, cron, flow, lists, loading, flows, cronVars>>

\* The answer closes the dialog, also one that has been opened since.
Saved ==
  /\ creates > 0 /\ creates' = creates - 1 /\ making' = FALSE
  /\ HandleClose
  /\ UNCHANGED <<lists, loading, flows>>

NotSaved ==
  /\ creates > 0 /\ creates' = creates - 1 /\ making' = FALSE
  /\ UNCHANGED <<shown, cron, flow, lists, loading, flows, cronVars>>

FormNext ==
  \/ OpenForm \/ FlowsArrive \/ ChooseFlow \/ TypeCron \/ OpenBuilder
  \/ CloseForm \/ SubmitForm \/ Saved \/ NotSaved
  \/ RunEffects \/ ChooseType \/ ChooseTime \/ TypeCustom \/ ChoosePreset
  \/ UseThisSchedule \/ CancelBuilder

----------------------------------------------------------------------------
(* Properties *)

\* The fields of an expression that the builder, opened and used at once, gives back
\* as they were: those it takes for "custom", those its choices can say (no month, no
\* hour or weekday zero), and those its first choices, daily at nine, are also read
\* from, which no effect then writes again.
Kept(e) ==
  LET number(i) == e[i] \in 0..99
      nonzero(i) == e[i] \in 1..99
      date == {i \in {3, 5} : e[i] # Star}
  IN /\ e # NoText
     /\ \/ Len(e) # 5
        \/ date = {3, 5}
        \/ date = {} /\ e[2] = Star /\ e[4] = Star /\ (e[1] = Star \/ number(1))
        \/ date = {} /\ e[2] # Star /\ e[4] = Star /\ number(1) /\ nonzero(2)
        \/ date = {} /\ e[2] # Star /\ Number(e[1], 0) = 0 /\ Number(e[2], 9) = 9
        \/ /\ date \in {{3}, {5}} /\ e[4] = Star /\ number(1) /\ nonzero(2)
           /\ \A i \in date : nonzero(i)

\* Opened and used without a choice, the builder gives back the form's expression if
\* and only if Kept says so: an expression that means another time, as the form's own
\* "0 9 * * 1-5", which becomes Mondays only, is changed without a question.
UntouchedIsKept ==
  building /\ Settled /\ touches = 0 => (FinalExpression = cron <=> Kept(cron))

\* A dialog that is closed and opened again while a schedule is being made cannot ask
\* for a second one before the first is answered.
OneCreateAtATime == creates <= 1
=============================================================================
