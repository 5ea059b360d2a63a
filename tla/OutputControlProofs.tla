------------------------ MODULE OutputControlProofs ------------------------
(* Theorems about OutputControl. That a thermostat is not left at the high   *)
(* setpoint rests on what the listener carries: only commands of users get    *)
(* past "receive", none of them asks for the high setpoint itself, and once    *)
(* the first write has taken the thermostat out of eco mode nothing puts it    *)
(* back before the second one. That Eliona and ABB agree at rest rests on the   *)
(* queues: whatever they differ in, the newest message about it is on its way.  *)
EXTENDS OutputControl, TLAPS

LEMMA TypeInit == Init => TypeOK
<1> USE ConstantsAssumption
<1> SUFFICES ASSUME Init PROVE TypeOK
  OBVIOUS
<1>1. eliona \in [Functions -> Levels] /\ device \in [Functions -> Levels]
  BY DEF Init, Levels
<1>2. current \in Outputs
  BY DEF Init, Levels, Outputs
<1>3. outputs \in Seq(Outputs) /\ events \in Seq(Events)
  BY DEF Init
<1>4. eco \in BOOLEAN /\ dead \in BOOLEAN /\ listener \in Phases
  BY DEF Init, Phases
<1>5. commands \in 0..MaxCommands /\ changes \in 0..MaxChanges /\ failures \in 0..MaxFailures
  BY DEF Init
<1> QED
  BY <1>1, <1>2, <1>3, <1>4, <1>5 DEF TypeOK

\* A write to Eliona or to a device, of a value of its range.
LEMMA ElionaTyped ==
  ASSUME eliona \in [Functions -> Levels], outputs \in Seq(Outputs),
         NEW f \in Functions, NEW v \in Levels, NEW echo \in BOOLEAN, WriteEliona(f, v, echo)
  PROVE  eliona' \in [Functions -> Levels] /\ outputs' \in Seq(Outputs)
<1>1. [function |-> f, value |-> v, echo |-> echo] \in Outputs
  BY DEF Outputs
<1> QED
  BY <1>1 DEF WriteEliona

LEMMA DeviceTyped ==
  ASSUME TypeOK, NEW f \in Functions, NEW v \in Levels, WriteDevice(f, v)
  PROVE  /\ device' \in [Functions -> Levels]
         /\ eco' \in BOOLEAN
         /\ events' \in Seq(Events)
<1> DEFINE applied == IF f = SET_TEMP_TWICE /\ eco THEN High ELSE v
<1>1. applied \in Levels
  BY DEF Levels
<1>2. /\ device' = [device EXCEPT ![f] = applied]
      /\ eco' = IF f = SET_TEMP_TWICE THEN FALSE ELSE eco
      /\ events' = IF f \in Reported THEN Append(events, [function |-> f, value |-> applied])
                                     ELSE events
  BY DEF WriteDevice
<1> HIDE DEF applied
<1>3. [function |-> f, value |-> applied] \in Events
  BY <1>1 DEF Events
<1>4. eco' \in BOOLEAN
  BY <1>2, Zenon DEF TypeOK
<1>5. device' \in [Functions -> Levels]
  BY <1>1, <1>2 DEF TypeOK
<1>6. events' \in Seq(Events)
  <2>1. CASE f \in Reported
    BY <1>2, <1>3, <2>1 DEF TypeOK
  <2>2. CASE f \notin Reported
    BY <1>2, <2>2 DEF TypeOK
  <2> QED
    BY <2>1, <2>2
<1> QED
  BY <1>4, <1>5, <1>6

LEMMA TypeStep == TypeOK /\ [Next]_vars => TypeOK'
<1> USE ConstantsAssumption
<1> SUFFICES ASSUME TypeOK, [Next]_vars PROVE TypeOK'
  OBVIOUS
<1>1. ASSUME NEW f \in Functions, NEW v \in Values, UserSets(f, v) PROVE TypeOK'
  <2>1. v \in Levels
    BY DEF Levels
  <2>2. eliona' \in [Functions -> Levels] /\ outputs' \in Seq(Outputs)
    BY <1>1, <2>1, ElionaTyped DEF UserSets, TypeOK
  <2>3. commands' \in 0..MaxCommands
    BY <1>1 DEF UserSets, TypeOK
  <2> QED
    BY <1>1, <2>2, <2>3 DEF UserSets, TypeOK
<1>2. ASSUME NEW f \in Functions, NEW v \in Values, DeviceChanges(f, v) PROVE TypeOK'
  <2>1. v \in Levels /\ [function |-> f, value |-> v] \in Events
    BY DEF Levels, Events
  <2>2. device' \in [Functions -> Levels] /\ events' \in Seq(Events)
    BY <1>2, <2>1 DEF DeviceChanges, TypeOK
  <2>3. changes' \in 0..MaxChanges
    BY <1>2 DEF DeviceChanges, TypeOK
  <2> QED
    BY <1>2, <2>2, <2>3 DEF DeviceChanges, TypeOK
<1>3. CASE Receive
  <2>1. current' \in Outputs /\ outputs' \in Seq(Outputs)
    BY <1>3 DEF Receive, TypeOK
  <2>2. listener' \in Phases
    BY <1>3 DEF Receive, Step, Phases
  <2> QED
    BY <1>3, <2>1, <2>2 DEF Receive, TypeOK, counters
<1>4. CASE FetchInput
  BY <1>4 DEF FetchInput, Step, Phases, TypeOK, counters
<1>5. CASE SetInput
  <2>1. current.function \in Functions /\ current.value \in Levels
    BY DEF TypeOK, Outputs
  <2>2. /\ device' \in [Functions -> Levels] /\ eco' \in BOOLEAN /\ events' \in Seq(Events)
    BY <1>5, <2>1, DeviceTyped DEF SetInput
  <2> QED
    BY <1>5, <2>2 DEF SetInput, Step, Phases, TypeOK, counters
<1>6. CASE UpdateDatapoint
  <2>1. listener' \in Phases
    BY <1>6 DEF UpdateDatapoint, AfterUpdate, Step, Phases
  <2> QED
    BY <1>6, <2>1 DEF UpdateDatapoint, TypeOK, counters
<1>7. CASE SetInputAgain
  <2>1. current.function \in Functions /\ current.value \in Levels
    BY DEF TypeOK, Outputs
  <2>2. /\ device' \in [Functions -> Levels] /\ eco' \in BOOLEAN /\ events' \in Seq(Events)
    BY <1>7, <2>1, DeviceTyped DEF SetInputAgain
  <2> QED
    BY <1>7, <2>2 DEF SetInputAgain, Step, Phases, TypeOK, counters
<1>8. CASE ReturnToZero
  <2>1. current.function \in Functions /\ 0 \in Levels
    BY DEF TypeOK, Outputs, Levels
  <2>2. eliona' \in [Functions -> Levels] /\ outputs' \in Seq(Outputs)
    BY <1>8, <2>1, ElionaTyped DEF ReturnToZero, TypeOK
  <2> QED
    BY <1>8, <2>2 DEF ReturnToZero, Step, Phases, TypeOK, counters
<1>9. CASE FetchInputFails
  BY <1>9 DEF FetchInputFails, Fail, Step, Phases, TypeOK
<1>10. CASE SetAssetFails
  BY <1>10 DEF SetAssetFails, Fail, Step, Phases, TypeOK
<1>11. CASE WebsocketBreaks
  BY <1>11 DEF WebsocketBreaks, Fail, TypeOK
<1>12. CASE Restart
  <2>1. outputs' = << >> /\ events' = << >> /\ dead' = FALSE
        /\ UNCHANGED <<eliona, listener, current, device, eco, commands, changes, failures>>
    BY <1>12 DEF Restart, counters
  <2>2. outputs' \in Seq(Outputs) /\ events' \in Seq(Events)
    BY <2>1
  <2> QED
    BY <2>1, <2>2 DEF TypeOK
<1>13. CASE UpsertDatapointData
  <2>1. Head(events) \in Events /\ Tail(events) \in Seq(Events)
    BY <1>13 DEF UpsertDatapointData, TypeOK
  <2>2. Head(events).function \in Functions /\ Head(events).value \in Levels
    BY <2>1 DEF Events
  <2>3. eliona' \in [Functions -> Levels] /\ outputs' \in Seq(Outputs)
    BY <1>13, <2>2, ElionaTyped DEF UpsertDatapointData, TypeOK
  <2> QED
    BY <1>13, <2>1, <2>3 DEF UpsertDatapointData, TypeOK, counters
<1>14. CASE UNCHANGED vars
  BY <1>14 DEF vars, TypeOK
<1> QED
  BY <1>1, <1>2, <1>3, <1>4, <1>5, <1>6, <1>7, <1>8, <1>9, <1>10, <1>11, <1>12, <1>13, <1>14
  DEF Next, SetAsset

\* Every variable of the command path keeps its type, and the listener stays within
\* its loop (app.go:240-333).
THEOREM TypeCorrect == Spec => []TypeOK
  BY TypeInit, TypeStep, PTL DEF Spec

-----------------------------------------------------------------------------
(* The setpoint *)

\* What users ask for, on its way to the listener and in its hands.
CommandsInRange ==
  /\ \A i \in 1..Len(outputs) : ~ outputs[i].echo => outputs[i].value \in Values
  /\ listener # "receive" => current.value \in Values

\* Between the two writes the thermostat is out of eco mode, and it is nowhere else
\* at the high setpoint.
BetweenWrites ==
  /\ listener = "again" => current.function = SET_TEMP_TWICE
  /\ listener \in {"update", "again"} /\ current.function = SET_TEMP_TWICE => ~ eco
  /\ /\ failures = 0
     /\ SET_TEMP_TWICE \in Functions
     /\ device[SET_TEMP_TWICE] = High
     => listener \in {"update", "again"} /\ current.function = SET_TEMP_TWICE

SetpointInv == CommandsInRange /\ BetweenWrites

LEMMA SetpointInit == Init => SetpointInv
<1> USE ConstantsAssumption
<1> SUFFICES ASSUME Init PROVE SetpointInv
  OBVIOUS
<1>1. SET_TEMP_TWICE \in Functions => device[SET_TEMP_TWICE] = 0
  BY DEF Init
<1> QED
  BY <1>1 DEF Init, SetpointInv, CommandsInRange, BetweenWrites

\* A write to Eliona adds a message; no value a user has not asked for gets a
\* reference other than the app's.
LEMMA ElionaInRange ==
  ASSUME TypeOK, CommandsInRange, NEW f, NEW v, NEW echo \in BOOLEAN,
         ~ echo => v \in Values, WriteEliona(f, v, echo)
  PROVE  \A i \in 1..Len(outputs') : ~ outputs'[i].echo => outputs'[i].value \in Values
<1> DEFINE m == [function |-> f, value |-> v, echo |-> echo]
<1>1. outputs' = Append(outputs, m)
  BY DEF WriteEliona
<1>2. m.echo = echo /\ m.value = v
  OBVIOUS
<1> HIDE DEF m
<1>3. outputs \in Seq(Outputs)
  BY DEF TypeOK
<1>4. ASSUME NEW i \in 1..Len(outputs'), ~ outputs'[i].echo PROVE outputs'[i].value \in Values
  <2>1. CASE i = Len(outputs) + 1
    BY <1>1, <1>2, <1>3, <1>4, <2>1
  <2>2. CASE i # Len(outputs) + 1
    <3>1. i \in 1..Len(outputs) /\ outputs'[i] = outputs[i]
      BY <1>1, <1>3, <2>2
    <3> QED
      BY <1>4, <3>1 DEF CommandsInRange
  <2> QED
    BY <2>1, <2>2
<1> QED
  BY <1>4

LEMMA SetpointStep == TypeOK /\ SetpointInv /\ [Next]_vars => SetpointInv'
<1> USE ConstantsAssumption DEF SetpointInv
<1> SUFFICES ASSUME TypeOK, SetpointInv, [Next]_vars PROVE SetpointInv'
  OBVIOUS
<1>1. ASSUME NEW f \in Functions, NEW v \in Values, UserSets(f, v) PROVE SetpointInv'
  <2>1. CommandsInRange'
    BY <1>1, ElionaInRange DEF UserSets, CommandsInRange
  <2>2. BetweenWrites'
    BY <1>1 DEF UserSets, BetweenWrites
  <2> QED
    BY <2>1, <2>2
<1>2. ASSUME NEW f \in Functions, NEW v \in Values, DeviceChanges(f, v) PROVE SetpointInv'
  <2>1. CommandsInRange'
    BY <1>2 DEF DeviceChanges, CommandsInRange
  <2>2. BetweenWrites'
    <3>1. device' = [device EXCEPT ![f] = v] /\ v # High
      BY <1>2 DEF DeviceChanges
    <3>2. SET_TEMP_TWICE \in Functions /\ device'[SET_TEMP_TWICE] = High
          => device[SET_TEMP_TWICE] = High
      BY <3>1 DEF TypeOK
    <3> QED
      BY <1>2, <3>2 DEF DeviceChanges, BetweenWrites
  <2> QED
    BY <2>1, <2>2
<1>3. CASE Receive
  <2>1. /\ outputs # << >> /\ listener = "receive"
        /\ current' = outputs[1]
        /\ Len(outputs) \in Nat /\ Len(outputs) >= 1 /\ Len(outputs') = Len(outputs) - 1
        /\ \A i \in 1..Len(outputs') : outputs'[i] = outputs[i + 1]
    BY <1>3 DEF Receive, Step, TypeOK
  <2>2. listener' = IF outputs[1].echo THEN "receive" ELSE "lookup"
    BY <1>3 DEF Receive, Step, TypeOK
  <2>3. CommandsInRange'
    BY <2>1, <2>2 DEF CommandsInRange
  <2>4. BetweenWrites'
    BY <1>3, <2>1, <2>2 DEF Receive, BetweenWrites, counters
  <2> QED
    BY <2>3, <2>4
<1>4. CASE FetchInput
  BY <1>4 DEF FetchInput, Step, CommandsInRange, BetweenWrites, counters
<1>5. CASE SetInput
  <2>1. /\ listener = "write" /\ listener' = "update"
        /\ UNCHANGED <<outputs, current, failures>>
    BY <1>5 DEF SetInput, Step, counters
  <2>2. CommandsInRange'
    BY <2>1 DEF CommandsInRange
  <2>3. CASE current.function = SET_TEMP_TWICE
    <3>1. ~ eco'
      BY <1>5, <2>3 DEF SetInput, WriteDevice
    <3> QED
      BY <2>1, <2>2, <2>3, <3>1 DEF BetweenWrites
  <2>4. CASE current.function # SET_TEMP_TWICE
    <3>1. SET_TEMP_TWICE \in Functions => device'[SET_TEMP_TWICE] = device[SET_TEMP_TWICE]
      BY <1>5, <2>4 DEF SetInput, WriteDevice, TypeOK
    <3> QED
      BY <2>1, <2>2, <2>4, <3>1 DEF BetweenWrites
  <2> QED
    BY <2>3, <2>4
<1>6. CASE UpdateDatapoint
  <2>1. /\ listener = "update" /\ listener' = AfterUpdate
        /\ UNCHANGED <<outputs, current, device, eco, failures>>
    BY <1>6 DEF UpdateDatapoint, Step, counters
  <2>2. CASE current.function = SET_TEMP_TWICE
    <3>1. AfterUpdate = "again"
      BY <2>2 DEF AfterUpdate, SET_TEMP_TWICE, SET_SCENE_RETURN_TO_ZERO
    <3> QED
      BY <2>1, <2>2, <3>1 DEF CommandsInRange, BetweenWrites
  <2>3. CASE current.function # SET_TEMP_TWICE
    <3>1. AfterUpdate \in {"zero", "receive"}
      BY <2>3 DEF AfterUpdate, SET_TEMP_TWICE, SET_SCENE_RETURN_TO_ZERO
    <3> QED
      BY <2>1, <2>3, <3>1 DEF CommandsInRange, BetweenWrites
  <2> QED
    BY <2>2, <2>3
<1>7. CASE SetInputAgain
  <2>1. /\ listener = "again" /\ listener' = "receive"
        /\ UNCHANGED <<outputs, current, failures>>
    BY <1>7 DEF SetInputAgain, Step, counters
  <2>2. current.function = SET_TEMP_TWICE /\ ~ eco /\ current.value \in Values
    BY <2>1 DEF CommandsInRange, BetweenWrites
  <2>3. device' = [device EXCEPT ![SET_TEMP_TWICE] = current.value]
    BY <1>7, <2>2 DEF SetInputAgain, WriteDevice
  <2>4. SET_TEMP_TWICE \in Functions => device'[SET_TEMP_TWICE] # High
    BY <2>2, <2>3 DEF TypeOK
  <2> QED
    BY <2>1, <2>4 DEF CommandsInRange, BetweenWrites
<1>8. CASE ReturnToZero
  <2>1. /\ listener = "zero" /\ listener' = "receive"
        /\ WriteEliona(current.function, 0, TRUE)
        /\ UNCHANGED <<current, device, eco, failures>>
    BY <1>8 DEF ReturnToZero, Step, counters
  <2>2. CommandsInRange'
    BY <2>1, ElionaInRange DEF CommandsInRange
  <2> QED
    BY <2>1, <2>2 DEF BetweenWrites
<1>9. CASE FetchInputFails
  BY <1>9 DEF FetchInputFails, Fail, Step, CommandsInRange, BetweenWrites, TypeOK
<1>10. CASE SetAssetFails
  BY <1>10 DEF SetAssetFails, Fail, Step, CommandsInRange, BetweenWrites, TypeOK
<1>11. CASE WebsocketBreaks
  BY <1>11 DEF WebsocketBreaks, Fail, CommandsInRange, BetweenWrites, TypeOK
<1>12. CASE Restart
  BY <1>12 DEF Restart, CommandsInRange, BetweenWrites, counters
<1>13. CASE UpsertDatapointData
  <2>1. /\ WriteEliona(Head(events).function, Head(events).value, TRUE)
        /\ UNCHANGED <<listener, current, device, eco, failures>>
    BY <1>13 DEF UpsertDatapointData, counters
  <2>2. CommandsInRange'
    BY <2>1, ElionaInRange DEF CommandsInRange
  <2> QED
    BY <2>1, <2>2 DEF BetweenWrites
<1>14. CASE UNCHANGED vars
  BY <1>14 DEF vars, CommandsInRange, BetweenWrites
<1> QED
  BY <1>1, <1>2, <1>3, <1>4, <1>5, <1>6, <1>7, <1>8, <1>9, <1>10, <1>11, <1>12, <1>13, <1>14
  DEF Next, SetAsset

\* As long as no call has failed, the listener does not leave a command with the
\* thermostat at the setpoint it answers eco mode with (app.go:303-318), however
\* commands and changes at the device cross, for any values and any number of them.
THEOREM SetTwiceIsSet == Spec => []TemperatureSetWithoutFailure
<1>1. SetpointInv => TemperatureSetWithoutFailure
  BY DEF SetpointInv, BetweenWrites, TemperatureSetWithoutFailure
<1> QED
  BY <1>1, TypeInit, TypeStep, SetpointInit, SetpointStep, PTL DEF Spec
-----------------------------------------------------------------------------
(* Agreement *)

\* Message i of q is the last one about f.
Newest(q, f, i) ==
  /\ q[i].function = f
  /\ \A j \in (i + 1)..Len(q) : q[j].function # f

\* What the queue q says of f: the newest message about f, if there is one, has value x;
\* there is a message about f; none of them was written by the app itself.
Tells(q, f, x) == \A i \in 1..Len(q) : Newest(q, f, i) => q[i].value = x
Named(q, f) == \E i \in 1..Len(q) : q[i].function = f
NotEchoed(q, f) == \A i \in 1..Len(q) : q[i].function = f => ~ q[i].echo

\* A command of a user about f is on its way to the listener.
Commanded(f) == \E i \in 1..Len(outputs) : outputs[i].function = f /\ ~ outputs[i].echo

\* The listener has a command of f in its hands; one it has not really written yet.
AtWork(f) == listener # "receive" /\ current.function = f
Unwritten(f) ==
  /\ current.function = f
  /\ \/ listener \in {"lookup", "write"}
     \/ f = SET_TEMP_TWICE /\ listener \in {"update", "again"}

\* What ABB does not report is not among the events, and the listener writes back to
\* Eliona for scenes only.
SourcesInv ==
  /\ \A i \in 1..Len(events) : events[i].function \in Reported
  /\ listener = "zero" => current.function = SET_SCENE_RETURN_TO_ZERO

\* A function ABB reports: the newest event tells the device's value, and without an
\* event Eliona shows that value, or a command is on its way to change it.
ReportedInv == \A f \in Reported \ {SET_SCENE_RETURN_TO_ZERO} :
  /\ Tells(events, f, device[f])
  /\ \/ Named(events, f)
     \/ Commanded(f)
     \/ current.function = f /\ listener \in {"lookup", "write"}
     \/ eliona[f] = device[f]

\* A function ABB does not report: only users write it, the newest command is what Eliona
\* shows, and it is on its way, in the listener's hands, or written.
SilentInv == \A f \in Functions \ (Reported \union {SET_SCENE_RETURN_TO_ZERO}) :
  /\ NotEchoed(outputs, f)
  /\ Tells(outputs, f, eliona[f])
  /\ \/ Named(outputs, f)
     \/ (IF Unwritten(f) THEN current.value ELSE device[f]) = eliona[f]

\* A scene that is not at zero will be set back by the listener.
SceneInv == SET_SCENE_RETURN_TO_ZERO \in Functions \ Reported =>
  \/ Commanded(SET_SCENE_RETURN_TO_ZERO)
  \/ AtWork(SET_SCENE_RETURN_TO_ZERO)
  \/ eliona[SET_SCENE_RETURN_TO_ZERO] = 0

AgreeInv == SourcesInv /\ ReportedInv /\ SilentInv /\ SceneInv

Undisturbed == failures = 0 /\ ~ dead

\* What is in a queue stays in it, but for the first message when that is taken; if no
\* other message names its function, the first was the newest.
LEMMA AppendKeeps ==
  ASSUME NEW S, NEW q \in Seq(S), NEW m \in S
  PROVE  /\ Len(q) + 1 \in 1..Len(Append(q, m)) /\ Append(q, m)[Len(q) + 1] = m
         /\ \A i \in 1..Len(q) : i \in 1..Len(Append(q, m)) /\ Append(q, m)[i] = q[i]
         /\ \A i \in 1..Len(Append(q, m)) :
              Append(q, m)[i] = m \/ (i \in 1..Len(q) /\ Append(q, m)[i] = q[i])
<1>1. /\ Len(q) \in Nat /\ Len(Append(q, m)) = Len(q) + 1
      /\ Append(q, m)[Len(q) + 1] = m
      /\ \A j \in 1..Len(q) : Append(q, m)[j] = q[j]
  OBVIOUS
<1>2. ASSUME NEW i \in 1..Len(Append(q, m))
      PROVE  Append(q, m)[i] = m \/ (i \in 1..Len(q) /\ Append(q, m)[i] = q[i])
  BY <1>1
<1>3. \A i \in 1..Len(q) : i \in 1..Len(Append(q, m))
  BY <1>1
<1>4. Len(q) + 1 \in 1..Len(Append(q, m))
  BY <1>1
<1> QED
  BY <1>1, <1>2, <1>3, <1>4

LEMMA TailKeeps ==
  ASSUME NEW S, NEW q \in Seq(S), q # << >>
  PROVE  /\ 1 \in 1..Len(q) /\ q[1] = Head(q)
         /\ \A i \in 1..Len(Tail(q)) : i + 1 \in 1..Len(q) /\ Tail(q)[i] = q[i + 1]
         /\ \A i \in 1..Len(q) :
              i = 1 \/ (i - 1 \in 1..Len(Tail(q)) /\ Tail(q)[i - 1] = q[i])
<1>1. /\ Len(q) \in Nat /\ Len(q) >= 1 /\ Len(Tail(q)) = Len(q) - 1
      /\ \A j \in 1..Len(Tail(q)) : Tail(q)[j] = q[j + 1]
      /\ q[1] = Head(q)
  OBVIOUS
<1>2. ASSUME NEW i \in 1..Len(q), i # 1
      PROVE  i - 1 \in 1..Len(Tail(q)) /\ Tail(q)[i - 1] = q[i]
  <2>1. i - 1 \in 1..Len(Tail(q)) /\ (i - 1) + 1 = i
    BY <1>1, <1>2
  <2> QED
    BY <1>1, <2>1
<1>3. \A i \in 1..Len(Tail(q)) : i + 1 \in 1..Len(q)
  BY <1>1
<1>4. 1 \in 1..Len(q)
  BY <1>1
<1> QED
  BY <1>1, <1>2, <1>3, <1>4

LEMMA NamedAppended ==
  ASSUME NEW S, NEW q \in Seq(S), NEW m \in S, NEW f
  PROVE  Named(Append(q, m), f) <=> (Named(q, f) \/ m.function = f)
  BY AppendKeeps DEF Named

LEMMA NamedLeft ==
  ASSUME NEW S, NEW q \in Seq(S), q # << >>, NEW f
  PROVE  /\ Named(Tail(q), f) => Named(q, f)
         /\ Named(q, f) => Named(Tail(q), f) \/ Head(q).function = f
<1>1. Named(Tail(q), f) => Named(q, f)
  BY TailKeeps DEF Named
<1>2. ASSUME Named(q, f), Head(q).function # f PROVE Named(Tail(q), f)
  <2>1. PICK i \in 1..Len(q) : q[i].function = f
    BY <1>2 DEF Named
  <2>2. i - 1 \in 1..Len(Tail(q)) /\ Tail(q)[i - 1] = q[i]
    BY <1>2, <2>1, TailKeeps
  <2> QED
    BY <2>1, <2>2 DEF Named
<1> QED
  BY <1>1, <1>2

\* The newest message of a queue that has got one more, and of one that has lost its first.
LEMMA NewestAppended ==
  ASSUME NEW S, NEW q \in Seq(S), NEW m \in S, NEW f,
         NEW i \in 1..Len(Append(q, m)), Newest(Append(q, m), f, i)
  PROVE  \/ m.function = f /\ Append(q, m)[i] = m
         \/ /\ m.function # f
            /\ i \in 1..Len(q)
            /\ Append(q, m)[i] = q[i]
            /\ Newest(q, f, i)
<1> DEFINE r == Append(q, m)
<1>1. /\ Len(q) \in Nat /\ Len(r) = Len(q) + 1
      /\ r[Len(q) + 1] = m
      /\ \A j \in 1..Len(q) : r[j] = q[j]
  OBVIOUS
<1>2. r[i].function = f /\ \A j \in (i + 1)..Len(r) : r[j].function # f
  BY DEF Newest
<1> HIDE DEF r
<1>3. i \in 1..Len(r)
  BY DEF r
<1>4. CASE i = Len(q) + 1
  BY <1>1, <1>2, <1>4 DEF r
<1>5. CASE i # Len(q) + 1
  <2>1. i \in 1..Len(q) /\ Len(q) + 1 \in (i + 1)..Len(r)
    BY <1>1, <1>3, <1>5
  <2>2. m.function # f /\ r[i] = q[i]
    BY <1>1, <1>2, <2>1
  <2>3. \A j \in (i + 1)..Len(q) : q[j].function # f
    <3> TAKE j \in (i + 1)..Len(q)
    <3>1. j \in 1..Len(q) /\ j \in (i + 1)..Len(r)
      BY <1>1, <2>1
    <3> QED
      BY <1>1, <1>2, <3>1
  <2> QED
    BY <1>2, <2>1, <2>2, <2>3 DEF Newest, r
<1> QED
  BY <1>4, <1>5

LEMMA NewestLeft ==
  ASSUME NEW S, NEW q \in Seq(S), q # << >>, NEW f,
         NEW i \in 1..Len(Tail(q)), Newest(Tail(q), f, i)
  PROVE  i + 1 \in 1..Len(q) /\ Tail(q)[i] = q[i + 1] /\ Newest(q, f, i + 1)
<1>1. /\ Len(q) \in Nat /\ Len(Tail(q)) = Len(q) - 1
      /\ \A j \in 1..Len(Tail(q)) : Tail(q)[j] = q[j + 1]
  OBVIOUS
<1>2. i + 1 \in 1..Len(q) /\ Tail(q)[i] = q[i + 1]
  BY <1>1
<1>3. \A j \in ((i + 1) + 1)..Len(q) : q[j].function # f
  <2> TAKE j \in ((i + 1) + 1)..Len(q)
  <2>1. j - 1 \in 1..Len(Tail(q)) /\ j - 1 \in (i + 1)..Len(Tail(q)) /\ (j - 1) + 1 = j
    BY <1>1
  <2> QED
    BY <1>1, <2>1 DEF Newest
<1> QED
  BY <1>2, <1>3 DEF Newest

\* What a queue tells of f after one more message, after its first was taken, and what that
\* first told if it was the last about f.
LEMMA AppendTells ==
  ASSUME NEW S, NEW q \in Seq(S), NEW m \in S, NEW f
  PROVE  /\ m.function = f => Tells(Append(q, m), f, m.value)
         /\ \A x : m.function # f /\ Tells(q, f, x) => Tells(Append(q, m), f, x)
<1>1. ASSUME NEW i \in 1..Len(Append(q, m)), Newest(Append(q, m), f, i)
      PROVE  \/ m.function = f /\ Append(q, m)[i] = m
             \/ /\ m.function # f
                /\ i \in 1..Len(q)
                /\ Append(q, m)[i] = q[i]
                /\ Newest(q, f, i)
  BY <1>1, NewestAppended
<1> QED
  BY <1>1 DEF Tells

LEMMA TailTells ==
  ASSUME NEW S, NEW q \in Seq(S), q # << >>, NEW f, NEW x, Tells(q, f, x)
  PROVE  Tells(Tail(q), f, x)
<1>1. ASSUME NEW i \in 1..Len(Tail(q)), Newest(Tail(q), f, i) PROVE Tail(q)[i].value = x
  <2>1. i + 1 \in 1..Len(q) /\ Tail(q)[i] = q[i + 1] /\ Newest(q, f, i + 1)
    BY <1>1, NewestLeft
  <2> QED
    BY <2>1 DEF Tells
<1> QED
  BY <1>1 DEF Tells

LEMMA FirstTells ==
  ASSUME NEW S, NEW q \in Seq(S), q # << >>, NEW f, NEW x, Tells(q, f, x),
         Head(q).function = f, ~ Named(Tail(q), f)
  PROVE  Head(q).value = x
<1>1. ASSUME NEW j \in (1 + 1)..Len(q) PROVE q[j].function # f
  <2>1. j \in 1..Len(q) /\ j # 1
    OBVIOUS
  <2>2. j - 1 \in 1..Len(Tail(q)) /\ Tail(q)[j - 1] = q[j]
    BY <2>1, TailKeeps
  <2> QED
    BY <2>2 DEF Named
<1>2. 1 \in 1..Len(q) /\ q[1] = Head(q)
  BY TailKeeps
<1>3. Newest(q, f, 1)
  BY <1>1, <1>2 DEF Newest
<1> QED
  BY <1>2, <1>3 DEF Tells

LEMMA AgreeInit == Init => AgreeInv
<1> USE ConstantsAssumption
<1> SUFFICES ASSUME Init PROVE AgreeInv
  OBVIOUS
<1>1. \A f \in Functions : eliona[f] = 0 /\ device[f] = 0
  BY DEF Init
<1>2. Len(outputs) = 0 /\ Len(events) = 0 /\ listener = "receive"
  BY DEF Init
<1>3. \A i : i \notin 1..Len(outputs) /\ i \notin 1..Len(events)
  BY <1>2
<1> QED
  BY <1>1, <1>2, <1>3 DEF AgreeInv, SourcesInv, ReportedInv, SilentInv, SceneInv, Unwritten,
     Tells, NotEchoed

\* What a write to Eliona and a write to a device leave of what is known.
LEMMA ElionaWritten ==
  ASSUME TypeOK, NEW f \in Functions, NEW v \in Levels, NEW echo \in BOOLEAN,
         WriteEliona(f, v, echo), NEW g \in Functions
  PROVE  /\ eliona'[g] = IF g = f THEN v ELSE eliona[g]
         /\ Named(outputs, g) \/ g = f => Named(outputs', g)
         /\ Commanded(g) \/ (g = f /\ ~ echo) => Commanded(g)'
         /\ NotEchoed(outputs, g) /\ (g # f \/ ~ echo) => NotEchoed(outputs', g)
         /\ Tells(outputs, g, eliona[g]) => Tells(outputs', g, eliona'[g])
<1> DEFINE m == [function |-> f, value |-> v, echo |-> echo]
<1>1. /\ outputs \in Seq(Outputs) /\ outputs' = Append(outputs, m)
      /\ eliona' = [eliona EXCEPT ![f] = v] /\ eliona \in [Functions -> Levels]
  BY DEF WriteEliona, TypeOK
<1>2. m \in Outputs /\ m.function = f /\ m.value = v /\ m.echo = echo
  BY DEF Outputs
<1> HIDE DEF m
<1>3. eliona'[g] = IF g = f THEN v ELSE eliona[g]
  BY <1>1
<1>4. Named(outputs', g) <=> (Named(outputs, g) \/ m.function = g)
  BY <1>1, <1>2, NamedAppended
<1>5. Commanded(g) \/ (g = f /\ ~ echo) => Commanded(g)'
  BY <1>1, <1>2, AppendKeeps DEF Commanded
<1>6. NotEchoed(outputs, g) /\ (g # f \/ ~ echo) => NotEchoed(outputs', g)
  BY <1>1, <1>2, AppendKeeps DEF NotEchoed
<1>7. Tells(outputs, g, eliona[g]) => Tells(outputs', g, eliona'[g])
  BY <1>1, <1>2, <1>3, AppendTells
<1> QED
  BY <1>2, <1>3, <1>4, <1>5, <1>6, <1>7

LEMMA DeviceReports ==
  ASSUME TypeOK, SourcesInv, NEW f \in Reported, NEW v \in Levels,
         device' = [device EXCEPT ![f] = v],
         events' = Append(events, [function |-> f, value |-> v])
  PROVE  /\ \A i \in 1..Len(events') : events'[i].function \in Reported
         /\ Named(events', f)
         /\ \A g : Named(events, g) => Named(events', g)
         /\ \A g \in Reported :
              /\ g # f => device'[g] = device[g]
              /\ Tells(events, g, device[g]) => Tells(events', g, device'[g])
<1> USE ConstantsAssumption
<1> DEFINE m == [function |-> f, value |-> v]
<1>1. events \in Seq(Events) /\ events' = Append(events, m) /\ device \in [Functions -> Levels]
  BY DEF TypeOK
<1>2. m \in Events /\ m.function = f /\ m.value = v
  BY DEF Events
<1> HIDE DEF m
<1>3. \A i \in 1..Len(events') : events'[i].function \in Reported
  BY <1>1, <1>2, AppendKeeps DEF SourcesInv
<1>4. \A g : Named(events', g) <=> (Named(events, g) \/ m.function = g)
  BY <1>1, <1>2, NamedAppended
<1>5. \A g \in Reported : device'[g] = IF g = f THEN v ELSE device[g]
  BY <1>1
<1>6. ASSUME NEW g \in Reported, Tells(events, g, device[g])
      PROVE  Tells(events', g, device'[g])
  BY <1>1, <1>2, <1>5, <1>6, AppendTells
<1> QED
  BY <1>2, <1>3, <1>4, <1>5, <1>6

\* A write of a device: the event tells what the device has made of it.
LEMMA DeviceWritten ==
  ASSUME TypeOK, AgreeInv, NEW f \in Functions, NEW v \in Levels, WriteDevice(f, v),
         UNCHANGED <<eliona, outputs>>,
         current.function = f, listener \in {"write", "again"}, listener' \in {"update", "receive"}
  PROVE  /\ \A i \in 1..Len(events') : events'[i].function \in Reported
         /\ ReportedInv'
<1> USE ConstantsAssumption
<1> DEFINE applied == IF f = SET_TEMP_TWICE /\ eco THEN High ELSE v
<1>1. /\ device' = [device EXCEPT ![f] = applied] /\ device \in [Functions -> Levels]
      /\ events' = IF f \in Reported THEN Append(events, [function |-> f, value |-> applied])
                                     ELSE events
  BY DEF WriteDevice, TypeOK
<1>2. applied \in Levels
  BY DEF Levels
<1> HIDE DEF applied
<1>3. \A g : Commanded(g)' <=> Commanded(g)
  BY DEF Commanded
<1>4. CASE f \in Reported
  <2>1. /\ \A i \in 1..Len(events') : events'[i].function \in Reported
        /\ Named(events', f)
        /\ \A g : Named(events, g) => Named(events', g)
        /\ \A g \in Reported :
             /\ g # f => device'[g] = device[g]
             /\ Tells(events, g, device[g]) => Tells(events', g, device'[g])
    BY <1>1, <1>2, <1>4, DeviceReports DEF AgreeInv
  <2> QED
    BY <1>3, <2>1 DEF AgreeInv, ReportedInv
<1>5. CASE f \notin Reported
  <2>1. events' = events /\ \A g \in Reported : g # f /\ device'[g] = device[g]
    BY <1>1, <1>5
  <2> QED
    BY <1>3, <2>1 DEF AgreeInv, SourcesInv, ReportedInv
<1> QED
  BY <1>4, <1>5

LEMMA UserSetsAgrees ==
  ASSUME TypeOK, AgreeInv, NEW f \in Functions, NEW v \in Values, UserSets(f, v)
  PROVE  AgreeInv'
<1> USE ConstantsAssumption
<1>1. v \in Levels /\ WriteEliona(f, v, FALSE)
      /\ UNCHANGED <<listener, current, device, eco, events>>
  BY DEF UserSets, Levels
<1>2. \A g \in Functions : Unwritten(g)' <=> Unwritten(g)
  BY <1>1 DEF Unwritten
<1>3. SourcesInv'
  BY <1>1 DEF AgreeInv, SourcesInv
<1>4. ASSUME NEW g \in Functions
      PROVE  /\ eliona'[g] = IF g = f THEN v ELSE eliona[g]
             /\ Named(outputs, g) \/ g = f => Named(outputs', g)
             /\ Commanded(g) \/ g = f => Commanded(g)'
             /\ NotEchoed(outputs, g) => NotEchoed(outputs', g)
             /\ Tells(outputs, g, eliona[g]) => Tells(outputs', g, eliona'[g])
  BY <1>1, ElionaWritten
<1>5. ReportedInv'
  <2>1. \A g \in Reported : /\ Commanded(g) => Commanded(g)'
                            /\ Commanded(g)' \/ eliona'[g] = eliona[g]
    BY <1>4
  <2> QED
    BY <1>1, <2>1 DEF AgreeInv, ReportedInv
<1>6. SilentInv'
  BY <1>1, <1>2, <1>4 DEF AgreeInv, SilentInv
<1>7. SceneInv'
  BY <1>1, <1>4 DEF AgreeInv, SceneInv, AtWork
<1> QED
  BY <1>3, <1>5, <1>6, <1>7 DEF AgreeInv

LEMMA DeviceChangesAgrees ==
  ASSUME TypeOK, AgreeInv, NEW f \in Functions, NEW v \in Values, DeviceChanges(f, v)
  PROVE  AgreeInv'
<1> USE ConstantsAssumption
<1>1. /\ f \in Reported /\ v \in Levels
      /\ events' = Append(events, [function |-> f, value |-> v])
      /\ device' = [device EXCEPT ![f] = v] /\ device \in [Functions -> Levels]
      /\ UNCHANGED <<eliona, outputs, listener, current, eco>>
  BY DEF DeviceChanges, Levels, TypeOK
<1>2. \A g : /\ Unwritten(g)' <=> Unwritten(g)
             /\ Commanded(g)' <=> Commanded(g)
  BY <1>1 DEF Unwritten, Commanded
<1>3. /\ \A i \in 1..Len(events') : events'[i].function \in Reported
      /\ Named(events', f)
      /\ \A g : Named(events, g) => Named(events', g)
      /\ \A g \in Reported :
           /\ g # f => device'[g] = device[g]
           /\ Tells(events, g, device[g]) => Tells(events', g, device'[g])
  BY <1>1, DeviceReports DEF AgreeInv
<1>4. SourcesInv'
  BY <1>1, <1>3 DEF AgreeInv, SourcesInv
<1>5. ReportedInv'
  BY <1>1, <1>2, <1>3 DEF AgreeInv, ReportedInv
<1>6. SilentInv'
  <2>1. \A g \in Functions \ Reported : device'[g] = device[g]
    BY <1>1
  <2> QED
    BY <1>1, <1>2, <2>1 DEF AgreeInv, SilentInv
<1>7. SceneInv'
  BY <1>1, <1>2 DEF AgreeInv, SceneInv, AtWork
<1> QED
  BY <1>4, <1>5, <1>6, <1>7 DEF AgreeInv

LEMMA ReceiveAgrees ==
  ASSUME TypeOK, AgreeInv, Receive
  PROVE  AgreeInv'
<1> USE ConstantsAssumption
<1>1. /\ outputs # << >> /\ outputs \in Seq(Outputs)
      /\ current' = Head(outputs) /\ outputs' = Tail(outputs)
      /\ listener = "receive"
      /\ listener' = IF Head(outputs).echo THEN "receive" ELSE "lookup"
      /\ UNCHANGED <<eliona, device, eco, events>>
  BY DEF Receive, Step, TypeOK
<1>2. ASSUME NEW g, Commanded(g)
      PROVE  Commanded(g)' \/ (current'.function = g /\ listener' = "lookup")
  <2>1. PICK i \in 1..Len(outputs) : outputs[i].function = g /\ ~ outputs[i].echo
    BY <1>2 DEF Commanded
  <2>2. CASE i = 1
    BY <1>1, <2>1, <2>2, TailKeeps
  <2>3. CASE i # 1
    BY <1>1, <2>1, <2>3, TailKeeps DEF Commanded
  <2> QED
    BY <2>2, <2>3
<1>3. SourcesInv'
  BY <1>1 DEF AgreeInv, SourcesInv
<1>4. ReportedInv'
  BY <1>1, <1>2 DEF AgreeInv, ReportedInv
<1>5. SilentInv'
  <2> SUFFICES ASSUME NEW g \in Functions \ (Reported \union {SET_SCENE_RETURN_TO_ZERO})
               PROVE  /\ NotEchoed(outputs', g)
                      /\ Tells(outputs', g, eliona[g])
                      /\ \/ Named(outputs', g)
                         \/ (IF Unwritten(g)' THEN current'.value ELSE device[g]) = eliona[g]
    BY <1>1 DEF SilentInv
  <2>1. /\ NotEchoed(outputs, g)
        /\ Tells(outputs, g, eliona[g])
        /\ \/ Named(outputs, g)
           \/ (IF Unwritten(g) THEN current.value ELSE device[g]) = eliona[g]
    BY DEF AgreeInv, SilentInv
  <2>2. NotEchoed(outputs', g)
    BY <1>1, <2>1, TailKeeps DEF NotEchoed
  <2>3. Tells(outputs', g, eliona[g])
    BY <1>1, <2>1, TailTells
  <2>4. ASSUME ~ Named(outputs', g)
        PROVE  (IF Unwritten(g)' THEN current'.value ELSE device[g]) = eliona[g]
    <3>1. CASE Head(outputs).function = g
      <4>1. ~ Head(outputs).echo
        BY <1>1, <2>1, <3>1, TailKeeps DEF NotEchoed
      <4>2. Head(outputs).value = eliona[g]
        BY <1>1, <2>1, <2>4, <3>1, FirstTells
      <4> QED
        BY <1>1, <3>1, <4>1, <4>2 DEF Unwritten
    <3>2. CASE Head(outputs).function # g
      <4>1. ~ Named(outputs, g)
        BY <1>1, <2>4, <3>2, NamedLeft
      <4> QED
        BY <1>1, <2>1, <3>2, <4>1 DEF Unwritten
    <3> QED
      BY <3>1, <3>2
  <2> QED
    BY <2>2, <2>3, <2>4
<1>6. SceneInv'
  BY <1>1, <1>2 DEF AgreeInv, SceneInv, AtWork
<1> QED
  BY <1>3, <1>4, <1>5, <1>6 DEF AgreeInv

LEMMA FetchInputAgrees ==
  ASSUME AgreeInv, FetchInput, ~ dead'
  PROVE  AgreeInv'
<1>1. /\ listener = "lookup" /\ listener' = "write"
      /\ UNCHANGED <<eliona, outputs, current, device, eco, events>>
  BY DEF FetchInput, Step
<1>2. \A g : /\ Unwritten(g)' <=> Unwritten(g)
             /\ Commanded(g)' <=> Commanded(g)
             /\ AtWork(g)' <=> AtWork(g)
  BY <1>1 DEF Unwritten, Commanded, AtWork
<1> QED
  BY <1>1, <1>2 DEF AgreeInv, SourcesInv, ReportedInv, SilentInv, SceneInv

\* The device takes what Eliona shows, but for a thermostat that leaves eco mode.
LEMMA SetInputAgrees ==
  ASSUME TypeOK, AgreeInv, SetInput
  PROVE  AgreeInv'
<1> USE ConstantsAssumption
<1>1. /\ listener = "write" /\ listener' = "update"
      /\ WriteDevice(current.function, current.value)
      /\ UNCHANGED <<eliona, outputs, current>>
  BY DEF SetInput, Step
<1>2. current.function \in Functions /\ current.value \in Levels
  BY DEF TypeOK, Outputs
<1>3. (\A i \in 1..Len(events') : events'[i].function \in Reported) /\ ReportedInv'
  BY <1>1, <1>2, DeviceWritten
<1>4. SourcesInv'
  BY <1>1, <1>3 DEF SourcesInv
<1>5. SilentInv'
  <2> SUFFICES ASSUME NEW g \in Functions \ (Reported \union {SET_SCENE_RETURN_TO_ZERO}),
                      ~ Named(outputs, g)
               PROVE  (IF Unwritten(g)' THEN current.value ELSE device'[g]) = eliona[g]
    BY <1>1 DEF AgreeInv, SilentInv
  <2>1. (IF Unwritten(g) THEN current.value ELSE device[g]) = eliona[g]
    BY DEF AgreeInv, SilentInv
  <2>2. CASE current.function # g
    <3>1. device'[g] = device[g] /\ ~ Unwritten(g) /\ ~ Unwritten(g)'
      BY <1>1, <2>2 DEF WriteDevice, TypeOK, Unwritten
    <3> QED
      BY <2>1, <3>1
  <2>3. CASE current.function = g
    <3>1. current.value = eliona[g]
      BY <1>1, <2>1, <2>3 DEF Unwritten
    <3>2. g # SET_TEMP_TWICE => device'[g] = current.value
      BY <1>1, <2>3 DEF WriteDevice, TypeOK
    <3>3. g = SET_TEMP_TWICE => Unwritten(g)'
      BY <1>1, <2>3 DEF Unwritten
    <3> QED
      BY <3>1, <3>2, <3>3
  <2> QED
    BY <2>2, <2>3
<1>6. SceneInv'
  BY <1>1 DEF AgreeInv, SceneInv, AtWork, Commanded
<1> QED
  BY <1>3, <1>4, <1>5, <1>6 DEF AgreeInv

LEMMA UpdateDatapointAgrees ==
  ASSUME AgreeInv, UpdateDatapoint
  PROVE  AgreeInv'
<1>1. /\ listener = "update" /\ listener' = AfterUpdate
      /\ UNCHANGED <<eliona, outputs, current, device, eco, events>>
  BY DEF UpdateDatapoint, Step
<1>2. /\ AfterUpdate \in {"again", "zero", "receive"}
      /\ current.function = SET_TEMP_TWICE <=> AfterUpdate = "again"
      /\ current.function = SET_SCENE_RETURN_TO_ZERO <=> AfterUpdate = "zero"
  BY DEF AfterUpdate, SET_TEMP_TWICE, SET_SCENE_RETURN_TO_ZERO
<1>3. \A g : /\ Unwritten(g)' <=> Unwritten(g)
             /\ Commanded(g)' <=> Commanded(g)
  BY <1>1, <1>2 DEF Unwritten, Commanded
<1>4. AtWork(SET_SCENE_RETURN_TO_ZERO)' <=> AtWork(SET_SCENE_RETURN_TO_ZERO)
  BY <1>1, <1>2 DEF AtWork
<1>5. SourcesInv' /\ ReportedInv'
  BY <1>1, <1>2, <1>3 DEF AgreeInv, SourcesInv, ReportedInv
<1>6. SilentInv' /\ SceneInv'
  BY <1>1, <1>3, <1>4 DEF AgreeInv, SilentInv, SceneInv
<1> QED
  BY <1>5, <1>6 DEF AgreeInv

\* The second write finds the thermostat out of eco mode.
LEMMA SetInputAgainAgrees ==
  ASSUME TypeOK, SetpointInv, AgreeInv, SetInputAgain
  PROVE  AgreeInv'
<1> USE ConstantsAssumption
<1>1. /\ listener = "again" /\ listener' = "receive"
      /\ WriteDevice(current.function, current.value)
      /\ UNCHANGED <<eliona, outputs, current>>
  BY DEF SetInputAgain, Step
<1>2. current.function \in Functions /\ current.value \in Levels
  BY DEF TypeOK, Outputs
<1>3. (\A i \in 1..Len(events') : events'[i].function \in Reported) /\ ReportedInv'
  BY <1>1, <1>2, DeviceWritten
<1>4. SourcesInv'
  BY <1>1, <1>3 DEF SourcesInv
<1>5. current.function = SET_TEMP_TWICE /\ ~ eco
  BY <1>1 DEF SetpointInv, BetweenWrites
<1>6. SilentInv'
  <2> SUFFICES ASSUME NEW g \in Functions \ (Reported \union {SET_SCENE_RETURN_TO_ZERO}),
                      ~ Named(outputs, g)
               PROVE  (IF Unwritten(g)' THEN current.value ELSE device'[g]) = eliona[g]
    BY <1>1 DEF AgreeInv, SilentInv
  <2>1. (IF Unwritten(g) THEN current.value ELSE device[g]) = eliona[g]
    BY DEF AgreeInv, SilentInv
  <2>2. device' = [device EXCEPT ![SET_TEMP_TWICE] = current.value]
        /\ device \in [Functions -> Levels]
    BY <1>1, <1>5 DEF WriteDevice, TypeOK
  <2>3. ~ Unwritten(g)'
    BY <1>1 DEF Unwritten
  <2>4. Unwritten(g) <=> g = SET_TEMP_TWICE
    BY <1>1, <1>5 DEF Unwritten
  <2> QED
    BY <2>1, <2>2, <2>3, <2>4
<1>7. SceneInv'
  <2>1. SET_TEMP_TWICE # SET_SCENE_RETURN_TO_ZERO
    BY DEF SET_TEMP_TWICE, SET_SCENE_RETURN_TO_ZERO
  <2> QED
    BY <1>1, <1>5, <2>1 DEF AgreeInv, SceneInv, AtWork, Commanded
<1> QED
  BY <1>3, <1>4, <1>6, <1>7 DEF AgreeInv

LEMMA ReturnToZeroAgrees ==
  ASSUME TypeOK, AgreeInv, ReturnToZero
  PROVE  AgreeInv'
<1> USE ConstantsAssumption
<1> DEFINE scene == SET_SCENE_RETURN_TO_ZERO
<1>1. /\ listener = "zero" /\ listener' = "receive" /\ current.function = scene
      /\ scene \in Functions /\ 0 \in Levels
      /\ WriteEliona(scene, 0, TRUE)
      /\ UNCHANGED <<current, device, eco, events>>
  BY DEF ReturnToZero, Step, AgreeInv, SourcesInv, TypeOK, Outputs, Levels
<1>2. SourcesInv'
  BY <1>1 DEF AgreeInv, SourcesInv
<1>3. ASSUME NEW g \in Functions, g # scene
      PROVE  /\ eliona'[g] = eliona[g]
             /\ Named(outputs, g) => Named(outputs', g)
             /\ Commanded(g) => Commanded(g)'
             /\ NotEchoed(outputs, g) => NotEchoed(outputs', g)
             /\ Tells(outputs, g, eliona[g]) => Tells(outputs', g, eliona[g])
             /\ ~ Unwritten(g) /\ ~ Unwritten(g)'
  <2>1. ~ Unwritten(g) /\ ~ Unwritten(g)'
    BY <1>1 DEF Unwritten
  <2> QED
    BY <1>1, <1>3, <2>1, ElionaWritten
<1>4. ReportedInv'
  BY <1>1, <1>3 DEF AgreeInv, ReportedInv
<1>5. SilentInv'
  BY <1>1, <1>3 DEF AgreeInv, SilentInv
<1>6. SceneInv'
  <2>1. eliona'[scene] = 0
    BY <1>1, ElionaWritten
  <2> QED
    BY <2>1 DEF SceneInv
<1> QED
  BY <1>2, <1>4, <1>5, <1>6 DEF AgreeInv

LEMMA UpsertDatapointDataAgrees ==
  ASSUME TypeOK, AgreeInv, UpsertDatapointData
  PROVE  AgreeInv'
<1> USE ConstantsAssumption
<1> DEFINE f == Head(events).function
           v == Head(events).value
<1>1. /\ events # << >> /\ events \in Seq(Events) /\ events' = Tail(events)
      /\ WriteEliona(f, v, TRUE)
      /\ UNCHANGED <<listener, current, device, eco>>
  BY DEF UpsertDatapointData, TypeOK
<1>2. 1 \in 1..Len(events) /\ events[1] = Head(events) /\ Head(events) \in Events
  BY <1>1, TailKeeps
<1>3. f \in Reported /\ f \in Functions /\ v \in Levels
  BY <1>2 DEF AgreeInv, SourcesInv, Events
<1>4. ASSUME NEW g \in Reported, Tells(events, g, device[g])
      PROVE  /\ Tells(events', g, device[g])
             /\ Named(events', g) \/ (g = f /\ v = device[g]) \/ ~ Named(events, g)
             /\ g = f => Named(events, g)
  <2>1. Tells(events', g, device[g])
    BY <1>1, <1>4, TailTells
  <2>2. ASSUME Named(events, g), ~ Named(events', g) PROVE g = f /\ v = device[g]
    <3>1. g = f
      BY <1>1, <2>2, NamedLeft
    <3> QED
      BY <1>1, <1>4, <2>2, <3>1, FirstTells
  <2>3. g = f => Named(events, g)
    BY <1>2 DEF Named
  <2> QED
    BY <2>1, <2>2, <2>3
<1> HIDE DEF f, v
<1>5. SourcesInv'
  BY <1>1, TailKeeps DEF AgreeInv, SourcesInv
<1>6. ASSUME NEW g \in Functions
      PROVE  /\ eliona'[g] = IF g = f THEN v ELSE eliona[g]
             /\ Named(outputs, g) => Named(outputs', g)
             /\ Commanded(g) => Commanded(g)'
             /\ g # f /\ NotEchoed(outputs, g) => NotEchoed(outputs', g)
             /\ Tells(outputs, g, eliona[g]) => Tells(outputs', g, eliona'[g])
             /\ Unwritten(g)' <=> Unwritten(g)
  <2>1. Unwritten(g)' <=> Unwritten(g)
    BY <1>1 DEF Unwritten
  <2> QED
    BY <1>1, <1>3, <2>1, ElionaWritten
<1>7. ReportedInv'
  <2> SUFFICES ASSUME NEW g \in Reported \ {SET_SCENE_RETURN_TO_ZERO}
               PROVE  /\ Tells(events', g, device[g])
                      /\ \/ Named(events', g)
                         \/ Commanded(g)'
                         \/ current.function = g /\ listener \in {"lookup", "write"}
                         \/ eliona'[g] = device[g]
    BY <1>1 DEF ReportedInv
  <2>1. /\ Tells(events, g, device[g])
        /\ \/ Named(events, g)
           \/ Commanded(g)
           \/ current.function = g /\ listener \in {"lookup", "write"}
           \/ eliona[g] = device[g]
    BY DEF AgreeInv, ReportedInv
  <2>2. /\ eliona'[g] = IF g = f THEN v ELSE eliona[g]
        /\ Commanded(g) => Commanded(g)'
    BY <1>6
  <2> QED
    BY <1>4, <2>1, <2>2
<1>8. SilentInv'
  <2>1. \A g \in Functions \ Reported : g # f
    BY <1>3
  <2> QED
    BY <1>1, <1>6, <2>1 DEF AgreeInv, SilentInv
<1>9. SceneInv'
  BY <1>1, <1>3, <1>6 DEF AgreeInv, SceneInv, AtWork
<1> QED
  BY <1>5, <1>7, <1>8, <1>9 DEF AgreeInv

LEMMA AgreeStep ==
  TypeOK /\ SetpointInv /\ AgreeInv /\ Undisturbed /\ Undisturbed' /\ [Next]_vars => AgreeInv'
<1> USE ConstantsAssumption
<1> SUFFICES ASSUME TypeOK, SetpointInv, AgreeInv, Undisturbed, Undisturbed', [Next]_vars
             PROVE  AgreeInv'
  OBVIOUS
<1>1. ASSUME NEW f \in Functions, NEW v \in Values, UserSets(f, v) PROVE AgreeInv'
  BY <1>1, UserSetsAgrees
<1>2. ASSUME NEW f \in Functions, NEW v \in Values, DeviceChanges(f, v) PROVE AgreeInv'
  BY <1>2, DeviceChangesAgrees
<1>3. CASE Receive
  BY <1>3, ReceiveAgrees
<1>4. CASE FetchInput
  BY <1>4, FetchInputAgrees DEF Undisturbed
<1>5. CASE SetInput
  BY <1>5, SetInputAgrees
<1>6. CASE UpdateDatapoint
  BY <1>6, UpdateDatapointAgrees
<1>7. CASE SetInputAgain
  BY <1>7, SetInputAgainAgrees
<1>8. CASE ReturnToZero
  BY <1>8, ReturnToZeroAgrees
<1>9. CASE FetchInputFails \/ SetAssetFails \/ WebsocketBreaks
  BY <1>9 DEF FetchInputFails, SetAssetFails, WebsocketBreaks, Fail, Undisturbed
<1>10. CASE Restart
  BY <1>10 DEF Restart, Undisturbed
<1>11. CASE UpsertDatapointData
  BY <1>11, UpsertDatapointDataAgrees
<1>12. CASE UNCHANGED vars
  BY <1>12 DEF vars, AgreeInv, SourcesInv, ReportedInv, SilentInv, SceneInv,
     Commanded, AtWork, Unwritten
<1> QED
  BY <1>1, <1>2, <1>3, <1>4, <1>5, <1>6, <1>7, <1>8, <1>9, <1>10, <1>11, <1>12
  DEF Next, SetAsset

\* What the two systems show when nothing is on its way between them.
Agreed == \A f \in Functions \ {SET_SCENE_RETURN_TO_ZERO} : eliona[f] = device[f]
SceneAtZero ==
  SET_SCENE_RETURN_TO_ZERO \in Functions => eliona[SET_SCENE_RETURN_TO_ZERO] = 0

LEMMA AgreedAtRest == AgreeInv /\ AtRest => Agreed
<1> USE ConstantsAssumption
<1> SUFFICES ASSUME AgreeInv, AtRest, NEW f \in Functions \ {SET_SCENE_RETURN_TO_ZERO}
             PROVE  eliona[f] = device[f]
  BY DEF Agreed
<1>1. ~ Named(outputs, f) /\ ~ Named(events, f) /\ ~ Commanded(f) /\ listener = "receive"
  BY DEF AtRest, Named, Commanded
<1>2. ~ Unwritten(f)
  BY <1>1 DEF Unwritten
<1> QED
  BY <1>1, <1>2 DEF AgreeInv, ReportedInv, SilentInv

LEMMA SceneAtRest ==
  SET_SCENE_RETURN_TO_ZERO \notin Reported /\ AgreeInv /\ AtRest => SceneAtZero
<1>1. AtRest => ~ Commanded(SET_SCENE_RETURN_TO_ZERO) /\ ~ AtWork(SET_SCENE_RETURN_TO_ZERO)
  BY DEF AtRest, Commanded, AtWork
<1> QED
  BY <1>1 DEF AgreeInv, SceneInv, SceneAtZero

LEMMA AlwaysAgreeInv == Spec /\ NoFailure => []AgreeInv
<1>1. failures = 0 /\ ~ dead => Undisturbed
  BY DEF Undisturbed
<1> QED
  BY <1>1, TypeInit, TypeStep, SetpointInit, SetpointStep, AgreeInit, AgreeStep, PTL
  DEF Spec, NoFailure

\* Whenever the two systems are at rest and no call has failed, Eliona and ABB agree,
\* however commands, echoes and changes at the devices have crossed (app.go:240-333).
THEOREM AgreeWheneverAtRest == Spec /\ NoFailure => [](AtRest => Agreed)
  BY AlwaysAgreeInv, AgreedAtRest, PTL

\* AgreeWithoutFailure asks of the scheduling only that the systems come to rest: the
\* order in which commands, echoes and device changes are handled cannot spoil it.
THEOREM RestIsAgreement == Spec /\ ComesToRest => AgreeWithoutFailure
<1>1. Agreed <=> \A f \in Functions \ {SET_SCENE_RETURN_TO_ZERO} : eliona[f] = device[f]
  BY DEF Agreed
<1> QED
  BY <1>1, AgreeWheneverAtRest, PTL DEF ComesToRest, AgreeWithoutFailure

\* Once at rest no scene is left set (app.go:319). ABB must not report the trigger as a
\* value of its own, which would arrive after the zero: "Scenes are stateless, therefore
\* we cannot read their state" (broker.go:733).
THEOREM RestIsZero ==
  SET_SCENE_RETURN_TO_ZERO \notin Reported => (Spec /\ ComesToRest => SceneReturnsToZero)
<1> SUFFICES ASSUME SET_SCENE_RETURN_TO_ZERO \notin Reported
             PROVE  Spec /\ ComesToRest => SceneReturnsToZero
  OBVIOUS
<1>1. AgreeInv /\ AtRest
      => (SET_SCENE_RETURN_TO_ZERO \in Functions => eliona[SET_SCENE_RETURN_TO_ZERO] = 0)
  BY SceneAtRest DEF SceneAtZero
<1> QED
  BY <1>1, AlwaysAgreeInv, PTL DEF ComesToRest, SceneReturnsToZero

=============================================================================
