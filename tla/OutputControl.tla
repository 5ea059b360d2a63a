--------------------------- MODULE OutputControl ---------------------------
(***************************************************************************)
(* Commands from Eliona to ABB (app.go listenForOutputChanges, setAsset) and *)
(* the way back of their effect (subscribeToDataChanges). A user sets an      *)
(* output attribute in Eliona; the websocket reports it, like every value the *)
(* app itself writes, to the one listener goroutine; the listener writes the  *)
(* datapoint, and ABB reports the changed datapoint to the data subscription,  *)
(* which stores it in Eliona again.                                          *)
(*                                                                         *)
(* A message that carries several functions stands for one message each, in   *)
(* the order of broker.Functions; a value that does not parse is never sent.   *)
(* Values are small numbers; High is what a thermostat in eco mode answers a   *)
(* setpoint with.                                                            *)
(***************************************************************************)
EXTENDS Naturals, Sequences

CONSTANTS
  Functions,    \* output attributes, among them "set_temperature", "set_scene"
  WithInput,    \* those that have an input datapoint row
  Reported,     \* those whose writes ABB reports to the subscription
  Values,       \* the values users and devices set
  High,         \* the setpoint with which a thermostat leaves eco mode
  MaxCommands,  \* bound: commands of users
  MaxChanges,   \* bound: changes made at the devices themselves
  MaxFailures   \* bound: calls that fail, connections that break

SET_TEMP_TWICE == "set_temperature"
SET_SCENE_RETURN_TO_ZERO == "set_scene"

ASSUME ConstantsAssumption ==
  /\ WithInput \subseteq Functions
  /\ Reported \subseteq Functions
  /\ Values \subseteq Nat
  /\ 0 \in Values
  /\ High \in Nat \ Values
  /\ MaxCommands \in Nat
  /\ MaxChanges \in Nat
  /\ MaxFailures \in Nat

VARIABLES
  eliona,     \* the value of each attribute in Eliona
  outputs,    \* what the websocket has reported and the listener not yet read
  listener,   \* phase of the listener
  current,    \* the output it works on
  device,     \* the value of each datapoint at ABB
  eco,        \* is the thermostat in eco mode
  events,     \* what ABB has reported and the subscription not yet stored
  dead,       \* the process has exited
  commands, changes, failures   \* counters of the bounded environment

vars == <<eliona, outputs, listener, current, device, eco, events, dead,
          commands, changes, failures>>
counters == <<commands, changes, failures>>

Levels == Values \union {High}
Outputs == [function : Functions, value : Levels, echo : BOOLEAN]
Events == [function : Functions, value : Levels]
Phases == {"receive", "lookup", "write", "update", "again", "zero"}

\* Every variable keeps its type, and the listener is at a line of its loop.
TypeOK ==
  /\ eliona \in [Functions -> Levels]
  /\ outputs \in Seq(Outputs)
  /\ listener \in Phases
  /\ current \in Outputs
  /\ device \in [Functions -> Levels]
  /\ eco \in BOOLEAN
  /\ events \in Seq(Events)
  /\ dead \in BOOLEAN
  /\ commands \in 0..MaxCommands
  /\ changes \in 0..MaxChanges
  /\ failures \in 0..MaxFailures

Init ==
  /\ eliona = [f \in Functions |-> 0]
  /\ outputs = << >>
  /\ listener = "receive"
  /\ current \in [function : Functions, value : {0}, echo : {TRUE}]
  /\ device = [f \in Functions |-> 0]
  /\ eco \in BOOLEAN
  /\ events = << >>
  /\ dead = FALSE
  /\ commands = 0
  /\ changes = 0
  /\ failures = 0

-----------------------------------------------------------------------------
(* Eliona and ABB *)

\* Every write of an output attribute is reported to the listener, with the
\* client reference of its writer.
WriteEliona(f, v, echo) ==
  /\ eliona' = [eliona EXCEPT ![f] = v]
  /\ outputs' = Append(outputs, [function |-> f, value |-> v, echo |-> echo])

UserSets(f, v) ==
  /\ commands < MaxCommands
  /\ commands' = commands + 1
  /\ WriteEliona(f, v, FALSE)
  /\ UNCHANGED <<listener, current, device, eco, events, dead, changes, failures>>

\* A thermostat in eco mode leaves it on the first setpoint it gets.
WriteDevice(f, v) ==
  LET applied == IF f = SET_TEMP_TWICE /\ eco THEN High ELSE v IN
  /\ device' = [device EXCEPT ![f] = applied]
  /\ eco' = IF f = SET_TEMP_TWICE THEN FALSE ELSE eco
  /\ events' = IF f \in Reported
                 THEN Append(events, [function |-> f, value |-> applied]) ELSE events

\* Someone uses the wall switch.
DeviceChanges(f, v) ==
  /\ f \in Reported
  /\ changes < MaxChanges
  /\ changes' = changes + 1
  /\ device' = [device EXCEPT ![f] = v]
  /\ events' = Append(events, [function |-> f, value |-> v])
  /\ UNCHANGED <<eliona, outputs, listener, current, eco, dead, commands, failures>>

-----------------------------------------------------------------------------
(* The listener goroutine *)

Step(from, to) ==
  /\ ~ dead
  /\ listener = from
  /\ listener' = to

Fail ==
  /\ failures < MaxFailures
  /\ failures' = failures + 1
  /\ UNCHANGED <<commands, changes>>

MutReceiveEchoed ==
  /\ outputs # << >>
  /\ Step("receive", "lookup")
  /\ current' = Head(outputs)
  /\ outputs' = Tail(outputs)
  /\ UNCHANGED <<eliona, device, eco, events, dead, counters>>

\* Values this app has written itself are skipped.
Receive ==
  /\ outputs # << >>
  /\ Step("receive", IF Head(outputs).echo THEN "receive" ELSE "lookup")
  /\ current' = Head(outputs)
  /\ outputs' = Tail(outputs)
  /\ UNCHANGED <<eliona, device, eco, events, dead, counters>>

\* FetchInput: log.Fatal when the asset has no input row for the function.
FetchInput ==
  \/ /\ current.function \in WithInput
     /\ Step("lookup", "write")
     /\ UNCHANGED <<eliona, outputs, current, device, eco, events, dead, counters>>
  \/ /\ current.function \notin WithInput
     /\ Step("lookup", "receive")
     /\ dead' = TRUE
     /\ UNCHANGED <<eliona, outputs, current, device, eco, events, counters>>

\* broker.SetInput
SetInput ==
  /\ Step("write", "update")
  /\ WriteDevice(current.function, current.value)
  /\ UNCHANGED <<eliona, outputs, current, dead, counters>>

MutAfterUpdateForgotten ==
  CASE current.function = SET_TEMP_TWICE -> "again"
    [] current.function = SET_SCENE_RETURN_TO_ZERO -> "zero"
    [] OTHER -> "done"

AfterUpdate ==
  CASE current.function = SET_TEMP_TWICE -> "again"
    [] current.function = SET_SCENE_RETURN_TO_ZERO -> "zero"
    [] OTHER -> "receive"

MutUpdateDatapointOnce ==
  /\ Step("update", IF current.function = SET_SCENE_RETURN_TO_ZERO THEN "zero" ELSE "receive")
  /\ UNCHANGED <<eliona, outputs, current, device, eco, events, dead, counters>>

MutUpdateDatapointKeepsScene ==
  /\ Step("update", IF current.function = SET_TEMP_TWICE THEN "again" ELSE "receive")
  /\ UNCHANGED <<eliona, outputs, current, device, eco, events, dead, counters>>

\* conf.UpdateDatapoint: the last written value is stored.
UpdateDatapoint ==
  /\ Step("update", AfterUpdate)
  /\ UNCHANGED <<eliona, outputs, current, device, eco, events, dead, counters>>

\* The second write of a temperature, for a thermostat that was in eco mode.
SetInputAgain ==
  /\ Step("again", "receive")
  /\ WriteDevice(current.function, current.value)
  /\ UNCHANGED <<eliona, outputs, current, dead, counters>>

\* The trigger of a scene is set back to 0, by the app itself.
ReturnToZero ==
  /\ Step("zero", "receive")
  /\ WriteEliona(current.function, 0, TRUE)
  /\ UNCHANGED <<current, device, eco, events, dead, counters>>

\* The query of the input row fails: log.Fatal as well.
FetchInputFails ==
  /\ Step("lookup", "receive")
  /\ dead' = TRUE
  /\ Fail
  /\ UNCHANGED <<eliona, outputs, current, device, eco, events>>

\* Another call fails: setAsset returns, the rest of it is not done.
SetAssetFails ==
  /\ listener \notin {"receive", "lookup"}
  /\ Step(listener, "receive")
  /\ Fail
  /\ UNCHANGED <<eliona, outputs, current, device, eco, events, dead>>

\* The websocket breaks: what it has not delivered is lost.
WebsocketBreaks ==
  /\ ~ dead
  /\ outputs # << >>
  /\ outputs' = << >>
  /\ Fail
  /\ UNCHANGED <<eliona, listener, current, device, eco, events, dead>>

\* The container is started again: neither websocket has kept anything.
Restart ==
  /\ dead
  /\ dead' = FALSE
  /\ outputs' = << >>
  /\ events' = << >>
  /\ UNCHANGED <<eliona, listener, current, device, eco, counters>>

-----------------------------------------------------------------------------
(* The data subscription *)

MutUpsertDatapointDataBusy ==
  /\ ~ dead
  /\ events # << >>
  /\ IF listener = "receive"
       THEN WriteEliona(Head(events).function, Head(events).value, TRUE)
       ELSE UNCHANGED <<eliona, outputs>>
  /\ events' = Tail(events)
  /\ UNCHANGED <<listener, current, device, eco, dead, counters>>

\* The changed datapoint is stored under the app's client reference.
UpsertDatapointData ==
  /\ ~ dead
  /\ events # << >>
  /\ WriteEliona(Head(events).function, Head(events).value, TRUE)
  /\ events' = Tail(events)
  /\ UNCHANGED <<listener, current, device, eco, dead, counters>>

-----------------------------------------------------------------------------

SetAsset ==
  \/ FetchInput
  \/ SetInput
  \/ UpdateDatapoint
  \/ SetInputAgain
  \/ ReturnToZero

Next ==
  \/ \E f \in Functions, v \in Values : UserSets(f, v) \/ DeviceChanges(f, v)
  \/ Receive
  \/ SetAsset
  \/ FetchInputFails
  \/ SetAssetFails
  \/ WebsocketBreaks
  \/ Restart
  \/ UpsertDatapointData

Spec == Init /\ [][Next]_vars

\* The listener and the subscription go on while they have something to do.
FairSpec ==
  /\ Spec
  /\ WF_vars(Receive)
  /\ WF_vars(SetAsset)
  /\ WF_vars(UpsertDatapointData)
  /\ WF_vars(Restart)

-----------------------------------------------------------------------------

AtRest == outputs = << >> /\ events = << >> /\ listener = "receive"

\* What the app writes to Eliona does not come back to ABB as a command, so that
\* the two systems do not drive each other for ever (app.go:251-254).
ComesToRest == <>[]AtRest

NoFailure == [](failures = 0 /\ ~ dead)

\* With no failing call Eliona and ABB agree when all is done, however commands
\* and changes at the device have crossed. Scenes are set back to zero instead.
AgreeWithoutFailure == NoFailure =>
  <>[](\A f \in Functions \ {SET_SCENE_RETURN_TO_ZERO} : eliona[f] = device[f])

\* "First call turns off the eco mode (and highens the temperature), second call
\* really sets the temperature" (app.go:308-310): the listener does not leave a
\* command with the thermostat at the high setpoint, unless a call has failed.
TemperatureSetWithoutFailure ==
  failures = 0 /\ listener = "receive" /\ SET_TEMP_TWICE \in Functions =>
    device[SET_TEMP_TWICE] # High

\* "The user triggers the attribute by setting it to 1, then the app immediately
\* sets it back to 0" (app.go:319-321): when no call fails, every scene is at 0
\* when all is done.
SceneReturnsToZero == NoFailure =>
  <>[](SET_SCENE_RETURN_TO_ZERO \in Functions => eliona[SET_SCENE_RETURN_TO_ZERO] = 0)
=============================================================================
