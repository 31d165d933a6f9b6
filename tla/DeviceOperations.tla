-------------------------- MODULE DeviceOperations --------------------------
(***************************************************************************)
(* The operations of the adapter on a device's clusters (pkg/adapter,      *)
(* messaging_*.go, attributes.go). An operation is a list of exchanges     *)
(* with the device. All that tells operations apart is what they send, and *)
(* what they take from which answer, so each is a value built from the few *)
(* shapes below; how they run is the module ClusterOperations.             *)
(***************************************************************************)
EXTENDS ClusterAttributes, TLC

(*************** conversions of a value: messaging.go, attributes.go ******)

Bits == [uint8 |-> 8, uint16 |-> 16, uint32 |-> 32, uint48 |-> 48, uint64 |-> 64, int8 |-> 8, int16 |-> 16, int32 |-> 32,
         int64 |-> 64]

(* The Go types a conversion takes, and the one it makes of them. *)
Conversion(from, into) == [from |-> from, into |-> into]
toUint16 == Conversion({"uint16", "int16", "uint8"}, "uint16")
toInt16 == Conversion({"int16", "uint16"}, "int16")
toInt8 == Conversion({"int8", "uint8"}, "int8")
(* Mutant: cut to 16 bits. *)
toUint32_Narrow == Conversion({"uint32", "int32", "uint16"}, "uint16")
toUint32 == Conversion({"uint32", "int32", "uint16"}, "uint32")
toInt32 == Conversion({"int32", "uint32"}, "int32")
toUint48 == Conversion({"uint64", "int64", "uint32"}, "uint48")
Exactly(go) == Conversion({go}, go)
BoolOrUint8 == Conversion({"bool", "uint8"}, "bool")
ExtractUint8 == Conversion({"uint8", "uint16"}, "uint8")
ExtractBool == Conversion({"bool", "uint8", "uint16"}, "bool")
ExtractString == Exactly("string")
ExtractFloat32 == Exactly("float32")

(* A value is its Go type, the bits its magnitude needs, and its sign. *)
Value(go, bits, neg) == [go |-> go, bits |-> bits, neg |-> neg]
Holds(into, v) == CASE into \notin DOMAIN Bits -> TRUE
                    [] into \in Signed -> v.bits < Bits[into]
                    [] OTHER -> ~v.neg /\ v.bits <= Bits[into]
(* ExtractUint8 refuses what does not fit; the others cut it. *)
Accepted(conv, v) == v.go \in conv.from /\ (conv = ExtractUint8 => Holds("uint8", v))
Kept(conv, v) == Holds(conv.into, v)

(************************ the shapes of operations ************************)

(* ReadAttributes, and what is taken from the records: by their identifiers or *)
(* the first one whatever it is; strict: an error if there is nothing to take. *)
Read(cluster, takes, byId, strict) ==
  [kind |-> "read", cluster |-> cluster, ask |-> DOMAIN takes, takes |-> takes, byId |-> byId, strict |-> strict]
(* A text is cut to so many bytes before it is sent. *)
NoText == 0
Whole == 65535
Write(cluster, values) == [kind |-> "write", cluster |-> cluster, values |-> values]
Command(cluster, cmd, text) == [kind |-> "command", cluster |-> cluster, cmd |-> cmd, text |-> text]
Exchange(cluster, cmd, answer, min) ==
  [kind |-> "exchange", cluster |-> cluster, cmd |-> cmd, answer |-> answer, min |-> min]
Listen(cluster) == [kind |-> "listen", cluster |-> cluster]

(* What an error in one exchange does: it ends the operation, it is passed *)
(* over, or the next exchange is tried instead of it.                      *)
Sequence(steps, errors) == [steps |-> steps, errors |-> errors, limited |-> FALSE]
Info(cluster, takes) == Sequence(<<Read(cluster, takes, TRUE, FALSE)>>, "end")
Single(cluster, attr, conv) == Sequence(<<Read(cluster, attr :> conv, FALSE, TRUE)>>, "end")
Set(cluster, attr, type, go) == Sequence(<<Write(cluster, attr :> [type |-> type, go |-> go])>>, "end")
Send(cluster, cmd) == Sequence(<<Command(cluster, cmd, NoText)>>, "end")
SendText(cluster, cmd, limit) == Sequence(<<Command(cluster, cmd, limit)>>, "end")
Limited(o) == [o EXCEPT !.limited = TRUE]   \* an argument out of range is refused

U8 == Exactly("uint8")
F32 == Exactly("float32")
Each(names, conv) == [n \in names |-> conv]

(******************* the operations: messaging_basic.go *******************)

ResetToFactoryDefaults == Send("Basic", 0)
ReadDeviceInfo ==
  Info("Basic", Each({"ZCLVersion", "AppVersion", "StackVersion", "HWVersion", "PowerSource", "PhysicalEnvironment", "AlarmMask",
                      "DisableLocalConfig", "GenericDeviceClass", "GenericDeviceType"}, U8)
             @@ Each({"ManufacturerName", "ModelIdentifier", "DateCode", "LocationDescription", "SWBuildID", "ProductCode",
                      "ProductURL", "ManufacturerVersionDetails", "SerialNumber", "ProductLabel"}, ExtractString)
             @@ ("DeviceEnabled" :> BoolOrUint8))
GetOnOffState == Single("OnOff", "OnOff", BoolOrUint8)
GetDeviceStatus ==
  Sequence(<<Read("Basic", Each({"ManufacturerName", "ModelIdentifier"}, ExtractString) @@ ("PowerSource" :> U8), TRUE, FALSE),
             Read("PowerConfig", "BatteryPercentage" :> U8, FALSE, FALSE), GetOnOffState.steps[1]>>, "pass")

(**** messaging_onoff.go, messaging_level.go, messaging_identify.go, messaging_color.go ****)

TurnOn == Send("OnOff", 1)
TurnOff == Send("OnOff", 0)
Toggle == Send("OnOff", 2)
OffWithEffect == Send("OnOff", 64)
OnWithTimedOff == Send("OnOff", 66)
SetStartupOnOff == Set("OnOff", "StartUpOnOff", "Enum8", "uint8")
SetBrightness == Send("LevelControl", 4)
GetBrightness == Single("LevelControl", "CurrentLevel", U8)
MoveLevel == Send("LevelControl", 1)
StepLevel == Send("LevelControl", 2)
StopLevel == Send("LevelControl", 3)
SetStartupLevel == Set("LevelControl", "StartupLevel", "Uint8", "uint8")
IdentifyFor == Send("Identify", 0)
TriggerEffect == Send("Identify", 64)
SetColorTemperature == Send("ColorControl", 10)
SetColorKelvin == Limited(SetColorTemperature)
GetColorTemperature == Single("ColorControl", "ColorTempMireds", Exactly("uint16"))
GetColorTempInfo == Info("ColorControl", Each({"ColorTempMireds", "ColorTempMin", "ColorTempMax"}, Exactly("uint16")))
SetHueSaturation == Send("ColorControl", 6)
SetColorXY == Send("ColorControl", 7)
SetColorRGB == SetColorXY
SetHue == Send("ColorControl", 0)
SetSaturation == Send("ColorControl", 3)
GetColor == Info("ColorControl", Each({"CurrentHue", "CurrentSaturation", "ColorMode"}, U8)
                              @@ Each({"CurrentX", "CurrentY"}, Exactly("uint16")))

(************* messaging_groups.go: a name is cut to 16 bytes *************)

AddToGroup == SendText("Groups", 0, 16)
RemoveFromGroup == Send("Groups", 3)
RemoveFromAllGroups == Send("Groups", 4)
GetGroupMembership == Sequence(<<Exchange("Groups", 2, 2, 2)>>, "end")
StoreScene == Send("Scenes", 4)
AddScene == SendText("Scenes", 0, 16)
RecallScene == Send("Scenes", 5)
RemoveScene == Send("Scenes", 2)
RemoveAllScenes == Send("Scenes", 3)
GetSceneMembership == Sequence(<<Exchange("Scenes", 6, 6, 4)>>, "end")
(* SendGroupCommand: the same exchange, with a group for the device. *)
SendGroupCommand(cluster, cmd) == Send(cluster, cmd)
GroupTurnOn == SendGroupCommand("OnOff", 1)
GroupTurnOff == SendGroupCommand("OnOff", 0)
GroupToggle == SendGroupCommand("OnOff", 2)
GroupSetBrightness == SendGroupCommand("LevelControl", 4)
GroupRecallScene == SendGroupCommand("Scenes", 5)

(**************************** messaging_hvac.go ***************************)

(* Mutant: the heating setpoint is asked for and not taken. *)
GetThermostatStatus_NoHeating ==
  [Info("Thermostat", Each({"LocalTemp", "OccupiedCoolingSetpoint"}, toInt16)) EXCEPT !.steps[1].ask = @ \cup {"OccupiedHeatingSetpoint"}]
GetThermostatStatus ==
  Info("Thermostat", Each({"LocalTemp", "OccupiedCoolingSetpoint", "OccupiedHeatingSetpoint"}, toInt16)
                  @@ Each({"SystemMode", "PICoolingDemand", "PIHeatingDemand"}, U8) @@ ("RunningState" :> toUint16))
SetThermostatMode == Set("Thermostat", "SystemMode", "Enum8", "uint8")
SetThermostatSetpoint ==
  Sequence(<<Write("Thermostat", Each({"OccupiedHeatingSetpoint", "OccupiedCoolingSetpoint"}, [type |-> "Int16", go |-> "int16"]))>>, "end")
AdjustThermostatSetpoint == Send("Thermostat", 0)
GetWindowCoveringStatus ==
  Info("WindowCovering", Each({"Type", "CurrentPositionLiftPercent", "CurrentPositionTiltPercent", "ConfigStatus"}, U8))
OpenWindowCovering == Send("WindowCovering", 0)
CloseWindowCovering == Send("WindowCovering", 1)
StopWindowCovering == Send("WindowCovering", 2)
SetWindowCoveringPosition == Limited(Send("WindowCovering", 5))
SetWindowCoveringTilt == Limited(Send("WindowCovering", 8))
GetFanStatus == Info("Fan", Each(Known("Fan"), U8))
SetFanMode == Set("Fan", "Mode", "Enum8", "uint8")
SetFanSpeed == Limited(Set("Fan", "PercentSetting", "Uint8", "uint8"))

(***************************** messaging_io.go ****************************)

Flags == "StatusFlags" :> U8 @@ "OutOfService" :> BoolOrUint8
Analog(cluster, more) == Info(cluster, "PresentValue" :> F32 @@ Flags @@ "EngineeringUnits" :> toUint16 @@ Each(more, F32))
Binary(cluster, more) == Info(cluster, "PresentValue" :> BoolOrUint8 @@ Flags @@ more :> U8)
Multistate(cluster, more) == Info(cluster, Each({"PresentValue", "NumberOfStates"}, toUint16) @@ Flags @@ Each(more, U8))
Limits == {"MinPresentValue", "MaxPresentValue"}
GetBinaryInput == Binary("BinaryInput", "Reliability")
GetBinaryInputValue == Single("BinaryInput", "PresentValue", BoolOrUint8)
GetAnalogInput == Analog("AnalogInput", Limits)
GetAnalogInputValue == Single("AnalogInput", "PresentValue", F32)
GetAnalogOutput == Analog("AnalogOutput", Limits)
SetAnalogOutput == Set("AnalogOutput", "PresentValue", "Single", "float32")
GetAnalogOutputValue == Single("AnalogOutput", "PresentValue", F32)
GetAnalogValue == Analog("AnalogValue", {})
SetAnalogValue == Set("AnalogValue", "PresentValue", "Single", "float32")
GetBinaryValue == Binary("BinaryValue", "Reliability")
SetBinaryValue == Set("BinaryValue", "PresentValue", "Boolean", "bool")
GetMultistateInput == Multistate("MultistateInput", {"Reliability"})
GetMultistateInputValue == Single("MultistateInput", "PresentValue", toUint16)
GetBinaryOutput == Binary("BinaryOutput", "Polarity")
SetBinaryOutput == Set("BinaryOutput", "PresentValue", "Boolean", "bool")
GetBinaryOutputValue == Single("BinaryOutput", "PresentValue", BoolOrUint8)
GetMultistateOutput == Multistate("MultistateOutput", {})
SetMultistateOutput == Set("MultistateOutput", "PresentValue", "Uint16", "uint16")
GetMultistateValue == Multistate("MultistateValue", {"Reliability"})
SetMultistateValue == Set("MultistateValue", "PresentValue", "Uint16", "uint16")

(*************** messaging_power.go, messaging_sensors.go *****************)

ReadPowerData ==
  Sequence(<<Read("ElectricalMeas", Each({"RMSVoltage", "RMSCurrent", "ACVoltageDivisor", "ACCurrentDivisor", "ACPowerDivisor"}, toUint16)
                                 @@ "ActivePower" :> toInt16 @@ "PowerFactor" :> toInt8, TRUE, FALSE),
             Read("MeteringSimple", Each({"Multiplier", "Divisor"}, toUint32) @@ "CurrentSummation" :> toUint48
                                 @@ "InstantDemand" :> toInt32, TRUE, FALSE)>>, "pass")
GetBatteryInfo == Info("PowerConfig", Each({"BatteryVoltage", "BatteryPercentage"}, U8) @@ "BatteryAlarmState" :> toUint32)
GetMainsInfo == Info("PowerConfig", "MainsVoltage" :> toUint16 @@ "MainsFrequency" :> U8)
ResetEnergy ==
  Sequence(<<Command("Basic", 0, NoText), Write("TuyaSpecific", "EnergyReset" :> [type |-> "Enum8", go |-> "uint8"]),
             Write("Tuya2", "EnergyReset" :> [type |-> "Enum8", go |-> "uint8"]),
             Write("MeteringSimple", "CurrentSummation" :> [type |-> "Uint48", go |-> "uint64"])>>, "instead")
ReadSensorData ==
  Sequence(<<Read("TempMeasurement", "MeasuredValue" :> Exactly("int16"), FALSE, FALSE),
             Read("HumidityMeas", "MeasuredValue" :> Exactly("uint16"), FALSE, FALSE),
             Read("PowerConfig", "BatteryPercentage" :> U8, FALSE, FALSE)>>, "pass")
GetPressure ==
  Sequence(<<Read("PressureMeas", Each(Measured, toInt16), TRUE, FALSE),
             Read("PressureMeas", Each({"ScaledValue", "MinScaledValue", "MaxScaledValue"}, toInt16) @@ "Scale" :> toInt8, TRUE, FALSE)>>,
           "pass")
GetAirQuality ==
  Sequence([i \in 1..4 |-> Read(<<"CarbonMonoxide", "CarbonDioxide", "PM25Measurement", "FormaldehydeMeasurement">>[i],
                                "MeasuredValue" :> F32, FALSE, FALSE)], "pass")
GetCO2Level == Single("CarbonDioxide", "MeasuredValue", F32)
GetPM25Level == Single("PM25Measurement", "MeasuredValue", F32)
WaitForSensorReport == Sequence(<<Listen("any")>>, "end")

(**************************** messaging_time.go ***************************)

GetTime == Info("Time", Each({"Time", "LocalTime"}, toUint32) @@ "Status" :> U8 @@ "Zone" :> toInt32)
SetTime == Set("Time", "Time", "Uint32", "uint32")
GetTimeZone == Single("Time", "Zone", toInt32)
SetTimeZone == Set("Time", "Zone", "Int32", "int32")
(* Two of the four attributes it asks for are not taken. *)
GetDRLCInfo == [Info("DRLC", "UtilityEnrolmentGroup" :> U8 @@ "DeviceClassValue" :> toUint16) EXCEPT !.steps[1].ask = Known("DRLC")]
GetOTAInfo == Info("OTAUpgrade", Each({"CurrentFileVersion", "FileOffset"}, toUint32) @@ "ImageUpgradeStatus" :> U8
                              @@ Each({"ManufacturerID", "ImageTypeID"}, toUint16))
GetOTAUpgradeStatus == Single("OTAUpgrade", "ImageUpgradeStatus", U8)
GetPollControlInfo == Info("PollControl", Each({"CheckInInterval", "LongPollInterval"}, toUint32)
                                       @@ Each({"ShortPollInterval", "FastPollTimeout"}, toUint16))
SendCheckInResponse == Send("PollControl", 0)
StopFastPolling == Send("PollControl", 1)
SetLongPollInterval == Send("PollControl", 2)
SetShortPollInterval == Send("PollControl", 3)

(*********************** messaging_security.go, messaging.go **************)

GetIASZoneStatus == Info("IASZone", Each({"State", "ID"}, U8) @@ Each({"Type", "Status"}, toUint16) @@ "CIEAddr" :> Exactly("addr"))
EnrollIASZone == Send("IASZone", 0)
WriteIASZoneCIEAddress == Set("IASZone", "CIEAddr", "IEEEAddr", "addr")
WaitForIASZoneNotification == Sequence(<<Listen("IASZone")>>, "end")
GetDoorLockStatus == Info("DoorLock", Each({"State", "DoorState"}, U8) @@ "ActuatorEnabled" :> BoolOrUint8 @@ "AutoRelockTime" :> toUint32)
LockDoor == Send("DoorLock", 0)
UnlockDoor == Send("DoorLock", 1)
UnlockDoorWithTimeout == Send("DoorLock", 3)
ToggleDoorLock == Send("DoorLock", 2)
SetDoorLockPIN == SendText("DoorLock", 5, Whole)
ClearDoorLockPIN == Send("DoorLock", 7)
StartWarning == Send("IASWD", 0)
StopWarning == Send("IASWD", 0)
Squawk == Send("IASWD", 1)
GetAlarmCount == Single("Alarms", "AlarmCount", toUint16)
ResetAlarm == Send("Alarms", 0)
ResetAllAlarms == Send("Alarms", 1)
GetAlarm == Sequence(<<Exchange("Alarms", 2, 1, 8)>>, "end")
ResetAlarmLog == Send("Alarms", 3)
GetCurrentPrice == Sequence(<<Exchange("Price", 0, 0, 28)>>, "end")
DisplaySEMessage == SendText("SEMessaging", 0, 255)
CancelSEMessage == Send("SEMessaging", 1)
GetLastSEMessage == Send("SEMessaging", 0)

(****************** messaging_core.go, attributes.go **********************)

ConfigureReporting(cluster) == Sequence(<<[kind |-> "configure", cluster |-> cluster]>>, "end")
ReadReportingConfig(cluster) == Sequence(<<[kind |-> "config", cluster |-> cluster]>>, "end")
(* WriteAttributes, which a caller may use for any attribute itself. *)
WriteAttributes(cluster, attr, type, go) == Set(cluster, attr, type, go)
ReadAttributeUint8(cluster, attr) == Single(cluster, attr, ExtractUint8)
ReadAttributeUint16(cluster, attr) == Single(cluster, attr, toUint16)
ReadAttributeInt16(cluster, attr) == Single(cluster, attr, toInt16)
ReadAttributeInt8(cluster, attr) == Single(cluster, attr, toInt8)
ReadAttributeUint32(cluster, attr) == Single(cluster, attr, toUint32)
ReadAttributeInt32(cluster, attr) == Single(cluster, attr, toInt32)
ReadAttributeUint48(cluster, attr) == Single(cluster, attr, toUint48)
ReadAttributeBool(cluster, attr) == Single(cluster, attr, ExtractBool)
ReadAttributeString(cluster, attr) == Single(cluster, attr, ExtractString)
ReadAttributeFloat32(cluster, attr) == Single(cluster, attr, ExtractFloat32)

=============================================================================
