-------------------------- MODULE MCClusterOperations --------------------------
\* Every operation by itself, the generic reads on every attribute of their type,
\* and the pairs of operations that wait for answers of the same cluster, or of
\* which one waits for those of the Basic cluster and takes the other's.
EXTENDS ClusterOperations

MCCallers == {"a", "b"}
MCReports == {<<"OnOff", "OnOff">>, <<"PowerConfig", "BatteryPercentage">>, <<"IASZone", "Status">>}
MCTextLengths == {0, 17, 300}

Alone ==
  {ResetToFactoryDefaults, ReadDeviceInfo, GetOnOffState, GetDeviceStatus, TurnOn, TurnOff, Toggle, OffWithEffect, OnWithTimedOff,
   SetStartupOnOff, SetBrightness, GetBrightness, MoveLevel, StepLevel, StopLevel, SetStartupLevel, IdentifyFor, TriggerEffect,
   SetColorTemperature, SetColorKelvin, GetColorTemperature, GetColorTempInfo, SetHueSaturation, SetColorXY, SetColorRGB, SetHue,
   SetSaturation, GetColor, AddToGroup, RemoveFromGroup, RemoveFromAllGroups, GetGroupMembership, StoreScene, AddScene, RecallScene,
   RemoveScene, RemoveAllScenes, GetSceneMembership, GroupTurnOn, GroupTurnOff, GroupToggle, GroupSetBrightness, GroupRecallScene,
   GetThermostatStatus, SetThermostatMode, SetThermostatSetpoint, AdjustThermostatSetpoint, GetWindowCoveringStatus,
   OpenWindowCovering, CloseWindowCovering, StopWindowCovering, SetWindowCoveringPosition, SetWindowCoveringTilt, GetFanStatus,
   SetFanMode, SetFanSpeed, GetBinaryInput, GetBinaryInputValue, GetAnalogInput, GetAnalogInputValue, GetAnalogOutput,
   SetAnalogOutput, GetAnalogOutputValue, GetAnalogValue, SetAnalogValue, GetBinaryValue, SetBinaryValue, GetMultistateInput,
   GetMultistateInputValue, GetBinaryOutput, SetBinaryOutput, GetBinaryOutputValue, GetMultistateOutput, SetMultistateOutput,
   GetMultistateValue, SetMultistateValue, ReadPowerData, GetBatteryInfo, GetMainsInfo, ResetEnergy, ReadSensorData, GetPressure,
   GetAirQuality, GetCO2Level, GetPM25Level, WaitForSensorReport, GetTime, SetTime, GetTimeZone, SetTimeZone, GetDRLCInfo, GetOTAInfo,
   GetOTAUpgradeStatus, GetPollControlInfo, SendCheckInResponse, StopFastPolling, SetLongPollInterval, SetShortPollInterval,
   GetIASZoneStatus, EnrollIASZone, WriteIASZoneCIEAddress, WaitForIASZoneNotification, GetDoorLockStatus, LockDoor, UnlockDoor,
   UnlockDoorWithTimeout, ToggleDoorLock, SetDoorLockPIN, ClearDoorLockPIN, StartWarning, StopWarning, Squawk, GetAlarmCount,
   ResetAlarm, ResetAllAlarms, GetAlarm, ResetAlarmLog, GetCurrentPrice, DisplaySEMessage, CancelSEMessage, GetLastSEMessage,
   ConfigureReporting("PowerConfig"), ReadReportingConfig("PowerConfig")}

ReadAttribute(cluster, attr, go) ==
  CASE go = "uint8" -> {ReadAttributeUint8(cluster, attr)}    [] go = "uint16" -> {ReadAttributeUint16(cluster, attr)}
    [] go = "int16" -> {ReadAttributeInt16(cluster, attr)}    [] go = "int8" -> {ReadAttributeInt8(cluster, attr)}
    [] go = "uint32" -> {ReadAttributeUint32(cluster, attr)}  [] go = "int32" -> {ReadAttributeInt32(cluster, attr)}
    [] go = "uint64" -> {ReadAttributeUint48(cluster, attr)}  [] go = "bool" -> {ReadAttributeBool(cluster, attr)}
    [] go = "float32" -> {ReadAttributeFloat32(cluster, attr)}
    [] OTHER -> {}
Generic == UNION {UNION {UNION {IF t = "CharString" THEN {ReadAttributeString(k, a)} ELSE ReadAttribute(k, a, ReadAs(t))
                                  : a \in Attributes[k][t]} : t \in DOMAIN Attributes[k] \ {"OctetString"}} : k \in DOMAIN Attributes}

RenameLocation == WriteAttributes("Basic", "LocationDescription", "CharString", "string")
Pairs ==
  {<<GetBinaryInput, GetBinaryInputValue>>, <<GetAlarm, GetAlarmCount>>, <<GetBatteryInfo, GetMainsInfo>>,
   <<GetColorTemperature, GetColor>>, <<SetThermostatMode, SetThermostatSetpoint>>,
   <<SetThermostatMode, GetThermostatStatus>>, <<GetSceneMembership, GetSceneMembership>>, <<StoreScene, GetSceneMembership>>,
   <<WaitForSensorReport, GetOnOffState>>, <<WaitForSensorReport, WaitForSensorReport>>,
   <<WaitForIASZoneNotification, GetIASZoneStatus>>, <<ConfigureReporting("PowerConfig"), WaitForSensorReport>>,
   <<ConfigureReporting("PowerConfig"), GetBatteryInfo>>, <<GetTime, SetTime>>,
   <<GetDeviceStatus, ReadAttributeUint8("Thermostat", "PICoolingDemand")>>,
   <<ReadAttributeUint8("Basic", "ZCLVersion"), GetBrightness>>,
   <<RenameLocation, SetStartupLevel>>}

MCPlans == {"a" :> o : o \in Alone \cup Generic} \cup {("a" :> p[1]) @@ ("b" :> p[2]) : p \in Pairs}
=============================================================================
