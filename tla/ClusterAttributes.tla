-------------------------- MODULE ClusterAttributes --------------------------
(***************************************************************************)
(* The attributes the program knows of each cluster, by data type, and the *)
(* commands a device answers by a command of its own (pkg/zcl/clusters.go). *)
(* The type is the one the source's comment names; where it names none it  *)
(* is the Zigbee standard's.                                               *)
(***************************************************************************)
EXTENDS ZclTypes, TLC

Basic ==
  [Uint8 |-> {"ZCLVersion", "AppVersion", "StackVersion", "HWVersion"},
   CharString |-> {"ManufacturerName", "ModelIdentifier", "DateCode", "ProductURL", "ManufacturerVersionDetails",
                   "SerialNumber", "ProductLabel", "LocationDescription", "SWBuildID"},
   OctetString |-> {"ProductCode"}, Boolean |-> {"DeviceEnabled"}, Bitmap8 |-> {"AlarmMask", "DisableLocalConfig"},
   Enum8 |-> {"PowerSource", "PhysicalEnvironment", "GenericDeviceClass", "GenericDeviceType"}]
PowerConfig ==   \* of three battery sets alike, the first
  [Uint16 |-> {"MainsVoltage", "MainsVoltageMinThreshold", "MainsVoltageMaxThreshold", "MainsVoltageDwellTripPnt",
               "BatteryAHrRating"},
   Uint8 |-> {"MainsFrequency", "BatteryVoltage", "BatteryPercentage", "BatteryQuantity", "BatteryRatedVoltage",
              "BatteryVoltageMinThreshold", "BatteryVoltageThreshold1", "BatteryVoltageThreshold2",
              "BatteryVoltageThreshold3", "BatteryPercentageMinThreshold", "BatteryPercentageThreshold1",
              "BatteryPercentageThreshold2", "BatteryPercentageThreshold3"},
   Bitmap8 |-> {"MainsAlarmMask", "BatteryAlarmMask"}, CharString |-> {"BatteryManufacturer"},
   Enum8 |-> {"BatterySize"}, Bitmap32 |-> {"BatteryAlarmState"}]
Identify == [Uint16 |-> {"IdentifyTime"}]
Scenes == [Uint8 |-> {"SceneCount", "CurrentScene"}, Uint16 |-> {"CurrentGroup"}, Boolean |-> {"SceneValid"},
           Bitmap8 |-> {"NameSupport"}]
OnOff == [Boolean |-> {"OnOff", "GlobalSceneCtrl"}, Uint16 |-> {"OnTime", "OffWaitTime"}, Enum8 |-> {"StartUpOnOff"}]
LevelControl ==
  [Uint8 |-> {"CurrentLevel", "MinLevel", "MaxLevel", "OnLevel", "DefaultMoveRate", "StartupLevel"},
   Uint16 |-> {"RemainingTime", "CurrentFrequency", "MinFrequency", "MaxFrequency", "OnOffTransTime", "OnTransTime",
               "OffTransTime"}, Bitmap8 |-> {"Options"}]
Alarms == [Uint16 |-> {"AlarmCount"}]
PollControl ==
  [Uint32 |-> {"CheckInInterval", "LongPollInterval", "CheckInIntervalMin", "LongPollIntervalMin"},
   Uint16 |-> {"ShortPollInterval", "FastPollTimeout", "FastPollTimeoutMax"}]
DoorLock ==
  [Enum8 |-> {"State", "Type", "DoorState", "OperatingMode"},
   Boolean |-> {"ActuatorEnabled", "EnableLogging", "EnableLocalProg", "EnableOneTouchLocking", "EnablePrivacyButton",
                "SendPINOverTheAir", "RequirePINForRF"},
   Uint32 |-> {"DoorOpenEvents", "DoorClosedEvents", "AutoRelockTime"},
   Uint16 |-> {"OpenPeriod", "NumLogRecords", "NumTotalUsers", "NumPINUsers", "NumRFIDUsers"},
   Uint8 |-> {"MaxPINLen", "MinPINLen", "MaxRFIDLen", "MinRFIDLen", "LEDSettings", "SoundVolume",
              "WrongCodeEntryLimit", "UserCodeTempDisable"},
   CharString |-> {"Language"}, Bitmap16 |-> {"SupportedModes", "DefaultConfigReg"}]
WindowCovering ==
  [Enum8 |-> {"Type"}, Bitmap8 |-> {"ConfigStatus", "OperationalStatus", "Mode"},
   Uint16 |-> {"PhysicalClosedLimitLift", "PhysicalClosedLimitTilt", "CurrentPositionLift", "CurrentPositionTilt",
               "NumActuationsLift", "NumActuationsTilt", "InstalledOpenLimitLift", "InstalledClosedLimitLift",
               "InstalledOpenLimitTilt", "InstalledClosedLimitTilt", "VelocityLift", "AccelerationTimeLift",
               "DecelerationTimeLift"},
   Uint8 |-> {"CurrentPositionLiftPercent", "CurrentPositionTiltPercent", "TargetPositionLiftPct", "TargetPositionTiltPct"},
   OctetString |-> {"IntermediateSetpointsLift", "IntermediateSetpointsTilt"}]
ColorControl ==
  [Uint8 |-> {"CurrentHue", "CurrentSaturation", "ColorLoopActive", "ColorLoopDirection"},
   Uint16 |-> {"RemainingTime", "CurrentX", "CurrentY", "ColorTempMireds", "ColorTempMin", "ColorTempMax",
               "EnhancedCurrentHue", "ColorLoopTime", "ColorLoopStartEnhancedHue", "ColorLoopStoredEnhancedHue"},
   Enum8 |-> {"ColorMode", "EnhancedColorMode"}, Bitmap16 |-> {"Capabilities"}]
Thermostat ==
  [Int16 |-> {"LocalTemp", "OutdoorTemp", "AbsMinHeatSetpoint", "AbsMaxHeatSetpoint", "AbsMinCoolSetpoint",
              "AbsMaxCoolSetpoint", "OccupiedCoolingSetpoint", "OccupiedHeatingSetpoint", "UnoccupiedCoolingSetpoint",
              "UnoccupiedHeatingSetpoint", "MinHeatSetpointLimit", "MaxHeatSetpointLimit", "MinCoolSetpointLimit",
              "MaxCoolSetpointLimit"},
   Bitmap8 |-> {"Occupancy"}, Uint8 |-> {"PICoolingDemand", "PIHeatingDemand"},
   Int8 |-> {"LocalTempCalibration", "MinSetpointDeadBand"},
   Enum8 |-> {"ControlSeqOfOper", "SystemMode", "RunningMode"}, Bitmap16 |-> {"RunningState"}]
Fan == [Enum8 |-> {"Mode", "ModeSequence"},
        Uint8 |-> {"PercentSetting", "PercentCurrent", "SpeedMax", "SpeedSetting", "SpeedCurrent"}]
Time == [Uint32 |-> {"Time", "DstStart", "DstEnd", "StandardTime", "LocalTime", "LastSetTime", "ValidUntilTime"},
         Bitmap8 |-> {"Status"}, Int32 |-> {"Zone", "DstShift"}]

(* What the inputs, outputs and values of the I/O clusters have in common, and each its own. *)
IO(texts, singles, rest) ==
  [CharString |-> texts \cup {"Description"}, Single |-> singles, Boolean |-> rest.bool \cup {"OutOfService"},
   Enum8 |-> rest.enum \cup {"Reliability"}, Bitmap8 |-> {"StatusFlags"}, Enum16 |-> rest.units,
   Uint16 |-> rest.states, Uint32 |-> rest.times]
Plain == [bool |-> {}, enum |-> {}, units |-> {}, states |-> {}, times |-> {}]
Texts == {"ActiveText", "InactiveText"}
MinOnOff == {"MinimumOffTime", "MinimumOnTime"}
Units == [Plain EXCEPT !.units = {"EngineeringUnits"}]
BinaryInput == IO(Texts, {}, [Plain EXCEPT !.bool = {"PresentValue"}, !.enum = {"Polarity"}])
AnalogInput == IO({}, {"PresentValue", "MinPresentValue", "MaxPresentValue", "Resolution"}, Units)
AnalogOutput == IO({}, {"PresentValue", "MinPresentValue", "MaxPresentValue", "Resolution", "RelinquishDefault"}, Units)
AnalogValue == IO({}, {"PresentValue", "RelinquishDefault"}, Units)
BinaryOutput == IO(Texts, {}, [Plain EXCEPT !.bool = {"PresentValue", "RelinquishDefault"}, !.enum = {"Polarity"},
                                            !.times = MinOnOff])
BinaryValue == IO(Texts, {}, [Plain EXCEPT !.bool = {"PresentValue", "RelinquishDefault"}, !.times = MinOnOff])
MultistateInput == IO({}, {}, [Plain EXCEPT !.states = {"PresentValue", "NumberOfStates"}]) \* and the array StateText
MultistateOutput == IO({}, {}, [Plain EXCEPT !.states = {"PresentValue", "NumberOfStates", "RelinquishDefault"}])
MultistateValue == IO({}, {}, [Plain EXCEPT !.states = {"PresentValue", "NumberOfStates", "RelinquishDefault"}])

Measured == {"MeasuredValue", "MinMeasuredValue", "MaxMeasuredValue"}
TempMeasurement == [Int16 |-> Measured, Uint16 |-> {"Tolerance"}]
HumidityMeas == [Uint16 |-> Measured \cup {"Tolerance"}]
FlowMeasurement == [Uint16 |-> Measured \cup {"Tolerance"}]
PressureMeas == [Int16 |-> Measured \cup {"ScaledValue", "MinScaledValue", "MaxScaledValue"},
                 Uint16 |-> {"Tolerance", "ScaledTolerance"}, Int8 |-> {"Scale"}]
IlluminanceMeas == [Uint16 |-> Measured \cup {"Tolerance"}]
CarbonMonoxide == [Single |-> Measured \cup {"Tolerance"}]
CarbonDioxide == [Single |-> Measured \cup {"Tolerance"}]
PM25Measurement == [Single |-> Measured \cup {"Tolerance"}]
FormaldehydeMeasurement == [Single |-> Measured \cup {"Tolerance"}]
OccupancySensing == [Bitmap8 |-> {"Value"}, Enum8 |-> {"Type"}, Uint8 |-> {"PIRUnoccupiedToOccupiedThreshold"},
                     Uint16 |-> {"PIROccupiedToUnoccupiedDelay", "PIRUnoccupiedToOccupiedDelay"}]
IASZone == [Enum8 |-> {"State"}, Enum16 |-> {"Type"}, Bitmap16 |-> {"Status"}, IEEEAddr |-> {"CIEAddr"},
            Uint8 |-> {"ID", "NumZoneSensitivityLevels", "CurrentZoneSensitivityLevel"}]
ElectricalMeas ==
  [Bitmap32 |-> {"MeasType"}, Uint32 |-> {"PowerMultiplier", "PowerDivisor"}, Int8 |-> {"PowerFactor"},
   Int16 |-> {"ActivePower", "ActivePowerMin", "ActivePowerMax", "ReactivePower"},
   Uint16 |-> {"ACFrequency", "ACFrequencyMin", "ACFrequencyMax", "ACFrequencyDivisor", "RMSVoltage", "RMSVoltageMin",
               "RMSVoltageMax", "RMSCurrent", "RMSCurrentMin", "RMSCurrentMax", "ApparentPower", "ACVoltageMulti",
               "ACVoltageDivisor", "ACCurrentMulti", "ACCurrentDivisor", "ACPowerMulti", "ACPowerDivisor"}]
MeteringSimple ==
  [Uint48 |-> {"CurrentSummation", "CurrentTier1", "CurrentTier2"}, Bitmap8 |-> {"Status", "SummationFormat",
   "DemandFormat", "HistoricalFormat"}, Enum8 |-> {"UnitOfMeasure"}, Int24 |-> {"InstantDemand"},
   Uint24 |-> {"Multiplier", "Divisor", "CurrentDayConsume", "PrevDayConsume"}]
DRLC == [Uint8 |-> {"UtilityEnrolmentGroup", "StartRandomizeMinutes", "DurationRandomizeMinutes"},
         Uint16 |-> {"DeviceClassValue"}]
OTAUpgrade ==
  [IEEEAddr |-> {"UpgradeServerID"}, Enum8 |-> {"ImageUpgradeStatus"},
   Uint32 |-> {"FileOffset", "CurrentFileVersion", "DownloadedFileVersion", "ImageStamp"},
   Uint16 |-> {"CurrentZigBeeStackVersion", "DownloadedZigBeeStackVersion", "ManufacturerID", "ImageTypeID",
               "MinBlockRequestDelay"}]
TuyaSpecific == [Enum8 |-> {"EnergyReset"}]

Attributes ==
  [Basic |-> Basic, PowerConfig |-> PowerConfig, Identify |-> Identify, Scenes |-> Scenes, OnOff |-> OnOff,
   LevelControl |-> LevelControl, Alarms |-> Alarms, PollControl |-> PollControl, DoorLock |-> DoorLock,
   WindowCovering |-> WindowCovering, ColorControl |-> ColorControl, Thermostat |-> Thermostat, Fan |-> Fan,
   Time |-> Time, BinaryInput |-> BinaryInput, AnalogInput |-> AnalogInput, AnalogOutput |-> AnalogOutput,
   AnalogValue |-> AnalogValue, BinaryOutput |-> BinaryOutput, BinaryValue |-> BinaryValue,
   MultistateInput |-> MultistateInput, MultistateOutput |-> MultistateOutput, MultistateValue |-> MultistateValue,
   TempMeasurement |-> TempMeasurement, HumidityMeas |-> HumidityMeas, FlowMeasurement |-> FlowMeasurement,
   PressureMeas |-> PressureMeas, IlluminanceMeas |-> IlluminanceMeas, CarbonMonoxide |-> CarbonMonoxide,
   CarbonDioxide |-> CarbonDioxide, PM25Measurement |-> PM25Measurement,
   FormaldehydeMeasurement |-> FormaldehydeMeasurement, OccupancySensing |-> OccupancySensing, IASZone |-> IASZone,
   ElectricalMeas |-> ElectricalMeas, MeteringSimple |-> MeteringSimple, DRLC |-> DRLC, OTAUpgrade |-> OTAUpgrade,
   TuyaSpecific |-> TuyaSpecific, Tuya2 |-> TuyaSpecific]

Known(cluster) == UNION {Attributes[cluster][t] : t \in DOMAIN Attributes[cluster]}
TypeIn(cluster, attr) == CHOOSE t \in DOMAIN Attributes[cluster] : attr \in Attributes[cluster][t]

(* Attributes are told apart by their numbers, and every cluster begins at zero: *)
(* what each has at 0x0000 and after, and at 0x0010 and after. At 0x4000 are the *)
(* four below; the other numbers of the Basic cluster are its own.               *)
FromZero ==
  [Basic |-> <<"ZCLVersion", "AppVersion", "StackVersion", "HWVersion", "ManufacturerName", "ModelIdentifier", "DateCode",
               "PowerSource", "-", "-", "ProductCode", "ProductURL", "ManufacturerVersionDetails", "SerialNumber", "ProductLabel">>,
   PowerConfig |-> <<"MainsVoltage", "MainsFrequency">>, Identify |-> <<"IdentifyTime">>,
   Scenes |-> <<"SceneCount", "CurrentScene", "CurrentGroup", "SceneValid", "NameSupport">>, OnOff |-> <<"OnOff">>,
   LevelControl |-> <<"CurrentLevel", "RemainingTime", "MinLevel", "MaxLevel", "CurrentFrequency", "MinFrequency", "MaxFrequency">>,
   Alarms |-> <<"AlarmCount">>,
   PollControl |-> <<"CheckInInterval", "LongPollInterval", "ShortPollInterval", "FastPollTimeout", "CheckInIntervalMin",
                     "LongPollIntervalMin", "FastPollTimeoutMax">>,
   DoorLock |-> <<"State", "Type", "ActuatorEnabled", "DoorState", "DoorOpenEvents", "DoorClosedEvents", "OpenPeriod">>,
   WindowCovering |-> <<"Type", "PhysicalClosedLimitLift", "PhysicalClosedLimitTilt", "CurrentPositionLift", "CurrentPositionTilt",
                        "NumActuationsLift", "NumActuationsTilt", "ConfigStatus", "CurrentPositionLiftPercent",
                        "CurrentPositionTiltPercent", "OperationalStatus", "TargetPositionLiftPct", "TargetPositionTiltPct">>,
   ColorControl |-> <<"CurrentHue", "CurrentSaturation", "RemainingTime", "CurrentX", "CurrentY", "-", "-", "ColorTempMireds",
                      "ColorMode">>,
   Thermostat |-> <<"LocalTemp", "OutdoorTemp", "Occupancy", "AbsMinHeatSetpoint", "AbsMaxHeatSetpoint", "AbsMinCoolSetpoint",
                    "AbsMaxCoolSetpoint", "PICoolingDemand", "PIHeatingDemand">>,
   Fan |-> <<"Mode", "ModeSequence", "PercentSetting", "PercentCurrent", "SpeedMax", "SpeedSetting", "SpeedCurrent">>,
   Time |-> <<"Time", "Status", "Zone", "DstStart", "DstEnd", "DstShift", "StandardTime", "LocalTime", "LastSetTime", "ValidUntilTime">>,
   BinaryInput |-> <<"-", "-", "-", "-", "ActiveText">>, BinaryOutput |-> <<"-", "-", "-", "-", "ActiveText">>,
   BinaryValue |-> <<"-", "-", "-", "-", "ActiveText">>,
   OccupancySensing |-> <<"Value", "Type">>, IASZone |-> <<"State", "Type", "Status">>, ElectricalMeas |-> <<"MeasType">>,
   MeteringSimple |-> <<"CurrentSummation">>,
   DRLC |-> <<"UtilityEnrolmentGroup", "StartRandomizeMinutes", "DurationRandomizeMinutes", "DeviceClassValue">>,
   OTAUpgrade |-> <<"UpgradeServerID", "FileOffset", "CurrentFileVersion", "CurrentZigBeeStackVersion", "DownloadedFileVersion",
                    "DownloadedZigBeeStackVersion", "ImageUpgradeStatus", "ManufacturerID", "ImageTypeID", "MinBlockRequestDelay",
                    "ImageStamp">>]
  @@ [k \in {"TempMeasurement", "HumidityMeas", "FlowMeasurement", "PressureMeas", "IlluminanceMeas", "CarbonMonoxide",
              "CarbonDioxide", "PM25Measurement", "FormaldehydeMeasurement"}
        |-> <<"MeasuredValue", "MinMeasuredValue", "MaxMeasuredValue", "Tolerance">>]
FromSixteen ==
  [Basic |-> <<"LocationDescription", "PhysicalEnvironment", "DeviceEnabled", "AlarmMask", "DisableLocalConfig">>,
   PowerConfig |-> <<"MainsAlarmMask", "MainsVoltageMinThreshold", "MainsVoltageMaxThreshold", "MainsVoltageDwellTripPnt">>,
   LevelControl |-> <<"OnOffTransTime", "OnLevel", "OnTransTime", "OffTransTime", "DefaultMoveRate">>,
   DoorLock |-> <<"NumLogRecords", "NumTotalUsers", "NumPINUsers", "NumRFIDUsers">>,
   WindowCovering |-> <<"InstalledOpenLimitLift", "InstalledClosedLimitLift", "InstalledOpenLimitTilt", "InstalledClosedLimitTilt",
                        "VelocityLift">>,
   Thermostat |-> <<"LocalTempCalibration", "OccupiedCoolingSetpoint", "OccupiedHeatingSetpoint", "UnoccupiedCoolingSetpoint",
                    "UnoccupiedHeatingSetpoint">>,
   PressureMeas |-> <<"ScaledValue", "MinScaledValue", "MaxScaledValue", "ScaledTolerance", "Scale">>,
   OccupancySensing |-> <<"PIROccupiedToUnoccupiedDelay", "PIRUnoccupiedToOccupiedDelay", "PIRUnoccupiedToOccupiedThreshold">>,
   IASZone |-> <<"CIEAddr", "ID", "NumZoneSensitivityLevels", "CurrentZoneSensitivityLevel">>]
At4000 == [Basic |-> <<"SWBuildID">>, OnOff |-> <<"GlobalSceneCtrl">>, LevelControl |-> <<"StartupLevel">>,
           ColorControl |-> <<"EnhancedCurrentHue">>]

(* Attribute a of the Basic cluster has the number that b has in another cluster. *)
Shares(a, cluster, b) ==
  \E numbers \in {FromZero, FromSixteen, At4000} :
    cluster \in DOMAIN numbers
      /\ \E i \in DOMAIN numbers.Basic \cap DOMAIN numbers[cluster] : numbers.Basic[i] = a /\ numbers[cluster][i] = b

(* The commands of a cluster that are answered by a command of the same number. *)
Replies == [Groups |-> {0, 1, 2, 3}, Scenes |-> {0, 1, 2, 3, 4, 6}]
=============================================================================
