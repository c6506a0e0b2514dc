----------------------------- MODULE NopHandlers -----------------------------
(***************************************************************************)
(* The request handlers of the NOP business layer (business/caps): what    *)
(* each asks of a request, and what it reads, writes or calls.  One row    *)
(* per registered method, one table per section of a file; the behaviour   *)
(* of a row is in NopSettings.                                             *)
(*                                                                         *)
(* A cell is a static variable of a cap_*.c file, or the group of them     *)
(* that one setter stores; the fields of a put are the arguments kept in   *)
(* it.  What an answer that reads no cell says, and what the JSON of an    *)
(* argument looks like, is left out.                                       *)
(***************************************************************************)
EXTENDS TLC

(* Where a cell lives: once per device, or per channel.  A request without  *)
(* a channel means channel "absent"; a channel that is out of range means  *)
(* channel 0, in cap_misc.c and cap_gui_playback.c the nearer end, and as a *)
(* port number it is refused by the setter and has the default settings.   *)
Dev     == [per |-> "device", absent |-> 0, clamp |-> "none"]
Ch(d)   == [per |-> "channel", absent |-> d, clamp |-> "zero"]
One     == [per |-> "channel", absent |-> 1, clamp |-> "one"]   \* counted from 1
Port    == [per |-> "channel", absent |-> 0, clamp |-> "port"]
Near(d) == [per |-> "channel", absent |-> d, clamp |-> "near"]
NearOne == [per |-> "channel", absent |-> 1, clamp |-> "nearOne"]

Never == [asked |-> FALSE, after |-> {}]

Row(does, cell, at, needs, fields) ==
  [does |-> does, cell |-> cell, at |-> at, needs |-> needs, oneOf |-> {},
   fields |-> fields, onvif |-> Never]

Says(needs)                 == Row("say", "none", Dev, needs, {})
Gets(cell, at)              == Row("get", cell, at, {}, {})
Puts(cell, at, needs, more) == Row("put", cell, at, needs, needs \cup more)
Keeps(cell, at, fields)     == Row("keep", cell, at, {}, fields)
Clears(cell, at, fields)    == Row("clear", cell, at, {}, fields)
Once(cell, at)              == Row("once", cell, at, {}, {"password"})  \* refused the second time
Asks(device, needs)         == Row("ask", device, Dev, needs, {})   \* a HAL call that reads
Tells(device, needs)        == Row("tell", device, Dev, needs, {})  \* a HAL call that acts
Drives(engine, needs)       == Row("drive", engine, Dev, needs, {})

Needs(args, h)    == [h EXCEPT !.needs = @ \cup args]
OneOf(args, h)    == [h EXCEPT !.oneOf = args]

(* A channel that is an ONVIF camera has the request forwarded to it, after *)
(* the arguments "after" were found.                                       *)
OnvifAfter(args, h) == [h EXCEPT !.onvif = [asked |-> TRUE, after |-> args]]
OnvifFirst(h)       == OnvifAfter({}, h)
OnvifChecked(h)     == OnvifAfter(h.needs, h)

-----------------------------------------------------------------------------
(* cap_agent.c, cap_auth.c, cap_device.c *)

AgentHandlers ==
     "enableLog"             :> Puts("log", Dev, {}, {})
  @@ "getLog"                :> Says({})
  @@ "errorReport"           :> Says({"api", "error"})
  @@ "restartAgent"          :> Says({})
  @@ "agent_diagnosis"       :> Says({})
  @@ "agent_resetTunnel"     :> Says({})
  @@ "enableDiagnostic"      :> Needs({"durationMinutes", "maxEvents"}, Puts("diagnostic", Dev, {}, {}))
AgentReportHandlers ==
     "getReportServer"       :> Says({"model", "serialNumber"})
  @@ "getEnvironment"        :> Says({})
  @@ "notify_appSetupStatus" :> Says({"status"})

AuthHandlers ==
     "createCredential" :> Says({"username", "password"})
  @@ "deleteCredential" :> Says({"credential"})

DeviceHandlers ==
     "getDeviceInfo"                    :> Asks("system", {})
  @@ "X_NightOwl_getDeviceCapabilities" :> Says({})
  @@ "X_NightOwl_getAPIVersion"         :> Says({})

-----------------------------------------------------------------------------
(* cap_ai.c, cap_ai_advanced.c *)

AiFilterHandlers ==
     "AI_getDetectFilter"     :> Gets("detectFilter", Ch(1))
  @@ "AI_setDetectFilter"     :> Puts("detectFilter", Ch(1), {"sensors"}, {})
  @@ "AI_getDetectThreshold"  :> Gets("detectThreshold", Ch(1))
  @@ "AI_setDetectThreshold"  :> Puts("detectThreshold", Ch(1), {"sensors"}, {})
AiZoneHandlers ==
     "getPtzTrack"            :> Gets("ptzTrack", Ch(1))
  @@ "setPtzTrack"            :> Puts("ptzTrack", Ch(1), {"modes"}, {})
  @@ "setChannelSensorConfig" :> OnvifChecked(Says({"sensors"}))
  @@ "X_NightOwl_getChannelActivityZoneTypes" :> Says({})
  @@ "X_NightOwl_getChannelTriggerActivityZone" :> OnvifFirst(Gets("activityZone", Ch(1)))
  @@ "X_NightOwl_setChannelTriggerActivityZone" :>
       OnvifFirst(OneOf({"triggers", "activityZonePoints"},
                        Puts("activityZone", Ch(1), {}, {"triggers", "sensitivity", "activityZonePoints"})))

AiCapabilities == "AI_getChannelAICapabilities" :> Says({})
AiRuleHandlers ==
     "AI_getChannelLineCrossDetect"      :> OnvifFirst(Gets("lineCross", Ch(1)))
  @@ "AI_setChannelLineCrossDetect"      :> OnvifFirst(Puts("lineCross", Ch(1), {"rules"}, {}))
  @@ "AI_getChannelFieldIntrusionDetect" :> OnvifFirst(Gets("fieldIntrusion", Ch(1)))
  @@ "AI_setChannelFieldIntrusionDetect" :> OnvifFirst(Puts("fieldIntrusion", Ch(1), {"rules"}, {}))
AiEventHandlers ==
     "AI_getEventExtInfo"       :> Says({"startTime"})
  @@ "AI_getEventExtInfoBatchByReverseTime" :> Says({"startTime"})
  @@ "AI_getEventExtInfoConfig" :> Gets("eventExtInfo", Ch(1))
  @@ "AI_setEventExtInfoConfig" :>
       OneOf({"enable", "collectionIntervalMs"},
             Puts("eventExtInfo", Ch(1), {}, {"enable", "collectionIntervalMs"}))

-----------------------------------------------------------------------------
(* cap_audio.c, cap_light.c, cap_ota.c, cap_ptz.c, cap_storage.c, cap_stream.c, *)
(* cap_record.c: calls of the hardware. *)

AudioHandlers ==
     "startSpeaker" :> Tells("audio", {"channel"})
  @@ "stopSpeaker"  :> Tells("audio", {"channel"})
LightHandlers ==
     "setChannelLightSwitch"     :> Tells("light", {"enable"})
  @@ "setChannelLightBrightness" :> Tells("light", {"brightness"})
OtaHandlers ==
     "upgradeFirmware"            :> Tells("ota", {})
  @@ "checkFirmwareUpgradeStatus" :> Asks("ota", {})
PtzHandlers ==
     "ptzMove"        :> OnvifChecked(Tells("ptz", {"direction"}))
  @@ "ptzGotoPreset"  :> OnvifChecked(Tells("ptz", {"preset"}))
  @@ "ptzMoveByStep"  :> OnvifChecked(Tells("ptz", {"direction"}))
  @@ "ptzMoveStop"    :> OnvifChecked(Tells("ptz", {}))
  @@ "ptzFocusByStep" :> OnvifChecked(Tells("ptz", {"direction"}))
  @@ "ptzFocusStop"   :> OnvifChecked(Tells("ptz", {}))
StorageHandlers ==
     "getCurrentStorage"         :> Says({})
  @@ "X_NightOwl_getStorageInfo" :> Says({})
  @@ "getAllDisksHealth"         :> Says({})
  @@ "formatStorage"             :> Tells("storage", {"value"})
StreamHandlers ==
     "getLiveCapabilities" :> Says({})
  @@ "startLiveStream"     :> Tells("video", {"channel"})
  @@ "stopLiveStream"      :> Tells("video", {"channel"})
RecordHandlers ==
     "X_NightOwl_getChannelRecordingSwitch" :> Asks("record", {"channel"})
  @@ "X_NightOwl_setChannelRecordingSwitch" :> Tells("record", {"channel", "value"})
  @@ "X_NightOwl_getChannelContinuousRecordingSchedule" :> Asks("record", {"channel"})

-----------------------------------------------------------------------------
(* cap_event.c *)

EventHandlers ==
     "X_NightOwl_queryEventCalendar" :> Says({"resolution", "year", "month", "channels"})
  @@ "X_NightOwl_queryEventList" :>
       Says({"startTime", "eventTypes", "channels", "command", "listNumber"})
  @@ "X_NightOwl_queryEventListWithSpecificOrder" :>
       Says({"startTime", "order", "eventTypes", "channels", "command", "listNumber"})
EventDownloadHandlers ==
     "X_NightOwl_getEventDownloadCapability" :> Says({})
  @@ "X_NightOwl_getEventDownloadProgress"   :> Says({"processId"})
  @@ "X_NightOwl_startEventDownload"         :> Says({"channel", "startTime", "duration", "resolution"})
  @@ "X_NightOwl_startEventDownloadwithURL"  :> Says({"channel", "startTime"})

-----------------------------------------------------------------------------
(* cap_cloud.c *)

CloudConfigHandlers ==
     "getCloudRecordConfigs"   :> Gets("cloudRecordConfigs", Dev)
  @@ "setCloudRecordConfigs"   :> Puts("cloudRecordConfigs", Dev, {"channels"}, {"mode"})
  @@ "getCloudRecordLogConfig" :> Gets("cloudRecordLog", Dev)
  @@ "setCloudRecordLogConfig" :> Puts("cloudRecordLog", Dev, {"interval"}, {})
CloudRecordHandlers ==
     "getCloudRecordTestProgress" :> Says({})
  @@ "startCloudRecordTest"       :> Says({})
  @@ "stopCloudRecordTest"        :> Says({})
  @@ "X_NightOwl_getCloudRecordSwitch" :> Gets("cloudRecordSwitch", Dev)
  @@ "X_NightOwl_setCloudRecordSwitch" :> Puts("cloudRecordSwitch", Dev, {"value"}, {})
  @@ "getChannelRecordingTime"    :> Needs({"channel"}, Gets("recordingTime", Ch(0)))
  @@ "setChannelRecordingTime"    :> Needs({"channel"}, Puts("recordingTime", Ch(0), {"value"}, {}))
  @@ "getRecordingBackupProgress" :> Says({})
  @@ "startRecordingBackup"       :> Says({"channel", "date"})
CloudScheduleHandlers ==
     "getPlaybackCapabilities"    :> Says({})
  @@ "startPlayback"              :> Says({"channel", "streamType", "preferProtocol"})
  @@ "X_NightOwl_getChannelContinuousScheduleRecordingSwitch" :>
       Needs({"channel"}, Gets("scheduleSwitch", Ch(0)))
  @@ "X_NightOwl_setChannelContinuousScheduleRecordingSwitch" :>
       Needs({"channel"}, Puts("scheduleSwitch", Ch(0), {"value"}, {}))
  @@ "X_NightOwl_getChannelRecordingTriggers" :>
       Needs({"channel"}, Gets("recordingTriggers", Ch(0)))
  @@ "X_NightOwl_setChannelRecordingTriggers" :>
       Needs({"channel"}, Puts("recordingTriggers", Ch(0), {"triggers"}, {}))
  @@ "X_NightOwl_setChannelContinuousRecordingSchedule" :>
       Needs({"channel"}, Puts("continuousSchedule", Ch(0), {"rules"}, {}))
CloudQueryHandlers ==
     "X_NightOwl_queryContinuousCalendar" :> Says({"resolution", "year", "channels"})
  @@ "X_NightOwl_queryRecordingInterval"  :> Says({"year", "month", "day", "channels"})

-----------------------------------------------------------------------------
(* cap_doorbell.c *)

AudioAlertHandlers ==
     "getSpeakerCapabilities" :> Says({})
  @@ "X_NightOwl_getChannelAudioAlert" :> Gets("audioAlert", Ch(0))
  @@ "X_NightOwl_setChannelAudioAlert" :> Puts("audioAlert", Ch(0), {"soundVolume", "source"}, {})
  @@ "X_NightOwl_getChannelAudioAlertSwitch" :> Gets("audioAlertSwitch", Ch(0))
  @@ "X_NightOwl_setChannelAudioAlertSwitch" :> Puts("audioAlertSwitch", Ch(0), {"value"}, {})
DoorbellHandlers ==
     "X_NightOwl_getChannelAudioAlertDetectSwitch" :> Gets("audioAlertDetectSwitch", Ch(0))
  @@ "X_NightOwl_setChannelAudioAlertDetectSwitch" :> Puts("audioAlertDetectSwitch", Ch(0), {"value"}, {})
  @@ "X_NightOwl_getDoorbellDuration" :> Gets("doorbellDuration", Ch(0))
  @@ "X_NightOwl_setDoorbellDuration" :> Puts("doorbellDuration", Ch(0), {"value"}, {})
  @@ "X_NightOwl_getDoorbellSwitch" :> Gets("doorbellSwitch", Ch(0))
  @@ "X_NightOwl_setDoorbellSwitch" :> Puts("doorbellSwitch", Ch(0), {"value"}, {})
  @@ "X_NightOwl_getDoorbellType" :> Gets("doorbellType", Ch(0))
  @@ "X_NightOwl_setDoorbellType" :> Puts("doorbellType", Ch(0), {"value"}, {})

-----------------------------------------------------------------------------
(* cap_floodlight.c *)

FloodlightSwitchHandlers ==
     "getChannelFloodLightSwitch"       :> Gets("floodlightSwitch", Ch(0))
  @@ "setChannelFloodLightSwitch"       :> Puts("floodlightSwitch", Ch(0), {"value"}, {})
  @@ "getChannelFloodLightDetectSwitch" :> Gets("floodlightDetectSwitch", Ch(0))
  @@ "setChannelFloodLightDetectSwitch" :> Puts("floodlightDetectSwitch", Ch(0), {"value"}, {})
  @@ "getChannelFloodLightPirSwitch"    :> Gets("floodlightPirSwitch", Ch(0))
  @@ "setChannelFloodLightPirSwitch"    :> Puts("floodlightPirSwitch", Ch(0), {"value"}, {})
  @@ "getChannelFloodLightDuration"     :> Gets("floodlightDuration", Ch(0))
  @@ "setChannelFloodLightDuration"     :> Puts("floodlightDuration", Ch(0), {"value"}, {})
FloodlightScheduleHandlers ==
     "getChannelFloodLightSchedule" :> Gets("floodlightSchedule", Ch(0))
  @@ "setChannelFloodLightSchedule" :>
       OneOf({"switch", "rules"}, Puts("floodlightSchedule", Ch(0), {}, {"switch", "rules"}))
  @@ "getChannelIndicatorLightSwitch" :> Gets("indicatorLight", Ch(0))
  @@ "setChannelIndicatorLightSwitch" :> Puts("indicatorLight", Ch(0), {"value"}, {})
  @@ "getFloodLightDistance"        :> Gets("floodlightDistance", Ch(0))
  @@ "setFloodLightDistance"        :> Puts("floodlightDistance", Ch(0), {"value"}, {})
FloodlightModeHandlers ==
     "getFloodLightIntensity"       :> Gets("floodlightIntensity", Ch(0))
  @@ "setFloodLightIntensity"       :> Puts("floodlightIntensity", Ch(0), {"value"}, {})
  @@ "getFloodLightNightVisionMode" :> Gets("nightVisionMode", Ch(0))
  @@ "setFloodLightNightVisionMode" :> Puts("nightVisionMode", Ch(0), {"mode"}, {})
  @@ "X_NightOwl_getChannelAutoLightTrigger" :> Gets("autoLight", Ch(0))
  @@ "X_NightOwl_setChannelAutoLightTrigger" :> Puts("autoLight", Ch(0), {"trigger"}, {"duration"})
ChannelLightHandlers ==
     "X_NightOwl_getChannelLightDetectionSwitch" :> Gets("lightDetection", Ch(0))
  @@ "X_NightOwl_setChannelLightDetectionSwitch" :> Puts("lightDetection", Ch(0), {"value"}, {})
  @@ "X_NightOwl_getChannelLightDuration" :> Gets("lightDuration", Ch(0))
  @@ "X_NightOwl_setChannelLightDuration" :> Puts("lightDuration", Ch(0), {"value"}, {})
  @@ "X_NightOwl_getChannelLightMode" :> Gets("lightMode", Ch(0))
  @@ "X_NightOwl_setChannelLightMode" :> Puts("lightMode", Ch(0), {"value"}, {})
  @@ "X_NightOwl_getChannelLightSwitch" :> Gets("lightSwitch", Ch(0))
  @@ "X_NightOwl_setChannelLightSwitch" :> Puts("lightSwitch", Ch(0), {"value"}, {})
LightScheduleHandlers ==
     "X_NightOwl_getChannelLightSchedule" :> Gets("lightSchedule", Ch(0))
  @@ "X_NightOwl_setChannelLightSchedule" :>   \* the switch is asked for and not kept
       OneOf({"switch", "rules"}, Puts("lightSchedule", Ch(0), {}, {"rules"}))

-----------------------------------------------------------------------------
(* cap_gui_account.c, cap_gui_lan.c *)

LoginHandlers ==
     "GUI_login"          :> Needs({"password"}, Puts("login", Dev, {"userType", "username"}, {}))
  @@ "GUI_LoginPage"      :> Says({"Area", "Action"})
  @@ "GUI_logout"         :> Clears("login", Dev, {"username"})
  @@ "GUI_getLoginStatus" :> Gets("login", Dev)
UserHandlers ==
     "GUI_createUser"     :> Says({"username", "password", "userType", "userLevel"})
  @@ "GUI_deleteUser"     :> Says({"username"})
  @@ "GUI_setUser"        :> Says({"username"})
  @@ "GUI_getUsers"       :> Says({})
  @@ "GUI_setPassword"    :> Says({"userType", "username", "password"})
  @@ "GUI_forgetPassword" :> Says({"userType", "username"})
  @@ "GUI_getUserGroupPermissions" :> Says({})

LanHandlers ==
     "GUI_GetAddedLanDevices" :> Says({})
  @@ "GUI_LanSearch"          :> Says({"protocol"})
  @@ "GUI_getLanDevice"       :> Says({"ip"})
  @@ "GUI_setLanDevice"       :> Says({"protocol", "ip", "port", "enhancedSecurity"})
  @@ "GUI_LanAddDevice"       :> Says({"protocol", "ip"})
  @@ "GUI_LanDelDevice"       :> Says({"channel"})
  @@ "GUI_getChannelMapping"  :> Gets("channelMapping", Dev)
  @@ "GUI_setChannelMapping"  :> Says({"ChannelMapping"})
LanFirmwareHandlers ==
     "GUI_getChannelMediaProfiles" :> OnvifChecked(Says({"channel"}))
  @@ "GUI_setChannelMediaProfiles" :> OnvifAfter({"channel"}, Says({"channel", "profiles"}))
  @@ "GUI_checkServerFirmware"     :> Says({})
  @@ "GUI_checkChannelServerFirmware" :> Says({"channel"})
  @@ "GUI_upgradeFirmware"         :> Says({"FileName"})
  @@ "GUI_upgradeChannelFirmware"  :> OnvifChecked(Says({"FileName", "channel"}))
  @@ "GUI_getAlarmStatus"          :> Says({})

-----------------------------------------------------------------------------
(* cap_network.c *)

WifiHandlers ==
     "getCurrentWifi"  :> Gets("wifi", Dev)
  @@ "setWifi"         :> Needs({"pwd"}, Puts("wifi", Dev, {"ssid"}, {}))
  @@ "getWiFiConfig"   :> Gets("wakeupWindow", Dev)
  @@ "setWiFiConfig"   :> Puts("wakeupWindow", Dev, {"wakeupWindowExtend"}, {})
  @@ "queryWifiList"   :> Says({})
  @@ "getWanInterface" :> Says({})
  @@ "X_NightOwl_getChannelWifiSignalStrength" :> Says({"channel"})
ChimeHandlers ==
     "getWirelessChimes"  :> Drives("chime", {"channel"})
  @@ "setWirelessChimes"  :> Drives("chime", {"channel", "channels"})
  @@ "ringWirelessChimes" :> Says({"channel", "channels"})
ChimePairHandlers ==
     "startAddWirelessChime"    :> Drives("chime", {"channel"})
  @@ "stopAddWirelessChime"     :> Drives("chime", {"channel"})
  @@ "startRemoveWirelessChime" :> Drives("chime", {"channel", "channels"})
AddCameraHandlers ==
     "getAddWirelessCamerasStatus" :> Drives("addCamera", {})
  @@ "startAddWirelessCameras"     :> Drives("addCamera", {})
  @@ "stopAddWirelessCameras"      :> Drives("addCamera", {})
  @@ "startRemoveWirelessCameras"  :> Says({"channels"})

-----------------------------------------------------------------------------
(* cap_misc.c *)

AccessHandlers ==
     "getAvPassword"    :> Gets("avPassword", Dev)
  @@ "setAvPassword"    :> Puts("avPassword", Dev, {"value"}, {})
  @@ "getIotcAuthKey"   :> Gets("iotcAuthKey", Dev)
  @@ "setIotcAuthKey"   :> Puts("iotcAuthKey", Dev, {"value"}, {})
  @@ "getCurrentClouds" :> Says({})
  @@ "X_NightOwl_getOwner" :> Gets("owner", Dev)
  @@ "X_NightOwl_setOwner" :> Puts("owner", Dev, {"owner_id", "username", "stoken"}, {})
CastHandlers ==
     "X_NightOwl_getChromecastSwitch" :> Gets("chromecast", Dev)
  @@ "X_NightOwl_setChromecastSwitch" :> Puts("chromecast", Dev, {"value"}, {})
  @@ "X_NightOwl_getChromecastInfo"   :> Says({})
  @@ "X_NightOwl_getTimeSyncSwitch"   :> Gets("timeSync", Dev)
  @@ "X_NightOwl_setTimeSyncSwitch"   :> Puts("timeSync", Dev, {"enable"}, {})
ChannelNameHandlers ==
     "X_NightOwl_getInputChannelName"  :> Gets("channelName", Near(0))
  @@ "X_NightOwl_setInputChannelName"  :> Needs({"channel"}, Puts("channelName", Near(0), {"name"}, {}))
  @@ "X_NightOwl_getInputChannelNames" :> Says({})
  @@ "getChannelsStatus"               :> Says({})
  @@ "X_NightOwl_getChannelStatus"     :> Says({"channel"})
  @@ "X_NightOwl_getChannelInfo"       :> Needs({"channel"}, Gets("channelName", Near(0)))
  @@ "X_NightOwl_getChannelBatteryStatus" :> Says({"channel"})
PowerHandlers ==
     "getPowerSupplyStats" :> Says({"channel"})
  @@ "setPowerSupplyStats" :> Says({"channel"})
  @@ "getProfile"          :> Says({})
  @@ "setCurrentStorage"   :> Puts("currentStorage", Dev, {"value"}, {})
  @@ "setSerialNumber"     :> Needs({"securityCode"}, Puts("serialNumber", Dev, {"serial"}, {}))
CameraHandlers ==
     "buildTunnel"         :> Says({"protocol"})
  @@ "sleepCamera"         :> Says({"channel"})
  @@ "sleepPacket"         :> Says({})
  @@ "X_NightOwl_wakeUpCamera" :> Says({"channel"})
  @@ "writeFirmware"       :> Says({})
  @@ "X_NightOwl_upgradeChannelFirmware"    :> OnvifChecked(Says({"channel", "url"}))
  @@ "X_NightOwl_checkChannelUpgradeStatus" :> Says({"channel"})
AttachHandlers ==
     "X_NightOwl_attachIPDevices" :> Puts("attached", Dev, {"devices"}, {})
  @@ "X_NightOwl_detachIPDevice"  :> Says({"device"})
  @@ "X_NightOwl_getAttachStatus" :> Says({})
  @@ "X_NightOwl_updateP2PCredential"     :> Says({})
  @@ "X_NightOwl_setUploadService"        :> Says({"url", "token"})
  @@ "X_NightOwl_resetToFactorySettings"  :> Says({})
  @@ "X_NightOwl_unlock"                  :> Says({})
  @@ "X_NightOwl_loginUser"               :> Says({"user", "BLEKey"})

-----------------------------------------------------------------------------
(* cap_misc_ext.c *)

ChannelStatsHandlers ==
     "getChannelStats"        :> Says({"channel"})
  @@ "getCableConnectStatus"  :> Says({})
  @@ "getChannelBindingMode"  :> Says({"channel"})
  @@ "getCloudStatusHistory"  :> Says({})
  @@ "getChannelRecordingContent" :> Needs({"channel"}, Gets("recordingContent", Ch(1)))
  @@ "setChannelRecordingContent" :> Needs({"channel"}, Puts("recordingContent", Ch(1), {}, {"noAudio"}))
SensorHandlers ==
     "getChannelSensorConfig"  :> OnvifChecked(Says({"channel"}))
  @@ "getChannelSensorLinkage" :> Needs({"channel"}, Gets("sensorLinkage", Ch(1)))
  @@ "setChannelSensorLinkage" :> Needs({"channel"}, Puts("sensorLinkage", Ch(1), {"sensors"}, {}))
CloudStatsHandlers ==
     "getChannelCloudRecordStats" :> Says({"channel"})
  @@ "getChannelCloudRecordStatsSwitch" :> Needs({"channel"}, Gets("cloudStatsSwitch", Ch(1)))
  @@ "setChannelCloudRecordStatsSwitch" :>
       Needs({"channel"}, Puts("cloudStatsSwitch", Ch(1), {"value"}, {}))
  @@ "getChannelLoading" :> Says({"channel"})
SecurityHandlers ==   \* an empty random is refused like a missing one
     "getEnhancedSecurity"   :> Needs({"channel"}, Gets("enhancedSecurity", Ch(1)))
  @@ "setEnhancedSecurity"   :> Needs({"channel"}, Puts("enhancedSecurity", Ch(1), {"random"}, {}))
  @@ "ClearEnhancedSecurity" :>
       Needs({"channel", "random", "forceToken"}, Clears("enhancedSecurity", Ch(1), {"random"}))
  @@ "FactoryTest_AnswerPopupWin" :> Says({"button"})
OsdHandlers ==        \* the list of overlays is replaced by the one that is set
     "X_NightOwl_getOSD" :> OnvifChecked(Needs({"channel"}, Gets("osd", Ch(1))))
  @@ "X_NightOwl_setOSD" :>
       OnvifChecked(Needs({"channel"},
         Puts("osd", Ch(1), {"osdToken"}, {"enable", "positionType", "positionX", "positionY"})))
PictureHandlers ==
     "X_NightOwl_getChannelPrivacyZone" :> OnvifChecked(Needs({"channel"}, Gets("privacyZone", Ch(1))))
  @@ "X_NightOwl_setChannelPrivacyZone" :>
       OnvifChecked(Needs({"channel"}, Puts("privacyZone", Ch(1), {"privacyZonePoints"}, {})))
  @@ "X_NightOwl_getChannelZoomPan" :> Needs({"channel"}, Gets("zoomPan", Ch(1)))
  @@ "X_NightOwl_setChannelZoomPan" :>
       Needs({"channel", "enable"},
             Keeps("zoomPan", Ch(1), {"enable", "CenterPointX", "CenterPointY", "ZoomRatio"}))
  @@ "X_NightOwl_getDeviceActive" :> Needs({"channel"}, Gets("deviceActive", Ch(1)))
  @@ "X_NightOwl_setDeviceActive" :> Needs({"channel", "password"}, Once("deviceActive", Ch(1)))

-----------------------------------------------------------------------------
(* cap_gui_network.c *)

DdnsNtpHandlers ==
     "GUI_getDDNS" :> Gets("ddns", Dev)
  @@ "GUI_setDDNS" :> Puts("ddns", Dev, {"DDNSOpt"}, {})
  @@ "GUI_getNTP"  :> Gets("ntp", Dev)
  @@ "GUI_setNTP"  :> Needs({"NTPInfo"}, Keeps("ntp", Dev, {"Enable", "UpdatePeriod", "Port", "ServerName"}))
FtpPoeHandlers ==
     "GUI_getFTP"  :> Gets("ftp", Dev)
  @@ "GUI_setFTP"  :>
       Needs({"FtpInfo"}, Keeps("ftp", Dev, {"Enable", "Anonymous", "MaxFileLen", "Port", "Password",
                                            "RemoteDir", "Server", "UserName"}))
  @@ "GUI_getPoE"  :> Needs({"channel"}, Gets("poe", Port))
  @@ "GUI_setPoE"  :> Needs({"channel"}, Puts("poe", Port, {"Enable"}, {}))
PortHandlers ==
     "GUI_getUPnP"    :> Gets("upnp", Dev)
  @@ "GUI_setUPnP"    :> Puts("upnp", Dev, {"Enable"}, {})
  @@ "GUI_getNetPort" :> Gets("netPort", Dev)
  @@ "GUI_setNetPort" :>
       Needs({"NetPortInfo"}, Keeps("netPort", Dev, {"HttpPort", "HttpsPort", "TCPPort", "RtspPort"}))
EmailHandlers ==
     "GUI_getEmailAlert"  :> Gets("email", Dev)
  @@ "GUI_setEmailAlert"  :>
       Needs({"EmailAlertOpt"},
             Keeps("email", Dev, {"Enable", "SMTPPort", "UseSSL", "Interval", "Receiver", "Sender",
                                  "SMPTServer", "UserName", "Password", "Title"}))
  @@ "GUI_testEmailAlert" :> Says({"testEmailAlert"})
LinkHandlers ==
     "GUI_getLanInterface" :> Says({})
  @@ "GUI_getLocalLink"    :> Gets("localLink", Dev)
  @@ "GUI_setLocalLink"    :>
       Needs({"LocalLink"}, Keeps("localLink", Dev, {"networkType", "ipAddr", "subnetMask", "gateway",
                                                     "DNS1", "DNS2"}))
  @@ "GUI_getRemoteAccessState" :> Gets("remoteAccess", Dev)
  @@ "GUI_setRemoteAccessState" :> Puts("remoteAccess", Dev, {"enable"}, {})
  @@ "GUI_getUID"          :> Says({})

-----------------------------------------------------------------------------
(* cap_gui_playback.c *)

PlaybackHandlers ==
     "GUI_playbackControl"  :> Needs({"action"}, Keeps("playback", Dev, {"speed", "direction", "status"}))
  @@ "GUI_getPlaybackAudio" :> Gets("playbackAudio", Dev)
  @@ "GUI_setPlaybackAudio" :> Puts("playbackAudio", Dev, {"enable"}, {})
PlaybackModeHandlers ==
     "GUI_getPlaybackMode"  :> Gets("playbackMode", Dev)
  @@ "GUI_setPlaybackMode"  :> Puts("playbackMode", Dev, {"displayMode", "channels"}, {})
  @@ "GUI_getFileList"      :> Says({})
  @@ "GUI_ChannelBackupFiles"     :> Says({"channel", "list"})
  @@ "GUI_GetChannelBackupStatus" :> Says({})
  @@ "GUI_StopChannelBackup"      :> Says({})
PackHandlers ==       \* one schedule for all channels and sensors
     "GUI_getChannelEventRecordingSchedule" :> Needs({"channel", "sensor"}, Gets("eventSchedule", Dev))
  @@ "GUI_setChannelEventRecordingSchedule" :>
       Needs({"channel", "sensor"}, Puts("eventSchedule", Dev, {"rules"}, {}))
  @@ "GUI_getChannelPackDuration" :> Needs({"channel"}, Gets("packDuration", Near(0)))
  @@ "GUI_setChannelPackDuration" :> Needs({"channel"}, Puts("packDuration", Near(0), {"value"}, {}))
  @@ "GUI_longPolling"      :> Drives("longpoll", {})
  @@ "GUI_longPolling_Test" :> Says({"sub"})

-----------------------------------------------------------------------------
(* cap_gui_system.c *)

DisplayHandlers ==
     "GUI_getDeviceDisplayMode" :> Gets("displayMode", Dev)
  @@ "GUI_setDeviceDisplayMode" :> Puts("displayMode", Dev, {"displayMode", "displayPage"}, {})
  @@ "GUI_getDeviceDisplayExt"  :> Gets("displayExt", Dev)
  @@ "GUI_setDeviceDisplayExt"  :> Puts("displayExt", Dev, {"channels"}, {})
  @@ "GUI_getSysDisplay"        :> Gets("sysDisplay", Dev)
  @@ "GUI_setSysDisplay"        :> Keeps("sysDisplay", Dev, {"resolution", "displayOpacity"})
SoundHandlers ==
     "GUI_getAudioCfg"    :> Needs({"channel"}, Gets("audioCfg", One))
  @@ "GUI_setAudioCfg"    :> Needs({"channel"}, Keeps("audioCfg", One, {"speakerVolume"}))
  @@ "GUI_getAudioSwitch" :> Needs({"channel"}, Gets("audioSwitch", One))
  @@ "GUI_setAudioSwitch" :> Needs({"channel"}, Puts("audioSwitch", One, {"enable"}, {}))
  @@ "GUI_getHddConfig"   :> Gets("hddConfig", Dev)
  @@ "GUI_setHddConfig"   :> Puts("hddConfig", Dev, {"overWrite"}, {})
MaintenanceHandlers ==
     "GUI_getIrLight"           :> Needs({"channel"}, Gets("irLight", One))
  @@ "GUI_setIrLight"           :> Needs({"channel"}, Puts("irLight", One, {"State"}, {}))
  @@ "GUI_getAutoRebootSetting" :> Gets("autoReboot", Dev)
  @@ "GUI_setAutoRebootSetting" :> Puts("autoReboot", Dev, {"Enable", "WhichDay", "WhichTime"}, {})
  @@ "GUI_getSystemLog"         :> Says({})
  @@ "GUI_shutDown"             :> Says({})
  @@ "GUI_restoreFeatureSetting" :> Says({"Restore"})
  @@ "GUI_getFeatureList"       :> Says({})
AbnormalityHandlers ==
     "GUI_getSurveillanceAbnormality" :> Gets("surveillance", Dev)
  @@ "GUI_setSurveillanceAbnormality" :>
       Puts("surveillance", Dev, {"nodisk", "diskerr", "disknospace", "netdiscon", "ipconflict"}, {})

-----------------------------------------------------------------------------
(* cap_push.c *)

CooldownHandlers ==      \* the switches of photos and the snooze store nothing
     "getCooldownTime"    :> Needs({"channel"}, Gets("cooldown", NearOne))
  @@ "setCooldownTime"    :> Needs({"channel"}, Puts("cooldown", NearOne, {"value"}, {}))
  @@ "getPushPhotoSwitch" :> Says({"channels"})
  @@ "setPushPhotoSwitch" :> Says({"channels"})
  @@ "getSnooze"          :> Says({"channels"})
  @@ "setSnooze"          :> Says({"channels"})
QuietHandlers ==
     "X_NightOwl_getChannelPushNotificationDoNotDisturb" :>
       Needs({"channel"}, Gets("doNotDisturb", NearOne))
  @@ "X_NightOwl_setChannelPushNotificationDoNotDisturb" :>
       Needs({"channel", "enable"}, Keeps("doNotDisturb", NearOne, {"enable", "startTime", "endTime"}))
  @@ "X_NightOwl_getChannelPushNotificationSwitch" :> Needs({"channel"}, Gets("pushSwitch", NearOne))
  @@ "X_NightOwl_setChannelPushNotificationSwitch" :>
       Needs({"channel"}, Puts("pushSwitch", NearOne, {"value"}, {}))
PushHandlers ==
     "X_NightOwl_getChannelPushNotificationTriggers" :>
       Needs({"channel"}, Gets("pushTriggers", NearOne))
  @@ "X_NightOwl_setChannelPushNotificationTriggers" :>
       Needs({"channel"}, Puts("pushTriggers", NearOne, {"triggers"}, {}))
  @@ "X_NightOwl_getChannelsPushNotificationSwitch"  :> Says({})
  @@ "X_NightOwl_setChannelsPushNotificationSwitch"  :> Says({})
  @@ "X_NightOwl_getPanicSwitch" :> Gets("panicSwitch", Dev)
  @@ "X_NightOwl_setPanicSwitch" :> Puts("panicSwitch", Dev, {"value"}, {})
  @@ "notify_APPSetupStatus"     :> Says({"status"})
  @@ "notifyLoginSuccess"        :> Says({})
  @@ "notifySessionCount"        :> Says({"value"})

-----------------------------------------------------------------------------
(* cap_system.c *)

ClockHandlers ==
     "reboot"       :> Tells("system", {})
  @@ "resetDevice"  :> Tells("system", {})
  @@ "getName"      :> Gets("deviceName", Dev)
  @@ "setName"      :> Puts("deviceName", Dev, {"name"}, {})
  @@ "get_datetime" :> Gets("clock", Dev)
  @@ "set_datetime" :> Puts("clock", Dev, {"date", "time"}, {})
SystemHandlers ==
     "get_language" :> Gets("language", Dev)
  @@ "set_language" :> Puts("language", Dev, {"language"}, {})
  @@ "X_NightOwl_getTimezone" :> Gets("timezone", Dev)
  @@ "X_NightOwl_setTimezone" :> Needs({"timezone"}, Keeps("timezone", Dev, {"timezone", "tz_dst"}))
  @@ "getDeviceDisplayMode"   :> Gets("display", Dev)
  @@ "setDeviceDisplayMode"   :>
       Needs({"displayMode"}, Keeps("display", Dev, {"displayMode", "displayPage", "autoChangeCamera",
                                                     "autoSelectEventCamera", "firstView"}))
  @@ "getLogs" :> Says({})

-----------------------------------------------------------------------------
(* cap_video.c; what the encoder says of a resolution is ignored *)

\* bug: the setters do not count channels from 1
PictureValuesShifted ==
     "X_NightOwl_getVideoBrightness"  :> Gets("brightness", One)
  @@ "X_NightOwl_setVideoBrightness"  :> Puts("brightness", Ch(1), {"value"}, {})

PictureValueHandlers ==
     "X_NightOwl_getVideoBrightness"  :> Gets("brightness", One)
  @@ "X_NightOwl_setVideoBrightness"  :> Puts("brightness", One, {"value"}, {})
  @@ "X_NightOwl_getVideoContrast"    :> Gets("contrast", One)
  @@ "X_NightOwl_setVideoContrast"    :> Puts("contrast", One, {"value"}, {})
  @@ "X_NightOwl_getVideoOrientation" :> Gets("orientation", One)
  @@ "X_NightOwl_setVideoOrientation" :> Puts("orientation", One, {"value"}, {})
ResolutionHandlers ==
     "X_NightOwl_getChannelCurrentVideoResolution" :> Gets("resolution", One)
  @@ "X_NightOwl_setChannelCurrentVideoResolution" :>
       OneOf({"mainStream", "subStream"}, Keeps("resolution", One, {"mainStream", "subStream"}))
  @@ "X_NightOwl_getChannelSupportedVideoResolutions" :> Says({})
PanoramaHandlers ==
     "X_NightOwl_getChannelFisheyeControl"   :> Gets("fisheye", Dev)
  @@ "X_NightOwl_setChannelFisheyeControl"   :> Puts("fisheye", Dev, {"mode"}, {})
  @@ "X_NightOwl_getChannelTimeLapseSwitch"  :> Gets("timeLapse", One)
  @@ "X_NightOwl_setChannelTimeLapseSwitch"  :> Puts("timeLapse", One, {"value"}, {})
  @@ "queryPanoramicStatus" :> Says({})
  @@ "takePanoramicView"    :> Says({"channel"})
  @@ "snapshotChannel"      :> Says({"channel"})
=============================================================================
