------------------------------ MODULE Versions ------------------------------
(***************************************************************************)
(* Version words and feature flags (Version.h) and their readings by the   *)
(* host's script (ota_updater.py).  A version is <<major, minor, patch,    *)
(* build>>; the code compares the 32-bit words made of it.                 *)
(***************************************************************************)
EXTENDS Naturals, Sequences

MAKE_VERSION(v) == v[1] * 2 ^ 24 + v[2] * 2 ^ 16 + v[3] * 2 ^ 8 + v[4]

\* VERSION_MAJOR, VERSION_MINOR, VERSION_PATCH and VERSION_BUILD.
VersionParts(word) == [i \in 1 .. 4 |-> (word \div 2 ^ (8 * (4 - i))) % 256]

\* The numbers a formatted version shows.
format_version(word) ==
  LET v == VersionParts(word) IN IF v[4] > 0 THEN v ELSE SubSeq(v, 1, 3)

HostFormatVersion(word) ==
  LET build == word % 256
      shown == <<(word \div 2 ^ 24) % 256, (word \div 2 ^ 16) % 256, (word \div 2 ^ 8) % 256>>
  IN  IF build # 0 THEN Append(shown, build) ELSE shown

\* The position of each FeatureFlag's bit.
FeatureBit ==
  [FEAT_ETHERNET_LAN8742 |-> 0, FEAT_TELEMETRY_STREAM |-> 1, FEAT_TEMP_SENSOR_DTS |-> 2,
   FEAT_OTA_RAM_STAGING |-> 3, FEAT_OTA_DUAL_BANK |-> 4, FEAT_COMPRESSION_LZ4 |-> 5,
   FEAT_SECURE_BOOT |-> 6, FEAT_DYNAMIC_RATE |-> 7, FEAT_UART_CLI |-> 8, FEAT_TIME_SYNC |-> 9]

Flags == DOMAIN FeatureBit

get_feature_name ==
  [FEAT_ETHERNET_LAN8742 |-> "ethernet", FEAT_TELEMETRY_STREAM |-> "telemetry",
   FEAT_TEMP_SENSOR_DTS |-> "dts", FEAT_OTA_RAM_STAGING |-> "ota",
   FEAT_OTA_DUAL_BANK |-> "dualbank", FEAT_COMPRESSION_LZ4 |-> "lz4",
   FEAT_SECURE_BOOT |-> "secboot", FEAT_DYNAMIC_RATE |-> "dynrate", FEAT_UART_CLI |-> "cli",
   FEAT_TIME_SYNC |-> "timesync"]

\* The names a command may use; any other, or none, is FeatureFlag::NONE.
FeatureNames ==
  [ota |-> "FEAT_OTA_RAM_STAGING", telemetry |-> "FEAT_TELEMETRY_STREAM",
   dts |-> "FEAT_TEMP_SENSOR_DTS", ethernet |-> "FEAT_ETHERNET_LAN8742",
   dynrate |-> "FEAT_DYNAMIC_RATE", cli |-> "FEAT_UART_CLI",
   timesync |-> "FEAT_TIME_SYNC", time |-> "FEAT_TIME_SYNC"]

parse_feature_name(name) == IF name \in DOMAIN FeatureNames THEN FeatureNames[name] ELSE "NONE"

\* FEATURE_NAMES, by the flag each name stands for.
HostFeatureBit ==
  [FEAT_ETHERNET_LAN8742 |-> 0, FEAT_TELEMETRY_STREAM |-> 1, FEAT_TEMP_SENSOR_DTS |-> 2,
   FEAT_OTA_RAM_STAGING |-> 3, FEAT_OTA_DUAL_BANK |-> 4, FEAT_COMPRESSION_LZ4 |-> 5,
   FEAT_SECURE_BOOT |-> 6, FEAT_DYNAMIC_RATE |-> 7, FEAT_UART_CLI |-> 8]
-----------------------------------------------------------------------------
SampleVersions == {0, 1, 127} \X {0, 1, 255} \X {0, 1, 255} \X {0, 1, 255}

Older(v, w) == \E i \in 1 .. 4 : v[i] < w[i] /\ \A j \in 1 .. i - 1 : v[j] = w[j]

\* The bootloader and the OTA service compare version words as integers: that
\* is the order of versions, and both ends show the same numbers for a word.
VersionsAreOrdered ==
  /\ \A v, w \in SampleVersions : MAKE_VERSION(v) < MAKE_VERSION(w) <=> Older(v, w)
  /\ \A v \in SampleVersions :
       LET word == MAKE_VERSION(v)
       IN  VersionParts(word) = v /\ format_version(word) = HostFormatVersion(word)

\* One bit per feature, none beyond the 16 a heartbeat carries, the same on the
\* host; a name a command accepts is the name of the flag it sets (timesync has
\* a second one), and only features this firmware lacks have no such name.
FeaturesAreNamed ==
  /\ \A f, g \in Flags : FeatureBit[f] < 16 /\ (FeatureBit[f] = FeatureBit[g] => f = g)
  /\ \A f \in DOMAIN HostFeatureBit : HostFeatureBit[f] = FeatureBit[f]
  /\ \A name \in DOMAIN FeatureNames \ {"time"} :
       get_feature_name[parse_feature_name(name)] = name
  /\ {f \in Flags : parse_feature_name(get_feature_name[f]) = "NONE"}
       = {"FEAT_OTA_DUAL_BANK", "FEAT_COMPRESSION_LZ4", "FEAT_SECURE_BOOT"}
=============================================================================
