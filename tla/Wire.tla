-------------------------------- MODULE Wire --------------------------------
(***************************************************************************)
(* The packets between a node (ProtocolTypes.h, PacketHelper.h and the     *)
(* handlers that read and write them) and the hosts' scripts, which spell  *)
(* the same layouts as struct formats.  A layout is the sequence of its    *)
(* fields, each a name and a width in bytes, packed without gaps; both     *)
(* ends are little-endian, so agreeing on the place of every byte of every *)
(* field is agreeing on its value.  Host formats name each value after the *)
(* field the script takes it for.  Two structures the script never gets    *)
(* hold of: it looks for the image header elsewhere, and fails to unpack a *)
(* PONG.                                                                   *)
(***************************************************************************)
EXTENDS Peers, Versions, SequencesExt

Offset(layout, i) ==
  LET upTo[j \in 0 .. Len(layout)] == IF j = 0 THEN 0 ELSE upTo[j - 1] + layout[j][2]
  IN  upTo[i - 1]

SizeOf(layout) == Offset(layout, Len(layout) + 1)

\* The bytes of a layout, each known by its field and its place in it.
BytesOf(layout) ==
  [n \in 1 .. SizeOf(layout) |->
     LET i == CHOOSE j \in DOMAIN layout :
                Offset(layout, j) < n /\ n <= Offset(layout, j + 1)
     IN  <<layout[i][1], n - Offset(layout, i)>>]
-----------------------------------------------------------------------------
(* The node's structures. *)

PE_Header ==
  << <<"magic", 2>>, <<"version", 1>>, <<"flags", 1>>, <<"node_id", 2>>, <<"msg_type", 2>>,
     <<"seq_num", 4>>, <<"payload_len", 2>>, <<"crc16", 2>> >>

PayloadHeartbeat ==
  << <<"uptime_ms", 4>>, <<"fw_version", 4>>, <<"node_state", 1>>, <<"active_streams", 1>>,
     <<"vdd_mv", 2>>, <<"core_temp_c_x10", 2>>, <<"feature_flags_low", 2>> >>

PayloadDiscoveryPing == << <<"challenge_id", 4>>, <<"target_node_id", 2>>, <<"reserved", 2>> >>

PayloadDiscoveryPong ==
  << <<"challenge_id", 4>>, <<"node_id", 2>>, <<"node_state", 2>>, <<"ip_addr", 4>>,
     <<"mac_addr", 6>>, <<"board_id", 2>>, <<"fw_version", 4>>, <<"uptime_ms", 4>>,
     <<"hw_uid", 12>>, <<"bootloader_version", 4>>, <<"feature_flags", 4>> >>

PayloadTimeSync ==
  << <<"t1_host_tx_us", 8>>, <<"t2_node_rx_us", 8>>, <<"t3_node_tx_us", 8>>,
     <<"t4_host_rx_us", 8>> >>

PayloadTimeBeacon ==
  << <<"master_utc_us", 8>>, <<"beacon_seq", 4>>, <<"epoch_id", 1>>, <<"stratum", 1>>,
     <<"flags", 2>> >>

PayloadCliExec == << <<"cmd_len", 2>>, <<"flags", 2>> >>

PayloadCliExecResp == << <<"status_code", 2>>, <<"resp_len", 2>> >>

PayloadCommand == << <<"cmd_id", 2>>, <<"param1", 2>>, <<"param2", 4>> >>

PayloadAckNack ==
  << <<"cmd_id", 2>>, <<"status_code", 2>>, <<"result_data", 4>>, <<"reserved", 4>> >>

PayloadOtaBegin ==
  << <<"image_size", 4>>, <<"image_crc32", 4>>, <<"target_version", 4>>, <<"chunk_size", 2>>,
     <<"flags", 2>> >>

PayloadOtaBeginResp ==
  << <<"status_code", 4>>, <<"chunk_size_ack", 2>>, <<"max_image_size_kb", 2>> >>

PayloadOtaData == << <<"offset", 4>>, <<"chunk_len", 2>>, <<"chunk_crc16", 2>> >>

PayloadOtaEnd == << <<"image_crc32", 4>>, <<"auto_reboot", 1>>, <<"reserved", 3>> >>

PayloadOtaStatusResp ==
  << <<"bytes_written", 4>>, <<"total_bytes", 4>>, <<"state", 2>>, <<"error_code", 2>> >>

OtaControlBlock ==
  << <<"magic", 4>>, <<"state", 4>>, <<"image_size", 4>>, <<"image_crc32", 4>>,
     <<"target_version", 4>>, <<"staging_address", 4>>, <<"active_address", 4>>,
     <<"struct_crc32", 4>> >>

StreamPayloadHeader ==
  << <<"timestamp_us", 8>>, <<"stream_tag", 4>>, <<"sample_rate_hz", 2>>,
     <<"sample_count", 2>>, <<"channel_count", 2>>, <<"sample_type", 2>> >>

StreamDescriptor ==
  << <<"stream_tag", 4>>, <<"name", 16>>, <<"sample_rate_hz", 2>>, <<"batch_count", 2>>,
     <<"channel_count", 2>>, <<"sample_type", 2>>, <<"is_enabled", 1>>, <<"reserved", 3>> >>

PayloadGetStreamsResp == << <<"stream_count", 2>>, <<"reserved", 2>> >>

AppImageHeader ==
  << <<"magic", 4>>, <<"header_version", 2>>, <<"board_id", 2>>, <<"app_version", 4>>,
     <<"min_bootloader_version", 4>>, <<"feature_flags", 4>>, <<"image_size", 4>>,
     <<"image_crc32", 4>>, <<"build_timestamp", 4>>, <<"git_commit", 4>>, <<"reserved", 24>>,
     <<"header_crc32", 4>> >>

\* Where an image has its header.
APP_HEADER_FLASH_OFFSET == \h400

BootInfo ==
  << <<"magic", 4>>, <<"bootloader_version", 4>>, <<"boot_reason", 4>>, <<"active_slot", 4>>,
     <<"boot_count", 4>>, <<"reserved", 8>>, <<"struct_crc32", 4>> >>

MessageType ==
  [HEARTBEAT |-> \h0001, DISCOVERY_PING |-> \h0002, DISCOVERY_PONG |-> \h0003,
   TIME_SYNC_REQ |-> \h0010, TIME_SYNC_RESP |-> \h0011, TIME_SYNC_BEACON |-> \h0012,
   CMD_GET_NODE_INFO |-> \h0100, CMD_GET_NODE_INFO_RESP |-> \h0101, CMD_SET_CONFIG |-> \h0102,
   CMD_GET_CONFIG |-> \h0103, CMD_GET_CONFIG_RESP |-> \h0104, CMD_START_STREAM |-> \h0110,
   CMD_STOP_STREAM |-> \h0111, CMD_GET_STREAMS |-> \h0120, CMD_GET_STREAMS_RESP |-> \h0121,
   CMD_OTA_BEGIN |-> \h0130, CMD_OTA_BEGIN_RESP |-> \h0131, CMD_OTA_DATA |-> \h0132,
   CMD_OTA_DATA_RESP |-> \h0133, CMD_OTA_END |-> \h0134, CMD_OTA_END_RESP |-> \h0135,
   CMD_OTA_GET_STATUS |-> \h0136, CMD_OTA_GET_STATUS_RESP |-> \h0137, CMD_OTA_ABORT |-> \h0138,
   CMD_CLI_EXEC |-> \h0150, CMD_CLI_EXEC_RESP |-> \h0151, CMD_REBOOT |-> \h01F0,
   CMD_ACK |-> \h01FE, CMD_NACK |-> \h01FF, STREAM_SENSOR_BATCH |-> \h0200,
   STREAM_STATUS_TELEMETRY |-> \h0201, STREAM_EVENT_ALERT |-> \h0202]

Ports == [PORT_DISCOVERY |-> 50000, PORT_STREAM |-> 50001, PORT_COMMAND |-> 50002]

PacketFlags ==
  [FLAG_ACK_REQUESTED |-> 1, FLAG_IS_RESPONSE |-> 2, FLAG_ERROR |-> 4, FLAG_HAS_TIMESTAMP |-> 8]

StatusCode ==
  [OK |-> 0, ERR_INVALID_MAGIC |-> 1, ERR_INVALID_VERSION |-> 2, ERR_INVALID_CRC |-> 3,
   ERR_UNKNOWN_CMD |-> 4, ERR_INVALID_PAYLOAD |-> 5, ERR_BUSY |-> 6, ERR_FLASH_WRITE |-> 7,
   ERR_FLASH_ERASE |-> 8, ERR_IMAGE_TOO_LARGE |-> 9, ERR_OTA_DISABLED |-> 10,
   ERR_INCOMPATIBLE_BOARD |-> 11, ERR_INCOMPATIBLE_BOOTLOADER |-> 12,
   ERR_VERSION_DOWNGRADE |-> 13, ERR_INTERNAL |-> 255]
-----------------------------------------------------------------------------
(* What the node does with headers and lengths. *)

PE_MAGIC == \h5045
PE_PROTOCOL_VERSION == 1

\* compute_crc is false in every call: crc16 is always 0.
PopulateHeader(type, payload_len) ==
  [magic |-> PE_MAGIC, version |-> PE_PROTOCOL_VERSION, msg_type |-> MessageType[type],
   payload_len |-> payload_len, crc16 |-> 0]

\* Mutant: the payload's length taken on trust.
TrustsLength(hdr, received_bytes) ==
  IF received_bytes < SizeOf(PE_Header) THEN "ERR_INVALID_PAYLOAD"
  ELSE IF hdr.magic # PE_MAGIC THEN "ERR_INVALID_MAGIC"
  ELSE IF hdr.version # PE_PROTOCOL_VERSION THEN "ERR_INVALID_VERSION"
  ELSE "OK"

ValidateHeader(hdr, received_bytes) ==
  IF received_bytes < SizeOf(PE_Header) THEN "ERR_INVALID_PAYLOAD"
  ELSE IF hdr.magic # PE_MAGIC THEN "ERR_INVALID_MAGIC"
  ELSE IF hdr.version # PE_PROTOCOL_VERSION THEN "ERR_INVALID_VERSION"
  ELSE IF received_bytes < SizeOf(PE_Header) + hdr.payload_len THEN "ERR_INVALID_PAYLOAD"
  ELSE "OK"

\* Called by nobody: with PopulateHeader's zero it would accept everything.
ValidatePayloadCrc(hdr, crc) == hdr.crc16 = 0 \/ hdr.payload_len = 0 \/ hdr.crc16 = crc

PayloadBuffer == 2048

\* NetconnStreamReader: the bytes left of cur_buf_, and the buffers that
\* netconn_recv has still to give before it fails.
StreamReader(buffers) == [left |-> <<>>, coming |-> buffers]

\* readExact: a turn of its loop takes another buffer if the last one is used
\* up, and what it can of it.
readExact(reader, needed) ==
  LET turn(r) ==
        IF Len(r.dest) = needed \/ (r.left = <<>> /\ r.coming = <<>>) THEN r
        ELSE LET fresh == r.left = <<>>
                 available == IF fresh THEN Head(r.coming) ELSE r.left
                 to_copy == IF needed - Len(r.dest) < Len(available) THEN needed - Len(r.dest)
                            ELSE Len(available)
             IN  [dest |-> r.dest \o SubSeq(available, 1, to_copy),
                  left |-> SubSeq(available, to_copy + 1, Len(available)),
                  coming |-> IF fresh THEN Tail(r.coming) ELSE r.coming]
      turns[n \in 0 .. needed] ==
        IF n = 0 THEN [dest |-> <<>>, left |-> reader.left, coming |-> reader.coming]
        ELSE turn(turns[n - 1])
      last == turns[needed]
  IN  [ok |-> Len(last.dest) = needed, dest |-> last.dest,
       reader |-> [left |-> last.left, coming |-> last.coming]]

\* The payload a request's handler reads in its own layout, and without which
\* it answers ERR_INVALID_PAYLOAD; the others have defaults for a shorter one.
HandlerReads ==
  [CMD_OTA_BEGIN |-> PayloadOtaBegin, CMD_OTA_DATA |-> PayloadOtaData,
   CMD_OTA_END |-> PayloadOtaEnd, CMD_START_STREAM |-> PayloadCommand,
   CMD_STOP_STREAM |-> PayloadCommand, CMD_CLI_EXEC |-> PayloadCliExec,
   CMD_GET_NODE_INFO |-> <<>>, CMD_GET_STREAMS |-> <<>>, DISCOVERY_PING |-> PayloadDiscoveryPing]

\* The length of text CMD_CLI_EXEC hands to the CLI.
CliText(payload_len, cmd_len) ==
  LET room == 128 - 1
      text == IF payload_len >= SizeOf(PayloadCliExec) THEN cmd_len ELSE payload_len
  IN  IF text > room THEN room ELSE text

\* The answer to a request that succeeds.
AnswerTo ==
  [CMD_OTA_BEGIN |-> "CMD_OTA_BEGIN_RESP", CMD_OTA_DATA |-> "CMD_ACK", CMD_OTA_END |-> "CMD_ACK",
   CMD_START_STREAM |-> "CMD_ACK", CMD_STOP_STREAM |-> "CMD_ACK",
   CMD_CLI_EXEC |-> "CMD_CLI_EXEC_RESP", CMD_GET_NODE_INFO |-> "CMD_GET_NODE_INFO_RESP",
   CMD_GET_STREAMS |-> "CMD_GET_STREAMS_RESP", DISCOVERY_PING |-> "DISCOVERY_PONG"]

\* CMD_GET_STREAMS: a count and that many descriptors.
StreamList(count) ==
  PayloadGetStreamsResp \o FlattenSeq([i \in 1 .. count |-> StreamDescriptor])

NodeWrites ==
  [CMD_OTA_BEGIN_RESP |-> PayloadOtaBeginResp, CMD_ACK |-> PayloadAckNack,
   CMD_CLI_EXEC_RESP |-> PayloadCliExecResp, CMD_GET_NODE_INFO_RESP |-> PayloadDiscoveryPong,
   CMD_GET_STREAMS_RESP |-> PayloadGetStreamsResp, DISCOVERY_PONG |-> PayloadDiscoveryPong,
   HEARTBEAT |-> PayloadHeartbeat, STREAM_SENSOR_BATCH |-> StreamPayloadHeader]
-----------------------------------------------------------------------------
(* The hosts' scripts. *)

HostCodes ==
  [CMD_GET_NODE_INFO |-> \h0100, CMD_GET_NODE_INFO_RESP |-> \h0101, CMD_OTA_BEGIN |-> \h0130,
   CMD_OTA_BEGIN_RESP |-> \h0131, CMD_OTA_DATA |-> \h0132, CMD_OTA_DATA_RESP |-> \h0133,
   CMD_OTA_END |-> \h0134, CMD_OTA_END_RESP |-> \h0135, CMD_OTA_GET_STATUS |-> \h0136,
   CMD_OTA_GET_STATUS_RESP |-> \h0137, CMD_OTA_ABORT |-> \h0138, CMD_CLI_EXEC |-> \h0150,
   CMD_CLI_EXEC_RESP |-> \h0151, CMD_REBOOT |-> \h01F0, CMD_ACK |-> \h01FE, CMD_NACK |-> \h01FF]

HostStatus ==
  [OK |-> 0, ERR_INVALID_MAGIC |-> 1, ERR_INVALID_VERSION |-> 2, ERR_INVALID_CRC |-> 3,
   ERR_UNKNOWN_CMD |-> 4, ERR_INVALID_PAYLOAD |-> 5, ERR_BUSY |-> 6, ERR_FLASH_WRITE |-> 7,
   ERR_FLASH_ERASE |-> 8, ERR_IMAGE_TOO_LARGE |-> 9, ERR_OTA_DISABLED |-> 10,
   ERR_INCOMPATIBLE_BOARD |-> 11, ERR_INCOMPATIBLE_BOOTLOADER |-> 12,
   ERR_VERSION_DOWNGRADE |-> 13]

HostPorts == [PORT_DISCOVERY |-> 50000, PORT_COMMAND |-> 50002]

HostFlags == [FLAG_ACK_REQUESTED |-> 1, FLAG_IS_RESPONSE |-> 2, FLAG_ERROR |-> 4]

ViewPorts == [PORT_STREAM |-> 50001, PORT_COMMAND |-> 50002]

ViewCodes == [CMD_START_STREAM |-> \h0110, CMD_STOP_STREAM |-> \h0111, CMD_GET_STREAMS |-> \h0120]

\* make_header and parse_header.
HostHeader ==
  << <<"magic", 2>>, <<"version", 1>>, <<"flags", 1>>, <<"node_id", 2>>, <<"msg_type", 2>>,
     <<"seq_num", 4>>, <<"payload_len", 2>>, <<"crc16", 2>> >>

HostBegin ==
  << <<"image_size", 4>>, <<"image_crc32", 4>>, <<"target_version", 4>>, <<"chunk_size", 2>>,
     <<"flags", 2>> >>
HostData == << <<"offset", 4>>, <<"chunk_len", 2>>, <<"chunk_crc16", 2>> >>
HostEnd == << <<"image_crc32", 4>>, <<"auto_reboot", 1>>, <<"reserved", 3>> >>
HostCli == << <<"cmd_len", 2>>, <<"flags", 2>> >>
HostPing == << <<"challenge_id", 4>>, <<"target_node_id", 2>>, <<"reserved", 2>> >>
ViewCommand == << <<"cmd_id", 2>>, <<"param1", 2>>, <<"param2", 4>> >>

HostSends ==
  [CMD_OTA_BEGIN |-> HostBegin, CMD_OTA_DATA |-> HostData, CMD_OTA_END |-> HostEnd,
   CMD_CLI_EXEC |-> HostCli, DISCOVERY_PING |-> HostPing, CMD_START_STREAM |-> ViewCommand,
   CMD_STOP_STREAM |-> ViewCommand, CMD_GET_NODE_INFO |-> <<>>, CMD_GET_STREAMS |-> <<>>]

HostBeginAnswer ==
  << <<"status_code", 4>>, <<"chunk_size_ack", 2>>, <<"max_image_size_kb", 2>> >>
HostCliAnswer == << <<"status_code", 2>>, <<"resp_len", 2>> >>
HostHeartbeat == << <<"uptime_ms", 4>>, <<"fw_version", 4>> >>

\* The format of a PONG and of a node's information, a value at a time, and the
\* names run_ota assigns the values to, "_" for one it does not want.
HostPongFormat ==
  << <<"challenge_id", 4>>, <<"node_id", 2>>, <<"node_state", 2>>, <<"ip_addr", 4>>,
     <<"mac_addr", 1>>, <<"mac_addr", 1>>, <<"mac_addr", 1>>, <<"mac_addr", 1>>,
     <<"mac_addr", 1>>, <<"mac_addr", 1>>, <<"board_id", 2>>, <<"fw_version", 4>>,
     <<"uptime_ms", 4>>, <<"hw_uid", 4>>, <<"hw_uid", 4>>, <<"hw_uid", 4>>,
     <<"bootloader_version", 4>>, <<"feature_flags", 4>> >>
HostPongNames ==
  << "_", "_", "_", "_", "_", "board_id", "cur_fw_ver", "uptime", "_", "_", "_", "bl_ver",
     "feat_flags" >>

ViewFrame ==
  << <<"timestamp_us", 8>>, <<"stream_tag", 4>>, <<"sample_rate_hz", 2>>, <<"sample_count", 2>>,
     <<"channel_count", 2>>, <<"sample_type", 2>> >>

HostReads ==
  [CMD_OTA_BEGIN_RESP |-> HostBeginAnswer, CMD_CLI_EXEC_RESP |-> HostCliAnswer,
   HEARTBEAT |-> HostHeartbeat, STREAM_SENSOR_BATCH |-> ViewFrame]

\* The answer type a script goes on with.
HostExpects ==
  [CMD_GET_NODE_INFO |-> "CMD_GET_NODE_INFO_RESP", CMD_OTA_BEGIN |-> "CMD_OTA_BEGIN_RESP",
   CMD_OTA_DATA |-> "CMD_ACK", CMD_OTA_END |-> "CMD_ACK", CMD_CLI_EXEC |-> "CMD_CLI_EXEC_RESP",
   DISCOVERY_PING |-> "DISCOVERY_PONG"]

\* Where a captured view finds the i-th descriptor of an answer, and in it.
ViewDescriptorAt(i) == 20 + 32 * (i - 1)
ViewDescriptor ==
  << <<"stream_tag", 4>>, <<"name", 16>>, <<"sample_rate_hz", 2>>, <<"batch_count", 2>>,
     <<"channel_count", 2>>, <<"sample_type", 2>>, <<"is_enabled", 1>> >>

\* Where the dashboard finds the stream header and the first sample.
ViewFrameAt == 16
ViewSampleAt == 36

\* Where parse_app_image_header looks for the image header, in how many bytes,
\* and what it unpacks of them.
APP_HEADER_OFFSET == \h200
HostHeaderBytes == 64
HostImageHeader ==
  << <<"magic", 4>>, <<"header_version", 2>>, <<"board_id", 2>>, <<"app_version", 4>>,
     <<"min_bootloader_version", 4>>, <<"feature_flags", 4>>, <<"image_size", 4>>,
     <<"image_crc32", 4>>, <<"build_timestamp", 4>>, <<"git_commit", 4>> >>
-----------------------------------------------------------------------------
SameCodes(host, node) == \A n \in DOMAIN host : n \in DOMAIN node /\ host[n] = node[n]

\* A host that reads the start of what the node writes finds every byte of
\* every field where the node put it, and a host's request is, byte for byte,
\* the layout the handler reads.
LayoutsAgree ==
  /\ BytesOf(HostHeader) = BytesOf(PE_Header)
  /\ \A m \in DOMAIN HostSends : BytesOf(HostSends[m]) = BytesOf(HandlerReads[m])
  /\ \A m \in DOMAIN HostReads : IsPrefix(BytesOf(HostReads[m]), BytesOf(NodeWrites[m]))

\* What the two ends do not share, and why the script's checks before an upload
\* never take one thing for another: the format of a PONG spans the node's
\* structure but gives more values than run_ota has names for, which Python
\* refuses; and the header, unpacked in the node's order of fields, is looked
\* for in bytes that hold none of the node's.
NothingIsMistaken ==
  /\ \A m \in {"DISCOVERY_PONG", "CMD_GET_NODE_INFO_RESP"} :
       SizeOf(HostPongFormat) = SizeOf(NodeWrites[m])
  /\ Len(HostPongFormat) > Len(HostPongNames)
  /\ IsPrefix(BytesOf(HostImageHeader), BytesOf(AppImageHeader))
  /\ APP_HEADER_OFFSET + HostHeaderBytes <= APP_HEADER_FLASH_OFFSET

\* Codes mean the same at both ends and no two messages share one; the answer
\* a script waits for is the one the handler of its request sends.
CodesAgree ==
  /\ SameCodes(HostCodes, MessageType) /\ SameCodes(ViewCodes, MessageType)
  /\ SameCodes(HostStatus, StatusCode) /\ SameCodes(HostFlags, PacketFlags)
  /\ SameCodes(HostPorts, Ports) /\ SameCodes(ViewPorts, Ports)
  /\ \A m, n \in DOMAIN MessageType : MessageType[m] = MessageType[n] => m = n
  /\ \A m \in DOMAIN HostExpects : HostExpects[m] = AnswerTo[m]

\* Whatever of a datagram arrives, one that validates holds the whole payload
\* its handler reads; the whole datagram does, and one of another protocol or
\* version does not.
FramesAreWhole ==
  \A m \in DOMAIN HandlerReads :
    LET size == SizeOf(HandlerReads[m])
        hdr == PopulateHeader(m, size)
        whole == SizeOf(PE_Header) + size
    IN  /\ \A received \in 0 .. whole + 1 :
             ValidateHeader(hdr, received) = "OK" <=> received >= whole
        /\ \A other \in {[hdr EXCEPT !.magic = 0], [hdr EXCEPT !.version = 2]} :
             ValidateHeader(other, whole) # "OK"
        /\ ValidatePayloadCrc(hdr, 1)

\* However TCP cuts the bytes of a header and its payload into buffers, the
\* server reads the one and then the other, each whole, in order and up to its
\* end, or fails if the connection ends before.
ReadsAreExact ==
  \A arrived \in 0 .. 6 : \A cuts \in SUBSET (1 .. arrived - 1), header, payload \in 1 .. 4 :
    LET ends == IF arrived = 0 THEN {} ELSE cuts \cup {arrived}
        end(i) == CHOOSE e \in ends \cup {0} : Cardinality({x \in ends : x <= e}) = i
        buffers == [i \in 1 .. Cardinality(ends) |->
                     [j \in 1 .. end(i) - end(i - 1) |-> end(i - 1) + j]]
        first == readExact(StreamReader(buffers), header)
        second == readExact(first.reader, payload)
    IN  /\ first.ok <=> arrived >= header
        /\ first.ok => first.dest = [j \in 1 .. header |-> j]
        /\ first.ok => (second.ok <=> arrived >= header + payload)
        /\ second.ok => second.dest = [j \in 1 .. payload |-> header + j]

\* Every request of a script, with the longest chunk the node accepts (1024
\* bytes) and any command line it keeps, passes the server's bounds; a list of
\* MAX_CHANNELS streams has its descriptors where a captured view looks.
RequestsFit ==
  /\ SizeOf(HostData) + 1024 <= PayloadBuffer
  /\ \A n \in 0 .. 200 :
       CliText(SizeOf(HostCli) + n, n) = (IF n <= 127 THEN n ELSE 127)
  /\ \A i \in 1 .. 8 :
       LET list == BytesOf(PE_Header \o StreamList(8))
       IN  SubSeq(list, ViewDescriptorAt(i) + 1, ViewDescriptorAt(i) + SizeOf(ViewDescriptor))
             = BytesOf(ViewDescriptor)
  /\ ViewFrameAt = SizeOf(PE_Header)
  /\ ViewSampleAt = SizeOf(PE_Header) + SizeOf(StreamPayloadHeader)

\* A structure with a checksum ends with it, so that the sizeof(structure) -
\* sizeof(checksum) bytes under it are all the others; sizes are as asserted.
SizesAreAsserted ==
  /\ \A s \in {OtaControlBlock, BootInfo} : SizeOf(s) = 32 /\ s[Len(s)] = <<"struct_crc32", 4>>
  /\ SizeOf(AppImageHeader) = 64 /\ AppImageHeader[Len(AppImageHeader)] = <<"header_crc32", 4>>
  /\ \A s \in {PE_Header, PayloadHeartbeat, PayloadTimeBeacon, PayloadOtaBegin} : SizeOf(s) = 16
  /\ \A s \in {PayloadTimeSync, StreamDescriptor} : SizeOf(s) = 32
  /\ SizeOf(PayloadDiscoveryPong) = 48 /\ SizeOf(PayloadOtaStatusResp) = 12

\* What two programs in two languages must share for a packet of one to mean
\* the same to the other.
WireAgrees ==
  /\ LayoutsAgree
  /\ NothingIsMistaken
  /\ CodesAgree
  /\ FramesAreWhole
  /\ ReadsAreExact
  /\ RequestsFit
  /\ SizesAreAsserted
  /\ VersionsAreOrdered
  /\ FeaturesAreNamed

\* While a host is connected its requests mean to the node what they mean to the
\* host, and of the node's packets it takes in no field for another: layouts,
\* codes, lengths and versions agree; the PONG and the image header, on which
\* the programs do not agree, the script does not get to read (ProtocolTypes.h,
\* PacketHelper.h, CommandService.cpp, the host's scripts).
WireHolds == conn # {} => WireAgrees
=============================================================================
