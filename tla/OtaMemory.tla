----------------------------- MODULE OtaMemory -----------------------------
(***************************************************************************)
(* What the application and the bootloader share across a reset: the RAM   *)
(* staging buffer and the OTA control block (ProtocolTypes.h,              *)
(* OtaControlBlock at 0x24070000).                                         *)
(*                                                                         *)
(* The unit of data is the 1024-byte chunk that CMD_OTA_DATA carries and   *)
(* the bootloader programs; its contents are a member of Bytes.  An image  *)
(* is the sequence of its chunks.  CRC32 and CRC16 are taken to be         *)
(* perfect: two images have the same checksum iff they are equal, so the   *)
(* pair (image_size, image_crc32) a host announces is the image itself.    *)
(***************************************************************************)
EXTENDS Naturals, Sequences

CONSTANTS
  Bytes,          \* contents of one chunk
  FF,             \* the chunk of 0xFF: erased flash, reset staging buffer
  Zero,           \* the chunk of 0x00: what startup leaves in .bss
  Kind,           \* what an AppImageHeader in that chunk says of the image
  Images,         \* the images hosts may announce, of any size
  StagingChunks   \* MAX_IMAGE_SIZE in chunks

HeaderKinds == {"none", "ok", "badCrc", "otherBoard", "newerBootloader"}

ASSUME BytesAssumption == FF \in Bytes /\ Zero \in Bytes /\ FF # Zero
ASSUME KindAssumption == Kind \in [Bytes -> HeaderKinds]
ASSUME ImagesAssumption == Images \subseteq Seq(Bytes)
ASSUME StagingAssumption == StagingChunks \in Nat \ {0}

VARIABLES
  ram,    \* physical contents of staging_buffer_, what survives a soft reset
  block   \* the OtaControlBlock in RAM

Chunks == 1 .. StagingChunks

\* A block the bootloader accepts (magic, struct_crc32 and state
\* PENDING_INSTALL all right) and the image it describes.
Blocks == [pending : BOOLEAN, image : Seq(Bytes)]
NoBlock == [pending |-> FALSE, image |-> <<>>]
PendingBlock(img) == [pending |-> TRUE, image |-> img]

\* The first Len(img) chunks of a memory are exactly the image: its CRC32
\* over image_size bytes is the expected one.
Holds(memory, img) == \A c \in 1 .. Len(img) : memory[c] = img[c]

\* APP_HEADER_FLASH_OFFSET = 0x400: the header opens the second chunk, and
\* is looked for only in images that reach past its end.
HeaderChunk == 2
HeaderKind(memory, reach) ==
  IF reach >= HeaderChunk THEN Kind[memory[HeaderChunk]] ELSE "none"
Compatible(img) == HeaderKind(img, Len(img)) \in {"none", "ok"}
=============================================================================
