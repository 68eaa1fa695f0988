------------------------------ MODULE OtaLink ------------------------------
(***************************************************************************)
(* What the OTA sender and the OTA receiver share: the size of an image,   *)
(* the packets of ota_protocol.h and the two links they travel on.         *)
(*                                                                         *)
(* fwd is the BMC wire and the DMA ring behind it, in which packets of the *)
(* sender wait for core 1; rev is the response queue core 1 writes and     *)
(* core 0 reads.  Both are FIFO.                                           *)
(*                                                                         *)
(* Data is abstracted to what the protocol tells apart. The bytes of chunk *)
(* c of window w are the pair (w, c); a DATA packet carries them intact or *)
(* not, a START has the right magic or not. A CRC32 is the identity of     *)
(* what it is computed over: a window's CRC is the number of the window,   *)
(* the image's CRC the number of windows in it (images of a run are        *)
(* prefixes of one another), and two different contents never have the     *)
(* same CRC. A bitmap is a set of chunk numbers.                           *)
(***************************************************************************)
EXTENDS Integers, Sequences, FiniteSets

CONSTANTS
  MaxWindows,       \* bound: the largest image a session sends, in windows
  StagingWindows,   \* windows that fit in staging_max_bytes
  Chunks,           \* OTA_CHUNKS_PER_WINDOW
  LastChunks,       \* chunks of the last, possibly partial, window
  InitialCredits    \* rx.config.initial_credits

ASSUME SizesAssumption ==
  /\ MaxWindows \in Nat \ {0}
  /\ StagingWindows \in Nat \ {0}
  /\ Chunks \in Nat \ {0}
  /\ LastChunks \in 1 .. Chunks
  /\ InitialCredits \in Nat

VARIABLES
  fwd,   \* sender -> receiver, oldest packet first
  rev    \* receiver -> sender, oldest packet first

links == <<fwd, rev>>

Windows == 0 .. MaxWindows - 1
Sizes   == 1 .. MaxWindows
ChunkIds == 0 .. Chunks - 1

\* Chunks of window w of an image of n windows; none beyond the image.
ChunksIn(n, w) ==
  IF w >= n THEN 0 ELSE IF w = n - 1 THEN LastChunks ELSE Chunks

\* The error codes the model tells apart from OTA_STATUS_OK.
Statuses == {"OK", "ERR_MAGIC", "ERR_SIZE", "ERR_CRC_MISMATCH",
             "ERR_FLASH_ERASE", "ERR_FLASH_PROGRAM", "ERR_FLASH_VERIFY"}

-----------------------------------------------------------------------------
(* Sender -> receiver.                                                     *)

Start(n)         == [type |-> "START", total |-> n, magic |-> TRUE]
Data(w, c)       == [type |-> "DATA", win |-> w, chunk |-> c, intact |-> TRUE]
Query(w, k)      == [type |-> "QUERY", win |-> w, total |-> k]
Finalize         == [type |-> "FINALIZE"]
Abort            == [type |-> "ABORT"]

FwdPacket ==
       [type : {"START"}, total : Sizes, magic : BOOLEAN]
  \cup [type : {"DATA"}, win : Windows, chunk : ChunkIds, intact : BOOLEAN]
  \cup [type : {"QUERY"}, win : Windows, total : 0 .. Chunks]
  \cup [type : {"FINALIZE", "ABORT"}]

(* Receiver -> sender.  The image CRC of a STATUS is -1 when the staging   *)
(* area does not hold the image, 0 when it was not computed.               *)

StartAck(st, cr)     == [type |-> "START_ACK", status |-> st, credit |-> cr]
QueryResp(w, ms)     == [type |-> "QUERY_RESP", win |-> w, missing |-> ms]
Ready(w, st, cr)     == [type |-> "READY", win |-> w, status |-> st, credit |-> cr]
Status(st, crc)      == [type |-> "STATUS", status |-> st, crc |-> crc]

RevPacket ==
       [type : {"START_ACK"}, status : Statuses, credit : Nat]
  \cup [type : {"QUERY_RESP"}, win : Windows, missing : SUBSET ChunkIds]
  \cup [type : {"READY"}, win : Windows, status : Statuses, credit : 0 .. 1]
  \cup [type : {"STATUS"}, status : Statuses, crc : -1 .. MaxWindows]
  \cup [type : {"ABORT"}]
=============================================================================
