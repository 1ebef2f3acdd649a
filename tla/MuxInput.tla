------------------------------ MODULE MuxInput ------------------------------
(***************************************************************************)
(* device_data_input: the packets of a device put together again from USB  *)
(* transfers.  The device (external) sends a packet in transfers of        *)
(* USB_MRU bytes and one with the rest; a read never holds more than       *)
(* USB_MRU, and one of zero length changes nothing.  A packet that does    *)
(* not fit pktbuf is dropped in its middle, after which the bytes of its   *)
(* payload are taken for a header.                                         *)
(***************************************************************************)
EXTENDS Integers

CONSTANTS
  UsbMru,   \* USB_MRU, the size of a read
  DevMru,   \* DEV_MRU, the size of pktbuf
  Lengths,  \* bound: lengths of the packets the device sends
  Garbage   \* bound: what payload taken for the length in a header may say

ASSUME MruAssumption ==
  /\ UsbMru \in Nat \ {0} /\ DevMru \in Nat /\ UsbMru <= DevMru
  /\ Lengths \subseteq Nat \ {0} /\ Garbage \subseteq Nat

VARIABLES
  cur,     \* the packet the device sends or has sent last: its length
  left,    \* how much of it is still to come
  synced,  \* 1 if pktbuf was empty when it began
  last,    \* the length of the last transfer
  pktlen,  \* dev->pktlen
  hdr,     \* the length in the header at the start of pktbuf
  got,     \* packets handed on since cur began
  gotLen   \* the length of the last one

inputVars == <<cur, left, synced, last, pktlen, hdr, got, gotLen>>

InputInit ==
  /\ cur = 0 /\ left = 0 /\ synced = 0 /\ last = 0
  /\ pktlen = 0 /\ hdr = 0 /\ got = 0 /\ gotLen = 0

(***************************************************************************)
(* device_data_input with a transfer of n bytes that begins with h in the  *)
(* place of a header's length.                                             *)
(***************************************************************************)
\* The protocol's handler runs if the header's length is the packet's.
Dispatch(len, h) ==
  IF h = len THEN got' = got + 1 /\ gotLen' = len ELSE UNCHANGED <<got, gotLen>>

TooLarge(n) == n + pktlen > DevMru

CompleteIfShort(n) == n < UsbMru

Complete(n) == n < UsbMru \/ hdr = n + pktlen

DropKeeps(n) ==
  /\ pktlen # 0 /\ TooLarge(n)
  /\ UNCHANGED <<pktlen, hdr, got, gotLen>>

\* A split packet outgrows pktbuf ...
Drop(n) ==
  /\ pktlen # 0 /\ TooLarge(n)
  /\ pktlen' = 0
  /\ UNCHANGED <<hdr, got, gotLen>>

\* ... or is complete ...
Gather(n) ==
  /\ pktlen # 0 /\ ~TooLarge(n) /\ Complete(n)
  /\ pktlen' = 0
  /\ Dispatch(pktlen + n, hdr)
  /\ UNCHANGED hdr

\* ... or goes on.
AppendMore(n) ==
  /\ pktlen # 0 /\ ~TooLarge(n) /\ ~Complete(n)
  /\ pktlen' = pktlen + n
  /\ UNCHANGED <<hdr, got, gotLen>>

\* A packet begins that is longer than its first transfer ...
CopyFirst(n, h) ==
  /\ pktlen = 0 /\ n = UsbMru /\ n < h
  /\ pktlen' = n /\ hdr' = h
  /\ UNCHANGED <<got, gotLen>>

\* ... or is not.
Direct(n, h) ==
  /\ pktlen = 0 /\ ~(n = UsbMru /\ n < h)
  /\ Dispatch(n, h)
  /\ UNCHANGED <<pktlen, hdr>>

device_data_input(n, h) ==
  \/ Drop(n) \/ Gather(n) \/ AppendMore(n) \/ CopyFirst(n, h) \/ Direct(n, h)

(***************************************************************************)
(* The device.                                                             *)
(***************************************************************************)
Begin(len) ==
  /\ left = 0
  /\ cur' = len /\ left' = len
  /\ synced' = IF pktlen = 0 THEN 1 ELSE 0
  /\ got' = 0
  /\ UNCHANGED <<last, pktlen, hdr, gotLen>>

TransferSize == IF left < UsbMru THEN left ELSE UsbMru

\* What stands where a header's length would be.
Headers == IF left = cur THEN {cur} ELSE Garbage

Transfer ==
  /\ left > 0
  /\ left' = left - TransferSize /\ last' = TransferSize
  /\ \E h \in Headers : device_data_input(TransferSize, h)
  /\ UNCHANGED <<cur, synced>>

InputNext == (\E len \in Lengths : Begin(len)) \/ Transfer

InputSpec == InputInit /\ [][InputNext]_inputVars

(***************************************************************************)
(* Properties.                                                             *)
(***************************************************************************)
\* Type invariant; what memcpy writes into pktbuf lies within its DEV_MRU bytes.
InputTypeOK ==
  /\ cur \in Nat /\ left \in 0..cur /\ synced \in {0, 1} /\ last \in 0..UsbMru
  /\ pktlen \in 0..DevMru /\ hdr \in Nat /\ got \in Nat /\ gotLen \in Nat

\* A packet that fits pktbuf and begins with pktbuf empty is handed on exactly
\* once, in its full length, and not before its last transfer: also one whose
\* length is a multiple of USB_MRU, which no short transfer ends.
WholePacket ==
  synced = 1 /\ cur <= DevMru =>
    IF left > 0 THEN got = 0 ELSE got = 1 /\ gotLen = cur

\* Whatever was dropped or misread, the first packet that ends with a short
\* transfer puts device_data_input back in step; one that fits leaves it so.
InStep ==
  left = 0 /\ (last < UsbMru \/ (synced = 1 /\ cur <= DevMru)) => pktlen = 0
=============================================================================
