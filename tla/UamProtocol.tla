----------------------------- MODULE UamProtocol -----------------------------
(***************************************************************************)
(* The packets of the UAM lidar (uam_protocol_types.h): the bytes of each  *)
(* structure, field by field in the order of its declaration, and the      *)
(* packet that a worker expects.  Numbers are hexadecimal text, so a field *)
(* of type uint32_t is four characters and a bool is one.                  *)
(***************************************************************************)
EXTENDS Integers

Subscriptions == {"AR02", "AR04", "AR07"}
Scans         == {"AR00", "AR01", "AR06"}
EmptyReplies  == Subscriptions \cup {"AR03", "AR05", "AR08"}
\* The element types of UamPacketWorker::workers_.
Workers       == EmptyReplies \cup Scans \cup {"VR00", "XR00", "ID00", "YR"}

\* stx, cmd_size, header, sub_header, status.
CommandReplyHeader == 1 + 4 + 2 + 2 + 2
\* crc, etx.
CommandFooter == 4 + 1

\* sensor_model, firmware_version, reserved, serial_number; a comma after each.
VersionDetails  == (29 + 1) + (29 + 1) + (37 + 1) + (8 + 1)
ConfigurationID == 8 + 8

\* operating_mode .. lockout_state, six outputs, reserved, muting and reset,
\* encoder_speed.
StateFields == (1 + 2 + 1 + 2 + 1) + 6 + 2 + 4 + 4

\* timestamp and the two states of the window end the fields that are decoded.
SensingFields     == StateFields + 8 + 1 + 1
SensingDataHeader == SensingFields + 6

\* Six states of each of three slaves.
SlaveStates  == 6 * 3
\* laser_state_off before the slaves, timestamp and the window behind them.
StatusFields == StateFields + 1 + SlaveStates + 8 + 1
StatusData   == StatusFields + 39

c_nr_ranges           == 1081
c_nr_ranges_multiecho == 2161
Reading               == 4

\* stx .. header, area_type, area_number, two steps, resolution, status.
YRCommandReplyHeader == (1 + 4 + 2) + 2 + 2 + (4 + 4) + 2 + 2

\* Bytes between the header and the footer of the packet of a worker.
Body(worker) ==
  CASE worker = "AR00" -> SensingDataHeader + Reading * c_nr_ranges
    [] worker = "AR01" -> SensingDataHeader + Reading * (c_nr_ranges + c_nr_ranges)
    [] worker = "AR06" -> SensingDataHeader + Reading * c_nr_ranges_multiecho
    [] worker = "VR00" -> VersionDetails
    [] worker = "XR00" -> StatusData
    [] worker = "ID00" -> ConfigurationID
    [] worker = "YR"   -> (YRCommandReplyHeader - CommandReplyHeader) + Reading * c_nr_ranges
    [] OTHER           -> 0

\* sizeof(Reply)
ReplySize(worker) == CommandReplyHeader + Body(worker) + CommandFooter

EmptyReply == CommandReplyHeader + CommandFooter
\* sizeof(ShapeShifterPacket): the largest packet.
LargestReply == ReplySize("AR01")

\* The static_asserts of uam_visitors.h and shape_shifter_packet.h: the layout
\* of the packets is the one that the compiler was held to.
LayoutAsserted ==
  /\ ReplySize("AR00") = 4379 /\ ReplySize("XR00") = 106
  /\ CommandReplyHeader = 11 /\ CommandReplyHeader + SensingDataHeader = 50
  /\ Reading * c_nr_ranges = 4324
  /\ \A worker \in Workers : ReplySize(worker) <= LargestReply

ASSUME LayoutAssertion == LayoutAsserted

=============================================================================
