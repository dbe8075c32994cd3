---------------------------- MODULE RelayChannel ----------------------------
(***************************************************************************)
(* The connection to a relay over TCP and TLS, once it carries WireGuard   *)
(* messages: Transport::into_wg_send_recv, WgSender, WgReceiver and        *)
(* recv_message of src/rustlib/src/quicwg.rs.                              *)
(*                                                                         *)
(* The tunnel task polls a future that reads messages and drops it         *)
(* whenever another branch of its select is taken first; every operation   *)
(* of the relay must be confirmed.  Confirmations and packets go through   *)
(* queues in a watch channel to a task that writes them.                   *)
(***************************************************************************)
EXTENDS Naturals, Sequences

CONSTANTS
  MaxMessages,  (* bound: messages of the relay                 *)
  MaxQueue,     (* packets queued at most (1000)                *)
  MaxPackets    (* bound: packets the device sends              *)

ASSUME ChannelConstants == MaxMessages \in Nat /\ MaxQueue \in Nat /\ MaxPackets \in Nat

(* What a message of the relay is: a WireGuard message, another operation,  *)
(* a response, or one of a code or a size the client skips.                 *)
Kind == {"wireguard", "operation", "ok", "error", "unknown"}

VARIABLES
  sent,       (* the messages the relay has sent, each a header and a payload *)
  pos,        (* parts of them taken from the stream                          *)
  inside,     (* the reader has taken a header and expects its payload        *)
  receiving,  (* the future that reads is polled                              *)
  oks,        (* queued_oks: positions of the operations                      *)
  packets,    (* number of queued_packets                                     *)
  sending,    (* packets the device has sent                                  *)
  changed,    (* the watch has changed since the writer looked                *)
  writer,     (* what the writing task does                                   *)
  batch,      (* oks_in_progress                                              *)
  written,    (* confirmations written                                        *)
  channel     (* open, or ended by an error                                   *)

channelVars == <<sent, pos, inside, receiving, oks, packets, sending, changed, writer,
                 batch, written, channel>>

ChannelTypeOK ==
  /\ sent \in Seq(Kind) /\ Len(sent) <= MaxMessages /\ pos \in 0..(2 * Len(sent))
  /\ inside \in BOOLEAN /\ receiving \in BOOLEAN /\ changed \in BOOLEAN
  /\ \A q \in {oks, batch, written} : q \in Seq(1..MaxMessages)
  /\ packets \in 0..MaxQueue /\ sending \in 0..MaxPackets
  /\ writer \in {"look", "packet", "oks", "asleep", "ended"}
  /\ channel \in {"open", "failed"}

ChannelInit ==
  /\ sent = <<>> /\ pos = 0 /\ inside = FALSE /\ receiving = FALSE
  /\ oks = <<>> /\ packets = 0 /\ sending = 0 /\ changed = FALSE
  /\ writer = "look" /\ batch = <<>> /\ written = <<>> /\ channel = "open"

RelaySends(kind) ==
  /\ channel = "open" /\ Len(sent) < MaxMessages /\ sent' = Append(sent, kind)
  /\ UNCHANGED <<pos, inside, receiving, oks, packets, sending, changed, writer, batch,
                 written, channel>>

-----------------------------------------------------------------------------
(* receive is polled: it goes on with the read it had begun, which the *)
(* stream keeps.                                                       *)
Receive ==
  /\ channel = "open" /\ ~receiving /\ receiving' = TRUE
  /\ UNCHANGED <<sent, pos, inside, oks, packets, sending, changed, writer, batch, written,
                 channel>>

FaultyDropReceive ==
  /\ receiving /\ receiving' = FALSE /\ inside' = FALSE
  /\ UNCHANGED <<sent, pos, oks, packets, sending, changed, writer, batch, written, channel>>

(* Another branch is taken, or a handshake message has waited too long: the *)
(* future is dropped.                                                       *)
DropReceive ==
  /\ receiving /\ receiving' = FALSE
  /\ UNCHANGED <<sent, pos, inside, oks, packets, sending, changed, writer, batch, written,
                 channel>>

ReadHeader ==
  /\ receiving /\ ~inside /\ pos < 2 * Len(sent)
  /\ inside' = TRUE /\ pos' = pos + 1
  /\ UNCHANGED <<sent, receiving, oks, packets, sending, changed, writer, batch, written,
                 channel>>

(* The payload completes a message.  An operation is confirmed, whichever it *)
(* is; only a WireGuard message is returned, and only an error or another    *)
(* operation ends the tunnel.                                                *)
ReadPayload ==
  /\ receiving /\ inside /\ pos < 2 * Len(sent)
  /\ inside' = FALSE /\ pos' = pos + 1
  /\ LET at == pos' \div 2
         kind == sent[at]
     IN  /\ IF kind \in {"wireguard", "operation"}
            THEN oks' = Append(oks, at) /\ changed' = TRUE
            ELSE UNCHANGED <<oks, changed>>
         /\ receiving' = (kind \in {"ok", "unknown"})
         /\ channel' = IF kind \in {"operation", "error"} THEN "failed" ELSE "open"
  /\ UNCHANGED <<sent, packets, sending, writer, batch, written>>

ReadError ==
  /\ receiving /\ receiving' = FALSE /\ channel' = "failed"
  /\ UNCHANGED <<sent, pos, inside, oks, packets, sending, changed, writer, batch, written>>

-----------------------------------------------------------------------------
(* send_wg_message: past the limit packets are dropped, silently; the watch *)
(* changes all the same.                                                    *)
SendPacket ==
  /\ channel = "open" /\ sending < MaxPackets /\ sending' = sending + 1
  /\ packets' = IF packets < MaxQueue THEN packets + 1 ELSE packets
  /\ changed' = TRUE
  /\ UNCHANGED <<sent, pos, inside, receiving, oks, writer, batch, written, channel>>

(* The writer takes all confirmations, else one packet, in one step. *)
Look ==
  /\ channel = "open" /\ writer = "look"
  /\ \/ /\ oks # <<>> /\ batch' = oks /\ oks' = batch
        /\ writer' = "oks" /\ changed' = TRUE /\ UNCHANGED packets
     \/ /\ oks = <<>> /\ packets > 0 /\ packets' = packets - 1
        /\ writer' = "packet" /\ changed' = TRUE /\ UNCHANGED <<oks, batch>>
     \/ /\ oks = <<>> /\ packets = 0 /\ writer' = "asleep"
        /\ UNCHANGED <<oks, packets, batch, changed>>
  /\ UNCHANGED <<sent, pos, inside, receiving, sending, written, channel>>

WritePacket ==
  /\ channel = "open" /\ writer = "packet" /\ writer' = "look"
  /\ UNCHANGED <<sent, pos, inside, receiving, oks, packets, sending, changed, batch, written,
                 channel>>

WriteOk ==
  /\ channel = "open" /\ writer = "oks"
  /\ written' = Append(written, Head(batch)) /\ batch' = Tail(batch)
  /\ writer' = IF batch' = <<>> THEN "look" ELSE "oks"
  /\ UNCHANGED <<sent, pos, inside, receiving, oks, packets, sending, changed, channel>>

WakeWriter ==
  /\ channel = "open" /\ writer = "asleep" /\ changed
  /\ changed' = FALSE /\ writer' = "look"
  /\ UNCHANGED <<sent, pos, inside, receiving, oks, packets, sending, batch, written, channel>>

(* A write fails: the task ends, and nobody is told. *)
WriteError ==
  /\ channel = "open" /\ writer \in {"packet", "oks"} /\ writer' = "ended"
  /\ UNCHANGED <<sent, pos, inside, receiving, oks, packets, sending, changed, batch, written,
                 channel>>

(* The tunnel task drops the connection, and with it the writer. *)
NewChannel ==
  /\ channel = "failed"
  /\ sent' = <<>> /\ pos' = 0 /\ inside' = FALSE /\ receiving' = FALSE
  /\ oks' = <<>> /\ packets' = 0 /\ sending' = 0 /\ changed' = FALSE
  /\ writer' = "look" /\ batch' = <<>> /\ written' = <<>> /\ channel' = "open"

ChannelNext ==
  \/ \E kind \in Kind : RelaySends(kind)
  \/ Receive \/ DropReceive \/ ReadHeader \/ ReadPayload \/ ReadError
  \/ SendPacket \/ Look \/ WritePacket \/ WriteOk \/ WakeWriter \/ WriteError \/ NewChannel

-----------------------------------------------------------------------------
Confirmations == written \o batch \o oks

(* Dropping the read at any moment loses no part of a message; each          *)
(* operation of the relay is confirmed once, in order; and the writer never  *)
(* sleeps over something to write (into_wg_send_recv, receive_wg_message).   *)
RelayChannelIsOrderly ==
  /\ pos % 2 = IF inside THEN 1 ELSE 0
  /\ {Confirmations[i] : i \in DOMAIN Confirmations}
       = {n \in 1..(pos \div 2) : sent[n] \in {"wireguard", "operation"}}
  /\ \A i, j \in DOMAIN Confirmations : i < j => Confirmations[i] < Confirmations[j]
  /\ writer = "asleep" /\ ~changed => oks = <<>> /\ packets = 0
=============================================================================
