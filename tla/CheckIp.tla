---- MODULE CheckIp ----
(***************************************************************************)
(* structure/check_ip.c: the verdict on one packet, from its headers and   *)
(* the ACL table.  A packet is a record of what the code reads of it;      *)
(* lengths are in words of 4 bytes, the unit of every header.              *)
(*   version, len, dst, port                                               *)
(*   ihl     the header length of IPv4                                     *)
(*   exts    the extension headers of IPv6, [kind, size, later]; later:    *)
(*           the fragment offset is not 0                                  *)
(*   proto   the protocol (IPv4), or the one after the extension headers   *)
(***************************************************************************)
EXTENDS Patricia

CONSTANT Packets

(* The 20 and 40 bytes of lines 163 and 190. *)
Header(p) == IF p.version = 4 THEN 5 ELSE 10
Malformed == "malformed"   \* the 0xFF of get_ipv6_final_next_header

(* An authentication header's length is read as (n + 1) * 8 bytes, like     *)
(* that of the others, and not as (n + 2) * 4.                             *)
FinalNextHeaderAuth(p) ==
  LET bad == [proto |-> Malformed, at |-> 0]
      Size(ext) == IF ext.kind = "auth" THEN 2 * (ext.size - 1) ELSE ext.size
      go[i \in 1 .. Len(p.exts) + 1, offset \in Nat] ==
        IF i > Len(p.exts)
        THEN IF p.proto \in {"tcp", "udp", "icmp", "nonext"} THEN [proto |-> p.proto, at |-> offset] ELSE bad
        ELSE LET ext == p.exts[i]
             IN  IF offset + Size(ext) > p.len \/ (ext.kind = "fragment" /\ ext.later) THEN bad
                 ELSE go[i + 1, offset + Size(ext)]
  IN  IF p.len < Header(p) THEN bad ELSE go[1, Header(p)]

(* get_ipv6_final_next_header: the protocol and where its header begins.   *)
(* A fragment header has two words; the others say how many they have.     *)
FinalNextHeader(p) ==
  LET bad == [proto |-> Malformed, at |-> 0]
      go[i \in 1 .. Len(p.exts) + 1, offset \in Nat] ==
        IF i > Len(p.exts)
        THEN IF p.proto \in {"tcp", "udp", "icmp", "nonext"} THEN [proto |-> p.proto, at |-> offset] ELSE bad
        ELSE LET ext == p.exts[i]
             IN  IF offset + ext.size > p.len \/ (ext.kind = "fragment" /\ ext.later) THEN bad
                 ELSE go[i + 1, offset + ext.size]
  IN  IF p.len < Header(p) THEN bad ELSE go[1, Header(p)]

(* detect_protocol, with the place of the transport header.  Byte 9 of an  *)
(* IPv4 packet is read before any length is looked at (line 124): if the   *)
(* packet ends before it, proto is whatever lies behind the buffer, any    *)
(* protocol at all, and the test of len that follows must not depend on it. *)
DetectProtocol(p) ==
  IF p.version = 4 THEN [proto |-> p.proto, at |-> p.ihl]
  ELSE IF p.version = 6 THEN FinalNextHeader(p)
  ELSE [proto |-> "unknown", at |-> 0]

(* get_packet_dst_info; Nil when it returns -1. *)
PacketDstInfo(p) ==
  LET found == DetectProtocol(p)
      ported == found.proto \in {"tcp", "udp"}
  IN  IF \/ found.proto = "unknown"
         \/ p.version \notin {4, 6}
         \/ p.len < Header(p)
         \/ ported /\ p.len < found.at + 1
      THEN Nil
      ELSE [proto |-> found.proto, port |-> IF ported THEN p.port ELSE 0]

(* check_one_packet_valid_2, once get_packet_dst_info has returned info: 0  *)
(* lets the packet pass.                                                   *)
Verdict(p, info) ==
  IF info = Nil THEN 0
  ELSE IF info.proto = "icmp" THEN 0
  ELSE IF info.proto \in Protos /\ AclLookup(pt[ptAf], p.dst, info.proto, info.port) # Nil THEN 0
  ELSE 1

(* --- properties ------------------------------------------------------------ *)

SizeOf(exts) == FoldSeq(LAMBDA ext, n : ext.size + n, 0, exts)
Readable(p) ==
  p.version = 6 =>
    /\ Header(p) + SizeOf(p.exts) <= p.len
    /\ \A i \in DOMAIN p.exts : ~(p.exts[i].kind = "fragment" /\ p.exts[i].later)
    /\ p.proto # "esp"
Transport(p) == IF p.version = 4 THEN p.ihl ELSE Header(p) + SizeOf(p.exts)

(* What passes whatever is granted, by the code and by its comments alike,  *)
(* and what is compared with the grants if it does not.                    *)
Passing(p) ==
  \/ p.version \notin {4, 6} \/ Header(p) > p.len
  \/ p.version = 4 /\ p.proto = "unknown"
  \/ Readable(p) /\ p.proto = "icmp"
  \/ Readable(p) /\ p.proto \in {"tcp", "udp"} /\ Transport(p) >= p.len
Compared(p) == Readable(p) /\ p.proto \in {"tcp", "udp"}
Cases == {[packet |-> p, info |-> PacketDstInfo(p), passing |-> Passing(p), compared |-> Compared(p)] : p \in Packets}

(* A packet of TCP or UDP that has its whole IP header, all the headers    *)
(* before the transport and its ports is dropped exactly if no grant       *)
(* covers its address, protocol and port; one that ends before one of      *)
(* these, ICMP, and other versions pass, and what lies behind the end of   *)
(* the packet never decides (check_ip.c:28-247).                           *)
VerdictExact ==
  \A c \in Cases :
    /\ c.passing => Verdict(c.packet, c.info) = 0
    /\ c.compared /\ ~c.passing =>
         (Verdict(c.packet, c.info) = 1 <=>
            Fitting(Covering(c.packet.dst), c.packet.proto, c.packet.port) = {})

(* "-1: malformed, out of bounds or an unknown protocol" (check_ip.c:144), *)
(* on which the caller lets the packet pass (226), and "protocols other    *)
(* than TCP and UDP need no comparison" (231): whatever is not a readable  *)
(* packet of TCP or UDP passes.  The code compares all but protocols 0, 1  *)
(* and 58 - a later fragment, a broken chain of headers and any other      *)
(* protocol too - with the grants, finds none and drops it.                *)
OthersPass ==
  \A c \in Cases : ~c.compared => Verdict(c.packet, c.info) = 0

====
