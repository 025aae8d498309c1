---- MODULE Mbuf ----
(***************************************************************************)
(* coding/packet.c: a packet is a chain of views (mbuf_t) of buffers       *)
(* (mbuf_shared_info_t) that clones share and that are copied before they  *)
(* are written.  Each packet belongs to one owner, who alone calls the     *)
(* functions on it; two owners may share buffers and run at the same time. *)
(* append_large touches a shared count twice and is cut there; every other *)
(* function touches each count once and is one action.  Positions count    *)
(* from the end of the headroom, which nothing ever uses.                  *)
(***************************************************************************)
EXTENDS Integers, Sequences, FiniteSets

CONSTANTS
  Owners,
  Buffers,      \* the memory for buffers; a bound
  Sizes,        \* payload sizes asked of mbuf_alloc
  FragSize,     \* the 128 of append_large
  Inputs,       \* the strings appended
  MaxBytes,     \* a bound on a packet's length
  Nothing, Garbage

Bytes == {Garbage} \cup UNION {{s[i] : i \in DOMAIN s} : s \in Inputs}
Memory == [refcnt : Nat, bytes : Seq(Bytes)]
View == [sh : Buffers, data : Nat, tail : Nat]
Packet == [views : Seq(View), len : 0 .. MaxBytes]

ASSUME MbAssumption ==
  /\ IsFiniteSet(Owners)
  /\ Buffers \in SUBSET Nat /\ Sizes \in SUBSET Nat /\ FragSize \in Nat \ {0}
  /\ Inputs \subseteq Seq(Bytes) /\ \A s \in Inputs : Len(s) > 0
  /\ MaxBytes \in Nat
  /\ Nothing \notin Memory /\ Nothing \notin Packet /\ Nothing \notin Seq(Bytes)

VARIABLES
  mbBuf,     \* each buffer's refcnt and bytes, or Nothing if not allocated
  mbPkt,     \* each owner's packet: its views and pkt_len, or Nothing
  mbWork,    \* each owner's append_large in progress: the step, the bytes to go
  mbThreads  \* whether owners run concurrently

mbVars == <<mbBuf, mbPkt, mbWork, mbThreads>>

MbIdle == [at |-> "idle", rest |-> <<>>]

MbInit ==
  /\ mbBuf = [b \in Buffers |-> Nothing]
  /\ mbPkt = [o \in Owners |-> Nothing]
  /\ mbWork = [o \in Owners |-> MbIdle]
  /\ mbThreads \in BOOLEAN

(* --- views -------------------------------------------------------------- *)

ViewLen(v) == v.tail - v.data
ViewBytes(v) == SubSeq(mbBuf[v.sh].bytes, v.data + 1, v.tail)
Room(v) == Len(mbBuf[v.sh].bytes) - v.tail
MbLast(views) == views[Len(views)]

(* The bytes of the first k views. *)
Upto(views) ==
  LET bytes[k \in 0 .. Len(views)] ==
        IF k = 0 THEN <<>> ELSE bytes[k - 1] \o ViewBytes(views[k])
  IN  bytes
Value(views) == Upto(views)[Len(views)]

(* --- memory -------------------------------------------------------------- *)

Unused == {b \in Buffers : mbBuf[b] = Nothing}
NewBuffer == CHOOSE b \in Unused : \A c \in Unused : b <= c
Fresh(size) == [refcnt |-> 1, bytes |-> [i \in 1 .. size |-> Garbage]]
Whole(b) == [sh |-> b, data |-> 0, tail |-> 0]

Shared(views) == {views[k].sh : k \in DOMAIN views}

(* mbuf_free_chain: the last user of a buffer frees it. *)
Release(buf, views) ==
  [b \in Buffers |->
     IF b \notin Shared(views) THEN buf[b]
     ELSE IF buf[b].refcnt = 1 THEN Nothing ELSE [buf[b] EXCEPT !.refcnt = @ - 1]]

Retain(buf, views) ==
  [b \in Buffers |-> IF b \in Shared(views) THEN [buf[b] EXCEPT !.refcnt = @ + 1] ELSE buf[b]]

(* --- operations ---------------------------------------------------------- *)

Runs(o) == mbThreads \/ \A q \in Owners \ {o} : mbWork[q] = MbIdle
Calls(o) == Runs(o) /\ mbWork[o] = MbIdle
Holds(o) == Calls(o) /\ mbPkt[o] # Nothing

MbAlloc(o, size) ==
  /\ Calls(o) /\ mbPkt[o] = Nothing /\ Unused # {}
  /\ mbBuf' = [mbBuf EXCEPT ![NewBuffer] = Fresh(size)]
  /\ mbPkt' = [mbPkt EXCEPT ![o] = [views |-> <<Whole(NewBuffer)>>, len |-> 0]]
  /\ UNCHANGED <<mbWork, mbThreads>>

MbFree(o) ==
  /\ Holds(o)
  /\ mbBuf' = Release(mbBuf, mbPkt[o].views)
  /\ mbPkt' = [mbPkt EXCEPT ![o] = Nothing]
  /\ UNCHANGED <<mbWork, mbThreads>>

(* The owner clones its packet for q.  Memory runs out after k views, or   *)
(* not at all; what was cloned is then freed again.                        *)
MbClone(o, q) ==
  /\ Holds(o) /\ mbPkt[q] = Nothing
  /\ \E k \in 0 .. Len(mbPkt[o].views) :
       LET done == SubSeq(mbPkt[o].views, 1, k)
           raised == Retain(mbBuf, done)
       IN  IF k = Len(mbPkt[o].views)
           THEN mbBuf' = raised /\ mbPkt' = [mbPkt EXCEPT ![q] = mbPkt[o]]
           ELSE mbBuf' = Release(raised, done) /\ UNCHANGED mbPkt
  /\ UNCHANGED <<mbWork, mbThreads>>

MbAppend(o, s) ==
  /\ Holds(o) /\ mbPkt[o].len + Len(s) <= MaxBytes
  /\ mbWork' = [mbWork EXCEPT ![o] = [at |-> "test", rest |-> s]]
  /\ UNCHANGED <<mbBuf, mbPkt, mbThreads>>

(* The count is not looked at. *)
MbTestNever(o) ==
  /\ mbWork[o].at = "test" /\ Runs(o)
  /\ mbWork' = [mbWork EXCEPT ![o].at = "write"]
  /\ UNCHANGED <<mbBuf, mbPkt, mbThreads>>

(* mbuf_ensure_writable loads the count of the last view's buffer. *)
MbTest(o) ==
  /\ mbWork[o].at = "test" /\ Runs(o)
  /\ mbWork' = [mbWork EXCEPT ![o].at =
                  IF mbBuf[MbLast(mbPkt[o].views).sh].refcnt = 1 THEN "write" ELSE "copy"]
  /\ UNCHANGED <<mbBuf, mbPkt, mbThreads>>

(* The old buffer's count is not lowered. *)
MbCopyCounted(o) ==
  LET views == mbPkt[o].views
      old == MbLast(views).sh
  IN  /\ mbWork[o].at = "copy" /\ Runs(o) /\ Unused # {}
      /\ mbBuf' = [mbBuf EXCEPT ![NewBuffer] = [mbBuf[old] EXCEPT !.refcnt = 1]]
      /\ mbPkt' = [mbPkt EXCEPT ![o].views[Len(views)].sh = NewBuffer]
      /\ mbWork' = [mbWork EXCEPT ![o].at = "write"]
      /\ UNCHANGED mbThreads

(* It copies the buffer and gives up the old one, which it never frees. *)
MbCopy(o) ==
  LET views == mbPkt[o].views
      old == MbLast(views).sh
  IN  /\ mbWork[o].at = "copy" /\ Runs(o) /\ Unused # {}
      /\ mbBuf' = [mbBuf EXCEPT ![NewBuffer] = [mbBuf[old] EXCEPT !.refcnt = 1],
                                ![old].refcnt = @ - 1]
      /\ mbPkt' = [mbPkt EXCEPT ![o].views[Len(views)].sh = NewBuffer]
      /\ mbWork' = [mbWork EXCEPT ![o].at = "write"]
      /\ UNCHANGED mbThreads

(* The bytes that fit go behind the tail of the last view. *)
MbWrite(o) ==
  LET views == mbPkt[o].views
      v == MbLast(views)
      rest == mbWork[o].rest
      n == IF Len(rest) < Room(v) THEN Len(rest) ELSE Room(v)
  IN  /\ mbWork[o].at = "write" /\ Runs(o) /\ Room(v) > 0
      /\ mbBuf' = [mbBuf EXCEPT ![v.sh].bytes =
                     [i \in DOMAIN @ |-> IF i \in v.tail + 1 .. v.tail + n THEN rest[i - v.tail] ELSE @[i]]]
      /\ mbPkt' = [mbPkt EXCEPT ![o].views[Len(views)].tail = @ + n, ![o].len = @ + n]
      /\ mbWork' = [mbWork EXCEPT ![o] =
                      IF n = Len(rest) THEN MbIdle
                      ELSE [at |-> "test", rest |-> SubSeq(rest, n + 1, Len(rest))]]
      /\ UNCHANGED mbThreads

(* The last view is full: a fragment is added. *)
MbGrow(o) ==
  /\ mbWork[o].at = "write" /\ Runs(o) /\ Room(MbLast(mbPkt[o].views)) <= 0 /\ Unused # {}
  /\ mbBuf' = [mbBuf EXCEPT ![NewBuffer] = Fresh(FragSize)]
  /\ mbPkt' = [mbPkt EXCEPT ![o].views = Append(@, Whole(NewBuffer))]
  /\ mbWork' = [mbWork EXCEPT ![o].at = "test"]
  /\ UNCHANGED mbThreads

(* Only bytes of the first view can be pulled. *)
MbPull(o, n) ==
  /\ Holds(o) /\ n <= ViewLen(mbPkt[o].views[1])
  /\ mbPkt' = [mbPkt EXCEPT ![o].views[1].data = @ + n, ![o].len = @ - n]
  /\ UNCHANGED <<mbBuf, mbWork, mbThreads>>

(* The view that contains the cut keeps what is before it; the views after *)
(* it are freed.                                                           *)
MbTrim(o, n) ==
  LET views == mbPkt[o].views
      size(k) == Len(Upto(views)[k])
      over == {k \in DOMAIN views : size(k) > n}
      cut == CHOOSE k \in over : \A j \in over : k <= j
      kept == [SubSeq(views, 1, cut) EXCEPT ![cut].tail = views[cut].data + n - size(cut - 1)]
  IN  /\ Holds(o) /\ n < mbPkt[o].len
      /\ mbBuf' = Release(mbBuf, SubSeq(views, cut + 1, Len(views)))
      /\ mbPkt' = [mbPkt EXCEPT ![o] = [views |-> kept, len |-> n]]
      /\ UNCHANGED <<mbWork, mbThreads>>

MbNext ==
  \E o \in Owners :
    \/ \E size \in Sizes : MbAlloc(o, size)
    \/ MbFree(o)
    \/ \E q \in Owners : MbClone(o, q)
    \/ \E s \in Inputs : MbAppend(o, s)
    \/ MbTest(o) \/ MbCopy(o) \/ MbWrite(o) \/ MbGrow(o)
    \/ \E n \in 0 .. MaxBytes : MbPull(o, n) \/ MbTrim(o, n)

MbSpec == MbInit /\ [][MbNext]_mbVars

(* --- reading ------------------------------------------------------------- *)

(* An offset at the end of a view still belongs to it. *)
LocateEnd(views, offset) ==
  LET over == {k \in DOMAIN views : Len(Upto(views)[k]) >= offset}
      k == IF over = {} THEN 0 ELSE CHOOSE k \in over : \A j \in over : k <= j
  IN  [view |-> k, start |-> IF k = 0 THEN 0 ELSE offset - Len(Upto(views)[k - 1])]

(* The view that offset falls into, 0 if none, and the position in it. *)
Locate(views, offset) ==
  LET over == {k \in DOMAIN views : Len(Upto(views)[k]) > offset}
      k == IF over = {} THEN 0 ELSE CHOOSE k \in over : \A j \in over : k <= j
  IN  [view |-> k, start |-> IF k = 0 THEN 0 ELSE offset - Len(Upto(views)[k - 1])]

(* mbuf_copy_bits: the bytes copied, or Nothing for -1. *)
CopyBits(views, offset, len) ==
  LET p == Locate(views, offset)
      from(k) == SubSeq(ViewBytes(views[k]), (IF k = p.view THEN p.start ELSE 0) + 1, ViewLen(views[k]))
      copied[k \in p.view - 1 .. Len(views)] ==
        IF k = p.view - 1 THEN <<>>
        ELSE LET s == copied[k - 1] \o from(k) IN SubSeq(s, 1, IF Len(s) < len THEN Len(s) ELSE len)
  IN  IF p.view = 0 \/ Len(copied[Len(views)]) < len THEN Nothing ELSE copied[Len(views)]

(* mbuf_header_pointer: the bytes at the pointer returned, or Nothing. *)
HeaderPointer(views, offset, len) ==
  LET p == Locate(views, offset)
      v == views[p.view]
  IN  IF p.view = 0 THEN Nothing
      ELSE IF ViewLen(v) - p.start >= len THEN SubSeq(ViewBytes(v), p.start + 1, p.start + len)
           ELSE CopyBits(views, offset, len)

(* --- properties ---------------------------------------------------------- *)

Users(b) ==
  UNION {{o} \X {k \in DOMAIN mbPkt[o].views : mbPkt[o].views[k].sh = b} :
           o \in {o \in Owners : mbPkt[o] # Nothing}}

MbTypeOK ==
  /\ mbThreads \in BOOLEAN
  /\ mbBuf \in [Buffers -> Memory \cup {Nothing}]
  /\ \A b \in Buffers : mbBuf[b] # Nothing => Len(mbBuf[b].bytes) \in Sizes \cup {FragSize}
  /\ mbPkt \in [Owners -> Packet \cup {Nothing}]
  /\ mbWork \in [Owners -> [at : {"idle", "test", "copy", "write"}, rest : Seq(Bytes)]]

(* No view is of a freed buffer, refcnt is the number of views, and without*)
(* concurrency a buffer nobody views is freed (a copy that races with      *)
(* another owner's copy or free leaves a buffer with refcnt 0 behind; see  *)
(* packet.c:67-84 and 39-47).                                              *)
MbCounts ==
  /\ \A o \in Owners : mbPkt[o] # Nothing => \A b \in Shared(mbPkt[o].views) : mbBuf[b] # Nothing
  /\ \A b \in Buffers : mbBuf[b] # Nothing =>
       /\ mbBuf[b].refcnt = Cardinality(Users(b))
       /\ mbBuf[b].refcnt = 0 => mbThreads

(* pkt_len is the length of the packet, and copy_bits and header_pointer   *)
(* return exactly the bytes asked for whenever the packet has them, on one *)
(* view or across several, empty ones included (packet.c:176-232).         *)
MbReadsExact ==
  \A o \in Owners : mbPkt[o] # Nothing =>
    LET views == mbPkt[o].views
        value == Value(views)
    IN  /\ mbPkt[o].len = Len(value)
        /\ \A offset \in 0 .. MaxBytes, len \in 0 .. MaxBytes :
             LET bytes == IF offset < Len(value) /\ offset + len <= Len(value)
                          THEN SubSeq(value, offset + 1, offset + len) ELSE Nothing
             IN  CopyBits(views, offset, len) = bytes /\ HeaderPointer(views, offset, len) = bytes

Strings == INSTANCE ByteStrings WITH
  packet <- [o \in Owners |->
               IF mbPkt[o] = Nothing THEN Nothing ELSE Value(mbPkt[o].views) \o mbWork[o].rest]

(* Copies, clones and fragments do not show: every owner's packet is a     *)
(* string of bytes that only its own calls change, also while several      *)
(* owners append to clones at the same time (packet.c:39-283).             *)
MbPacketsAreValues == Strings!Spec

====
