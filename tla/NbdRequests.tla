---------------------------- MODULE NbdRequests ----------------------------
(***************************************************************************)
(* The requests clients send and the values of a byte of the disk.  Data   *)
(* is abstracted to where it comes from: the remote disk, a hole of the    *)
(* cache file, or the n-th request of a session.                           *)
(***************************************************************************)
EXTENDS BlockIo, FiniteSets

CONSTANTS
  Sessions,   \* client sessions, over the whole life of the server
  Requests,   \* the requests clients may send
  MaxReq      \* bound on the number of requests a session sends

IoTypes == {"READ", "WRITE", "FLUSH", "TRIM", "CACHE"}

\* Requests that nbd_server_recv_request() lets through: within the disk, and
\* FLUSH with zero offset and length; what it does not let through ends the
\* session.  Other requests of length zero, which clients do not send, are left
\* out.
GoodRequest(r) ==
  /\ r.iofrom + r.iolen <= disksize
  /\ r.iotype = "FLUSH" => r.iofrom = 0 /\ r.iolen = 0
  /\ r.iotype # "FLUSH" => r.iolen > 0

ASSUME SessionsAssumption == IsFiniteSet(Sessions)
ASSUME RequestsAssumption ==
  /\ Requests \subseteq [iotype : IoTypes, iofrom : Nat, iolen : Nat]
  /\ \A r \in Requests : GoodRequest(r)
ASSUME MaxReqAssumption == MaxReq \in Nat

Remote == <<"remote", 0>>
Zero == <<"zero", 0>>
Junk == <<"junk", 0>>
Values == {Remote, Zero, Junk} \cup (Sessions \X (1 .. MaxReq))

\* The same for a server that has the disk image: Image(x) is what the image
\* has at byte x.
Image(x) == <<"image", x>>
DiskValues == {Image(x) : x \in Bytes} \cup {Zero} \cup (Sessions \X (1 .. MaxReq))

\* The data of a reply: Empty where the reply has no byte.
Empty == <<"empty", 0>>
Data == [Bytes -> Values \cup {Empty}]
NoData == [x \in Bytes |-> Empty]

RangeOf(r) == ByteRange(r.iofrom, r.iolen)

\* No reply was sent yet.
NoReply == [num |-> 0, data |-> NoData]

\* The effect on the disk of request r that writes value.
Apply(c, r, value) ==
  [x \in Bytes |->
     IF x \notin RangeOf(r) THEN c[x]
     ELSE CASE r.iotype = "WRITE" -> {value}
            [] r.iotype = "TRIM" -> c[x] \cup {Zero}
            [] OTHER -> c[x]]

\* What the reply to request r may carry.
MayReturn(c, r) ==
  [x \in Bytes |->
     IF r.iotype = "READ" /\ x \in RangeOf(r) THEN c[x] ELSE {Empty}]

=============================================================================
