---------------------------- MODULE DiskService ----------------------------
(***************************************************************************)
(* What xnbd-server --target and --cow-target promise to clients that keep *)
(* out of each other's way (doc/xnbd-server.8.txt: the server does not     *)
(* synchronize them): a request takes effect when it is accepted, a READ   *)
(* returns what was last written, an acknowledged WRITE stays, and only a  *)
(* request that failed leaves its own bytes undefined.                     *)
(***************************************************************************)
EXTENDS NbdRequests

VARIABLES
  content,   \* byte -> the values that a READ of it may return now
  pending,   \* session -> the accepted requests not finished, at most one
  reply      \* session -> the last reply sent on it

vars == <<content, pending, reply>>

FirstReply == [num |-> 0, error |-> FALSE, data |-> NoData]

Init ==
  /\ content = [x \in Bytes |-> {Image(x)}]
  /\ pending = [s \in Sessions |-> <<>>]
  /\ reply = [s \in Sessions |-> FirstReply]

Accept(s) ==
  /\ pending[s] = <<>>
  /\ \E num \in 1 .. MaxReq, r \in Requests :
       /\ content' = Apply(content, r, <<s, num>>)
       /\ pending' = [pending EXCEPT
            ![s] = <<[num |-> num, req |-> r, may |-> MayReturn(content, r)]>>]
  /\ UNCHANGED reply

Reply(s) ==
  /\ pending[s] # <<>>
  /\ reply'[s].num = Head(pending[s]).num /\ ~reply'[s].error
  /\ \A x \in Bytes : reply'[s].data[x] \in Head(pending[s]).may[x]
  /\ reply' = [reply EXCEPT ![s] = reply'[s]]
  /\ pending' = [pending EXCEPT ![s] = <<>>]
  /\ UNCHANGED content

\* Bytes of a WRITE that did not succeed may read as anything.
Undefined(c, r) ==
  [x \in Bytes |-> IF r.iotype = "WRITE" /\ x \in RangeOf(r) THEN DiskValues ELSE c[x]]

\* The request fails: with an error reply, or with the end of the session.
Fail(s) ==
  /\ pending[s] # <<>>
  /\ content' = Undefined(content, Head(pending[s]).req)
  /\ pending' = [pending EXCEPT ![s] = <<>>]
  /\ \/ reply' = [reply EXCEPT ![s] =
          [num |-> Head(pending[s]).num, error |-> TRUE, data |-> NoData]]
     \/ UNCHANGED reply

\* A request outside the disk is refused.
Refuse(s) ==
  /\ pending[s] = <<>>
  /\ \E num \in 1 .. MaxReq :
       reply' = [reply EXCEPT ![s] = [num |-> num, error |-> TRUE, data |-> NoData]]
  /\ UNCHANGED <<content, pending>>

Next == \E s \in Sessions : Accept(s) \/ Reply(s) \/ Fail(s) \/ Refuse(s)

Spec == Init /\ [][Next]_vars

=============================================================================
