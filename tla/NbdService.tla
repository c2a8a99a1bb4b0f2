---------------------------- MODULE NbdService ----------------------------
(***************************************************************************)
(* What a client of an xNBD server is promised: every request takes effect *)
(* on the disk at one instant, in the order in which the server accepts    *)
(* requests from all of its clients, and each session gets the replies to  *)
(* its requests in the order in which it sent them.  A READ returns, for   *)
(* every byte, the last value written to it before, or the value of the    *)
(* remote disk; after a TRIM the byte may also read as zero.               *)
(***************************************************************************)
EXTENDS NbdRequests

VARIABLES
  content,   \* byte -> the values that a READ of it may return now
  pending,   \* session -> accepted requests that are not replied yet
  reply      \* session -> the last reply sent on it

vars == <<content, pending, reply>>

Init ==
  /\ content = [x \in Bytes |-> {Remote}]
  /\ pending = [s \in Sessions |-> <<>>]
  /\ reply = [s \in Sessions |-> NoReply]

\* The server accepts a request: it takes effect, and its reply is due.
Accept(s) ==
  \E num \in 1 .. MaxReq, r \in Requests :
    /\ content' = Apply(content, r, <<s, num>>)
    /\ pending' = [pending EXCEPT
         ![s] = Append(@, [num |-> num, may |-> MayReturn(content, r)])]
    /\ UNCHANGED reply

\* The oldest request of the session is replied, with data it may return.
Reply(s) ==
  /\ pending[s] # <<>>
  /\ reply'[s].num = Head(pending[s]).num
  /\ \A x \in Bytes : reply'[s].data[x] \in Head(pending[s]).may[x]
  /\ reply' = [reply EXCEPT ![s] = reply'[s]]
  /\ pending' = [pending EXCEPT ![s] = Tail(@)]
  /\ UNCHANGED content

\* The client is gone: its reply is dropped.
Drop(s) ==
  /\ pending[s] # <<>>
  /\ pending' = [pending EXCEPT ![s] = Tail(@)]
  /\ UNCHANGED <<content, reply>>

\* Every step is one of a session whose requests change.
Next ==
  \E s \in Sessions : pending'[s] # pending[s] /\ (Accept(s) \/ Reply(s) \/ Drop(s))

Spec == Init /\ [][Next]_vars

=============================================================================
