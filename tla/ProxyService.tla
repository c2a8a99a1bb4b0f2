---------------------------- MODULE ProxyService ----------------------------
(***************************************************************************)
(* The proxy seen from both sides: for its clients its pipeline implements *)
(* NbdService, and it reads the replies of the remote server in step.      *)
(***************************************************************************)
EXTENDS Proxy, SequencesExt

\* The proxy_privs of session s in the queue q that are requests.
RequestsIn(q, s) == SelectSeq(q, LAMBDA p : p.kind = "io" /\ p.ses = s)

\* All requests of s that were accepted and not replied, oldest first.
InFlight(s) ==
  RequestsIn(tx_queue[s] \o InHand(frx) \o fwd_rx_queue \o InHand(ftx)
             \o fwd_tx_queue, s)

Pending ==
  [s \in Sessions |->
     LET q == InFlight(s)
     IN  [k \in DOMAIN q |-> [num |-> q[k].num, may |-> q[k].may]]]

Nbd == INSTANCE NbdService WITH pending <- Pending

\* The proxy behaves as one disk that serves the requests of all sessions one
\* after the other: in the order of fwd_tx_queue, each READ sees the WRITEs
\* before it, and a session gets its replies in order.
SerialDisk == Nbd!Spec

\* Replies carry no request number the proxy could match (the handle is the
\* same for all): as long as no receive failed, the replies still due are
\* those of the requests in fwd_rx_queue, in order.
WireInStep ==
  ~receiving_failed /\ conn = "up" =>
    wire = SubSeq(RemoteReads(frx.priv), frx.i, Len(RemoteReads(frx.priv)))
           \o FlattenSeq([k \in DOMAIN fwd_rx_queue |->
                            RemoteReads(fwd_rx_queue[k])])
           \o SubSeq(RemoteReads(ftx.priv), 1, ftx.i - 1)

=============================================================================
