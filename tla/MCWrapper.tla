----------------------------- MODULE MCWrapper -----------------------------
(***************************************************************************)
(* Instances of Wrapper.  The lines are the smallest set with every        *)
(* command: two export names over one file, a delete by number, by file    *)
(* and by name, and a delete that leaves its argument out.                 *)
(***************************************************************************)
EXTENDS Wrapper

CONSTANTS a, b, f, h1, h2, t1, t2, c1, c2

Line(cmd, arg, file, host) == [cmd |-> cmd, arg |-> arg, file |-> file, host |-> host]

AddLines == {Line("add-target", a, f, None), Line("add-proxy", b, f, h1)}
SwitchLines == {Line("bgctl-switch", b, None, None), Line("bgctl-reconnect", b, None, h2)}
DelLines == {Line("del", 1, None, None), Line("del-file", f, None, None), Line("del-exportname", None, None, None)}

AllLines == [t \in Threads |->
  IF t = t1 THEN AddLines \cup SwitchLines
  ELSE DelLines \cup {Line("list", None, None, None), Line("shutdown", None, None, None)}]
Old == {[n \in {b} |-> proxied(f, h1)]}
ProxyLines == [t \in Threads |-> SwitchLines]
=============================================================================
