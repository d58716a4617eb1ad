---------------------------- MODULE MCMcpServer ----------------------------
(* Two connections, one session.                                            *)
EXTENDS McpServer

Ping == [tool |-> "ping", session |-> "none"]
Initialize == [tool |-> "initialize", session |-> "none"]
Create == [tool |-> "create", session |-> "none"]
Run == [tool |-> "run", session |-> "s1"]
Close == [tool |-> "close", session |-> "s1"]

Plain(kind) == [kind |-> kind, calls |-> <<>>, close |-> FALSE]
Single(call) == [kind |-> "single", calls |-> <<call>>, close |-> FALSE]
Batch(calls) == [kind |-> "batch", calls |-> calls, close |-> FALSE]

MCRequests ==
  { Plain("malformed"), Plain("refused"), Single(Run),
    [Plain("plain") EXCEPT !.close = TRUE],
    Batch(<<Create, Run, Initialize, Ping, Close>>) }
=============================================================================
