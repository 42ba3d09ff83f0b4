--------------------------- MODULE MCGatewayInvoke ---------------------------
(* Small instances of GatewayInvoke.                                       *)
EXTENDS GatewayInvoke

MCServers == {"pkg", "dir", "remote", "cmd"}
MCTools == {"read", "delete"}

Request(server, tool, oversized) ==
    [server |-> server, tool |-> tool, oversized |-> oversized]
MCRequests ==
    {Request("pkg", "read", FALSE), Request("dir", "delete", FALSE),
     Request("remote", "read", FALSE), Request("cmd", "read", TRUE)}

(* Rules as a user writes them; "*" is the whole set.                      *)
Rule(server, tools) == [object |-> TRUE, server |-> server, tool |-> <<tools>>]
Policy(mode, deny, allow, hosts) ==
    [defect |-> "none", mode |-> mode, deny |-> deny, allow |-> allow, hosts |-> hosts]
Foreign == [Policy(<<>>, {}, {}, <<>>) EXCEPT !.defect = "unknown-schema"]
RuleWithoutTool ==
    Policy(<<>>, {}, {[object |-> TRUE, server |-> <<>>, tool |-> <<>>]}, <<>>)
DenyDelete == Policy(<<"open">>, {Rule(<<>>, {"delete"})}, {Rule(<<MCServers>>, MCTools)}, <<>>)
AllowDirectory == Policy(<<"allowlist">>, {}, {Rule(<<{"dir"}>>, MCTools)}, <<>>)
NarrowHosts == Policy(<<>>, {}, {}, << <<{"trusted.example"}>> >>)
MCPolicyFiles == {Foreign, RuleWithoutTool, DenyDelete, AllowDirectory, NarrowHosts}

(* Targets of a scope: a local server under its package and its directory  *)
(* name, a remote one, one without a supported start form.                 *)
Local == [names |-> {"pkg", "dir"}, kind |-> "stdio", url |-> <<>>]
Remote(scheme, host) ==
    [names |-> {"remote"}, kind |-> "http",
     url |-> <<[scheme |-> scheme, loopback |-> FALSE, host |-> host]>>]
NoStartForm == [names |-> {"cmd", "dir"}, kind |-> "unsupported", url |-> <<>>]
MCScopes ==
    {[error |-> TRUE, targets |-> <<>>],
     [error |-> FALSE, targets |-> <<Local, Remote("https", "trusted.example")>>],
     [error |-> FALSE, targets |-> <<NoStartForm, Remote("http", "plain.example")>>]}
=============================================================================
