------------------------------- MODULE MCSite -------------------------------
EXTENDS Site

H(n, b, f) == [www |-> n, base |-> b, form |-> f]

MCDirs  == {Default, Plain("a"), H(1, "b", "plain")}
MCHosts == {Default, H(1, "default", "plain"), H(1, "b", "plain"), Plain("b")} \cup {H(n, "a", f) : n \in 0 .. 1, f \in {"plain", "upper", "port"}}

Base == [broken |-> FALSE, siteType |-> "", csp |-> "self", proxy |-> "none", dev |-> FALSE,
         admin |-> FALSE, list |-> <<>>, pprof |-> FALSE, queue |-> FALSE, ratelimit |-> FALSE]
List == [ip \in {"friend", "foe"} |-> ip = "friend"]

MCOverrides ==
  [d \in MCDirs |->
     IF d = Default THEN {Base, [Base EXCEPT !.siteType = "weak"], [Base EXCEPT !.broken = TRUE]}
     ELSE IF d = Plain("a")
     THEN {[Base EXCEPT !.csp = "a"], [Base EXCEPT !.broken = TRUE], [Base EXCEPT !.pprof = TRUE],
           [Base EXCEPT !.dev = TRUE, !.list = List, !.queue = TRUE, !.pprof = TRUE, !.siteType = "indexphp"],
           [Base EXCEPT !.dev = TRUE, !.list = List, !.admin = TRUE, !.ratelimit = TRUE, !.csp = "a"],
           [Base EXCEPT !.dev = TRUE, !.admin = TRUE, !.proxy = "http", !.csp = "a"]}
     ELSE {[Base EXCEPT !.siteType = "weak"], [Base EXCEPT !.proxy = "bad"]}]

MCClients == {[ip |-> i, creds |-> c] : i \in {"friend", "foe", "other"}, c \in {"wrong", "right"}}
=============================================================================
