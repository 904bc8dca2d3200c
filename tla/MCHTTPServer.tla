---------------------------- MODULE MCHTTPServer ----------------------------
EXTENDS HTTPServer

\* An address, and an entry that net.ParseCIDR and net.ParseIP both refuse.
CoversOf == [e \in Entry |-> IF e = "ip" THEN {"a1"} ELSE {}]

\* The second client's own address is one that net.ParseIP refuses.
FromOf == [r \in Request |-> IF r = "r1" THEN "a1" ELSE "unparsable"]
=============================================================================
