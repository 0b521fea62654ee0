------------------------------ MODULE MCPollCycle ----------------------------
(* TLC instances of PollCycle.                                              *)
EXTENDS PollCycle

Conn(ns, proto, opener, local, lport, peer, pport, pid, far, bytes) ==
  [ns |-> ns, proto |-> proto, opener |-> opener, local |-> local, lport |-> lport,
   peer |-> peer, pport |-> pport, pid |-> pid, far |-> far, bytes |-> bytes]

Curl    == Conn("host", "tcp", "us", "me", 50001, "srv", 443, "curl", "", 1)
Wget    == Conn("host", "tcp", "us", "me", 50002, "srv", 443, "wget", "", 2)
Login   == Conn("host", "tcp", "peer", "me", 443, "cli", 40001, "httpd", "", 1)
Local   == Conn("host", "tcp", "self", Loopback, 50003, Loopback, 443, "curl", "httpd", 1)
Query   == Conn("host", "udp", "us", "me", 50004, "srv", 53, "resolver", "", 1)
Routed  == Conn("host", "tcp", "other", "box1", 50005, "srv", 443, "", "", 1)
InBox   == Conn("box", "tcp", "us", "box1", 50005, "srv", 443, "app", "", 1)

Httpd == [ns |-> "host", proto |-> "tcp", lip |-> Wildcard, lport |-> 443, rip |-> Wildcard,
          rport |-> 0, listening |-> TRUE, owner |-> "httpd", bytes |-> 0]

MCConnections == {Curl, Wget, Login, Local, Query, Routed, InBox}
MCListeners   == {Httpd}

Tools(proc, tool, diag) == [proc |-> proc, tool |-> tool, diag |-> diag]

Setup(platform, preferred, tools, root, readable, accounting, monitors, changes, conns) ==
  [platform |-> platform, preferred |-> preferred, tools |-> tools, root |-> root,
   readable |-> readable, accounting |-> accounting, monitors |-> monitors, changes |-> changes,
   conns |-> conns]

Sources == {"auto", "procfs", "conntrack-list", "socket-diag", "sockets"}

(* Every combination of back-ends, with one connection and no change. *)
Backends ==
  {Setup("linux", p, Tools(f, t, d), f = "works", {"curl"}, a, {}, 0, {Curl}) :
     p \in Sources, f \in {"absent", "denied", "works"}, t \in {"absent", "failing", "works"},
     d \in {"refused", "failing", "works"}, a \in BOOLEAN}

Linux(source, root, readable, changes, conns) ==
  Setup("linux", source, Tools("works", "absent", "works"), root, readable, FALSE, {}, changes,
        conns)

(* One back-end of each kind, and connections that come and go meanwhile. *)
Changing ==
  LET changing(changes, groups) ==
        {Linux(p, TRUE, {}, changes, conns) :
           p \in {"procfs", "socket-diag", "sockets"}, conns \in groups}
        \cup {Setup("windows", "auto", Tools("absent", "absent", "refused"), TRUE, {}, FALSE, {},
                    changes, conns) : conns \in groups}
  IN  changing(2, {{Curl, Wget}, {Login, Local}})
        \cup changing(1, {{Query, InBox}, {Login, Routed}})

(* The service account, elevated or not; and a pid that is used again. *)
Accounts ==
  {Linux("procfs", FALSE, readable, 1, {Curl, Wget}) : readable \in {{"curl"}, {"curl", "wget"}}}
    \cup {Linux("procfs", TRUE, {}, 3, {Curl})}

(* No change but in what the monitors hear, one or both. *)
Quiet(platform, monitors) ==
  Setup(platform, "auto", Tools("works", "absent", "works"), TRUE, {}, TRUE, monitors, 0, {Curl})

Naming == {Quiet("linux", {"dns", "sni"}), Quiet("windows", {"dns"})}

MCSetups == Backends \cup Changing \cup Accounts \cup Naming
==============================================================================
