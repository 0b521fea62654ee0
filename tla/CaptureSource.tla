---------------------------- MODULE CaptureSource ----------------------------
(***************************************************************************)
(* Where a poll gets its flows from: the back-ends of conntrack.py, with   *)
(* sockdiag.py, sockets.py and platform/win/iphlp.py, which one is named   *)
(* in the data and which one is read, and what each yields of the same     *)
(* connections.                                                            *)
(*                                                                         *)
(* A connection is a record: its network namespace, protocol, who opened   *)
(* it ("us", "peer"; "self" when both ends are on the host; "other" when   *)
(* it is only forwarded), the addresses and ports of both ends, the        *)
(* process that owns the local end (and for "self" the far end), and the   *)
(* bytes it has carried.  Tokens, hexadecimal tables and netlink messages  *)
(* are read as the records they stand for; packets are read like bytes.    *)
(***************************************************************************)
EXTENDS Naturals, SequencesExt

Wildcard == "0.0.0.0"

------------------------------------------------------------------------------
(* The tools of a host: tools.proc is /proc/net/nf_conntrack ("absent",     *)
(* "denied", "works"), tools.tool the conntrack command ("absent",          *)
(* "failing", "works"), tools.diag the sock_diag interface ("refused",      *)
(* "failing" for one that answered the probe and nothing after, "works").   *)

Available(tools) ==
  {"sockets"} \cup (IF tools.proc # "absent"  THEN {"procfs"} ELSE {})
              \cup (IF tools.tool # "absent"  THEN {"conntrack-list"} ELSE {})
              \cup (IF tools.diag # "refused" THEN {"socket-diag"} ELSE {})

(* What answers when it is read.  read_tcp_diag swallows every OSError, so  *)
(* sock_diag always does.                                                   *)
Answering(tools) ==
  {"sockets", "socket-diag"} \cup (IF tools.proc # "absent" THEN {"procfs"} ELSE {})
                             \cup (IF tools.tool = "works"  THEN {"conntrack-list"} ELSE {})

FirstOf(order, set) == order[SelectInSeq(order, LAMBDA b : b \in set)]

ResolveSource(preferred, tools) ==
  IF preferred = "auto"
  THEN FirstOf(<<"procfs", "conntrack-list", "socket-diag", "sockets">>, Available(tools))
  ELSE preferred

(* The back-ends capture_backend goes through for its label, and those      *)
(* read_conntrack_snapshot goes through for the flows.                      *)
Labels(effective) ==
  CASE effective = "procfs" -> <<"procfs", "conntrack-list", "socket-diag", "sockets">>
    [] effective = "conntrack-list" -> <<"conntrack-list", "procfs", "socket-diag", "sockets">>
    [] effective = "socket-diag" -> <<"socket-diag", "sockets">>
    [] effective = "sockets" -> <<"sockets">>

Readers(effective) ==
  CASE effective = "procfs" -> <<"procfs", "conntrack-list", "sockets">>
    [] effective = "conntrack-list" -> <<"conntrack-list", "procfs", "sockets">>
    [] effective = "socket-diag" -> <<"socket-diag", "sockets">>
    [] effective = "sockets" -> <<"sockets">>

CaptureBackend(preferred, tools) ==
  FirstOf(Labels(ResolveSource(preferred, tools)), Available(tools))

SourceRead(preferred, tools) ==
  FirstOf(Readers(ResolveSource(preferred, tools)), Answering(tools))

Conntrack == {"procfs", "conntrack-list"}

CaptureQuality(backend, accounting) ==
  CASE backend \in Conntrack -> IF accounting THEN "exact" ELSE "topology-only"
    [] backend = "socket-diag" -> "per-socket-tcp"
    [] OTHER -> "topology-only"

------------------------------------------------------------------------------
(* The tables.                                                              *)

(* A socket; its inode leads to the process that owns it.                   *)
Socket(c, lip, lport, rip, rport, owner) ==
  [ns |-> c.ns, proto |-> c.proto, lip |-> lip, lport |-> lport, rip |-> rip,
   rport |-> rport, listening |-> FALSE, owner |-> owner, bytes |-> c.bytes]

Ends(c) ==
  CASE c.opener = "other" -> {}
    [] c.opener = "self" -> {Socket(c, c.local, c.lport, c.peer, c.pport, c.pid),
                             Socket(c, c.peer, c.pport, c.local, c.lport, c.far)}
    [] OTHER -> {Socket(c, c.local, c.lport, c.peer, c.pport, c.pid)}

(* parse_proc_net over the four tables of a namespace.                      *)
AllSockets(ns, conns, listeners) ==
  {s \in listeners \cup UNION {Ends(c) : c \in conns} : s.ns = ns}

(* A conntrack row: the first src= and dst= are the opener's view, counters *)
(* add up both directions; only the connections in counted have any.        *)
ConntrackEntry(c, counted) ==
  LET bytes == IF c \in counted THEN c.bytes ELSE 0
  IN  IF c.opener = "peer"
      THEN [proto |-> c.proto, src |-> c.peer, sport |-> c.pport,
            dst |-> c.local, dport |-> c.lport, bytes |-> bytes]
      ELSE [proto |-> c.proto, src |-> c.local, sport |-> c.lport,
            dst |-> c.peer, dport |-> c.pport, bytes |-> bytes]

FromConntrack(conns, counted) ==
  {ConntrackEntry(c, counted) : c \in {d \in conns : d.ns = "host"}}

(* A socket knows no opener: its own end is taken for the source.           *)
SocketEntry(s, bytes) ==
  [proto |-> s.proto, src |-> s.lip, sport |-> s.lport,
   dst |-> s.rip, dport |-> s.rport, bytes |-> bytes]

FromSockets(sockets) == {SocketEntry(s, 0) : s \in {t \in sockets : ~ t.listening}}

FromSockDiag(sockets, answers) ==
  {SocketEntry(s, s.bytes) : s \in {t \in sockets : answers /\ t.proto = "tcp" /\ ~ t.listening}}
    \cup FromSockets({s \in sockets : s.proto = "udp"})

(* read_conntrack_snapshot, where it does not raise.                        *)
Snapshot(source, tools, tracked, counted, sockets) ==
  CASE source \in Conntrack -> FromConntrack(tracked, counted)
    [] source = "socket-diag" -> FromSockDiag(sockets, tools.diag = "works")
    [] OTHER -> FromSockets(sockets)

(* /proc/net/nf_conntrack is for root only; nothing is tried in its place.  *)
SnapshotDenied(source, tools) == source = "procfs" /\ tools.proc = "denied"
==============================================================================
