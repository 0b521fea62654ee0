------------------------------- MODULE PollCycle -----------------------------
(***************************************************************************)
(* One cycle of a collector that polls: Collector.poll_once and            *)
(* build_edges (collector.py) on Linux, platform/win/capture.py and        *)
(* platform/win/runloop.py on Windows, with the monitors of NameMaps       *)
(* beside it.                                                              *)
(*                                                                         *)
(* A poll on Linux reads the flows, the socket tables, the owners of the   *)
(* sockets and the processes one after the other, while connections open   *)
(* and close, listeners come and go and processes exit.                    *)
(*                                                                         *)
(* Abstractions.  Other namespaces are read in one step.  What the store   *)
(* does with the edges is EdgeStore's.                                     *)
(***************************************************************************)
EXTENDS FlowFold, NameMaps

CONSTANTS
  Connections,  \* connections there may be
  Listeners,    \* listening sockets there may be
  Setups,       \* hosts considered: [platform, preferred, tools, root, readable, accounting,
                \*   monitors, changes, conns]
  Nothing       \* no source was read, no quality recorded

ASSUME PollCycleAssumption ==
  /\ IsFiniteSet(Connections)
  /\ \A c \in Connections : /\ c.proto \in {"tcp", "udp"} /\ c.bytes \in Nat \ {0}
                           /\ c.opener \in {"us", "peer", "self", "other"}
  /\ \A s \in Listeners : /\ s.listening
                         /\ DOMAIN s = {"ns", "proto", "lip", "lport", "rip", "rport",
                                        "listening", "owner", "bytes"}
  /\ \A s \in Setups : /\ s.changes \in Nat /\ s.conns \subseteq Connections
                      /\ s.preferred \in Conntrack \cup {"auto", "socket-diag", "sockets"}
                      /\ s.tools.proc \in {"absent", "denied", "works"}
                      /\ s.tools.tool \in {"absent", "failing", "works"}
                      /\ s.tools.diag \in {"refused", "failing", "works"}
                      /\ s.root \in BOOLEAN /\ s.accounting \in BOOLEAN
                      /\ s.monitors \subseteq Monitors

(* The addresses of the host, as its sockets show them, and the ends of a   *)
(* connection as a kernel tells them apart.                                 *)
Own == LocalIps(AllSockets("host", Connections, Listeners))

Tuples(c) == {<<s.ns, s.proto, s.lip, s.lport, s.rip, s.rport>> : s \in Ends(c)}

(* Only the connections of the host with itself have both ends there; those *)
(* considered run over the loopback address.  No two have an end in common. *)
ASSUME TopologyAssumption ==
  \A c \in Connections : c.ns = "host" =>
    /\ c.opener \in {"us", "peer"} => c.local # Wildcard /\ c.peer \notin Own
    /\ c.opener = "self"  => {c.local, c.peer} = {Loopback} /\ c.lport # c.pport
    /\ c.opener = "other" => {c.local, c.peer} \cap Own = {}
    /\ \A d \in Connections \ {c} : Tuples(c) \cap Tuples(d) = {}

VARIABLES
  setup,     \* the host and its configuration
  phase,     \* kernel: each connection is "none", "open", or "ended" but still tracked
  listeners, \* kernel: listening sockets
  exited,    \* kernel: processes that are no more
  counted,   \* kernel: connections with counters
  left,      \* kernel changes left in this cycle
  pc,        \* the step of the cycle
  backend,   \* Collector.capture_backend
  claimed,   \* capture.quality of the host parameters
  readFrom,  \* the source this poll read
  entries,   \* its entries
  sockets,   \* read_all_sockets
  owned,     \* the sockets whose owner was found
  edges,     \* the edges of this poll
  atRead,    \* history: connections tracked when the entries were read
  counting,  \* history: those with counters at that moment
  steady     \* history: connections open since the cycle began

kernel   == <<setup, phase, listeners, exited, counted, left, steady>>
poll     == <<readFrom, entries, sockets, owned, edges, atRead, counting>>
allVars  == <<setup, phase, listeners, exited, counted, left, pc, backend, claimed, readFrom,
              entries, sockets, owned, edges, atRead, counting, steady, nameVars>>

OpenConns == {c \in setup.conns : phase[c] = "open"}
Tracked   == {c \in setup.conns : phase[c] # "none"}
InUse     == {s.owner : s \in listeners \cup UNION {Ends(c) : c \in OpenConns}}
Windows   == setup.platform = "windows"

(* SysctlGuard.apply switches accounting on for the run.  A connection has  *)
(* counters if accounting was on when it was opened.                        *)
Accounting == setup.accounting \/ setup.root

PollTypeOK ==
  /\ NamesTypeOK
  /\ setup \in Setups
  /\ phase \in [Connections -> {"none", "open", "ended"}]
  /\ listeners \subseteq Listeners
  /\ pc \in {"stopped", "sleep", "read", "sockets", "walk", "collect", "edges",
             "drain_dns", "log_dns", "drain_sni", "log_sni"}
  /\ backend \in Conntrack \cup {"socket-diag", "sockets", "iphlp"}
  /\ claimed \in {"exact", "per-socket-tcp", "topology-only", Nothing}
  /\ readFrom \in Conntrack \cup {"socket-diag", "sockets", "iphlp", Nothing}
  /\ owned \subseteq sockets
  /\ \A e \in edges : /\ e.quality \in {"socket-snapshot", "no-accounting", Unlabelled}
                      /\ e.domain \in Names \cup {NoName}
  /\ steady \subseteq Connections /\ atRead \subseteq Connections
  /\ counted \subseteq Connections /\ counting \subseteq atRead

NoPoll ==
  /\ readFrom' = Nothing
  /\ entries' = {} /\ sockets' = {} /\ owned' = {} /\ edges' = {}
  /\ atRead' = {} /\ counting' = {}

PollInit ==
  /\ NamesInit
  /\ setup \in Setups
  /\ phase = [c \in Connections |-> IF c \in setup.conns THEN "open" ELSE "none"]
  /\ listeners = Listeners
  /\ exited = {}
  /\ counted = IF setup.accounting THEN setup.conns ELSE {}
  /\ left = 0
  /\ pc = "stopped"
  /\ backend = "sockets"
  /\ claimed = Nothing
  /\ readFrom = Nothing
  /\ entries = {} /\ sockets = {} /\ owned = {} /\ edges = {}
  /\ atRead = {} /\ counting = {}
  /\ steady = {}

------------------------------------------------------------------------------
(* The host.                                                                *)

Change ==
  /\ left > 0
  /\ left' = left - 1
  /\ UNCHANGED <<setup, pc, backend, claimed, poll, nameVars>>

Open(c) ==
  /\ c \in setup.conns /\ phase[c] = "none"
  /\ {s.owner : s \in Ends(c)} \cap exited = {}
  /\ c.opener = "peer" => \E s \in listeners : s.ns = c.ns /\ s.lport = c.lport
  /\ phase' = [phase EXCEPT ![c] = "open"]
  /\ counted' = IF Accounting THEN counted \cup {c} ELSE counted \ {c}
  /\ Change
  /\ UNCHANGED <<listeners, exited, steady>>

Close(c) ==
  /\ phase[c] = "open"
  /\ phase' = [phase EXCEPT ![c] = "ended"]
  /\ steady' = steady \ {c}
  /\ Change
  /\ UNCHANGED <<listeners, exited, counted>>

Expire(c) ==
  /\ phase[c] = "ended"
  /\ phase' = [phase EXCEPT ![c] = "none"]
  /\ Change
  /\ UNCHANGED <<listeners, exited, counted, steady>>

CloseListener(s) ==
  /\ s \in listeners
  /\ listeners' = listeners \ {s}
  /\ Change
  /\ UNCHANGED <<phase, exited, counted, steady>>

Exit(pid) ==
  /\ pid \notin exited \cup InUse
  /\ exited' = exited \cup {pid}
  /\ Change
  /\ UNCHANGED <<phase, listeners, counted, steady>>

(* Another process gets the pid.                                            *)
Reuse(pid) ==
  /\ pid \in exited
  /\ exited' = exited \ {pid}
  /\ Change
  /\ UNCHANGED <<phase, listeners, counted, steady>>

------------------------------------------------------------------------------
(* The collector.                                                           *)

Goto(step) == pc' = step /\ UNCHANGED <<backend, claimed>>

(* Collector.__init__ asks for the back-end once, and refresh_host_params   *)
(* runs before apply has switched accounting on.                            *)
Start ==
  /\ pc = "stopped"
  /\ backend' = IF Windows THEN "iphlp" ELSE CaptureBackend(setup.preferred, setup.tools)
  /\ claimed' = CaptureQuality(backend', setup.accounting)
  /\ StartMonitors(setup.monitors, Windows)
  /\ pc' = "sleep"
  /\ UNCHANGED <<kernel, poll>>

(* The process ends: killed, stopped, or by an error.                       *)
End ==
  /\ pc' = "stopped"
  /\ claimed' = Nothing
  /\ backend' = "sockets"
  /\ NoPoll
  /\ ForgetNames
  /\ steady' = {}
  /\ left' = 0
  /\ UNCHANGED <<setup, phase, listeners, exited, counted>>

Die == pc # "stopped" /\ End

(* _enforce_disk, then the poll.                                            *)
StartCycle ==
  /\ pc = "sleep"
  /\ Goto("read")
  /\ PruneDnsEvents
  /\ left' = setup.changes
  /\ steady' = OpenConns
  /\ UNCHANGED <<setup, phase, listeners, exited, counted, poll>>

(* Below the floor of free disk: what is read is dropped, and the monitors  *)
(* are not drained.                                                         *)
PausedCycle ==
  /\ pc = "sleep"
  /\ Windows \/ ~ SnapshotDenied(SourceRead(setup.preferred, setup.tools), setup.tools)
  /\ Goto("sleep")
  /\ PruneDnsEvents
  /\ UNCHANGED <<kernel, poll>>

HostSockets == AllSockets("host", OpenConns, listeners)

(* read_conntrack_snapshot.                                                 *)
Read ==
  /\ pc = "read" /\ ~ Windows
  /\ LET source == SourceRead(setup.preferred, setup.tools)
     IN  /\ ~ SnapshotDenied(source, setup.tools)
         /\ readFrom' = source
         /\ entries' = Snapshot(source, setup.tools, Tracked, counted, HostSockets)
  /\ atRead' = Tracked /\ counting' = Tracked \cap counted
  /\ Goto("sockets")
  /\ UNCHANGED <<kernel, sockets, owned, edges, nameVars>>

(* PermissionError: the loop ends.                                          *)
ReadDenied ==
  /\ pc = "read" /\ ~ Windows
  /\ SnapshotDenied(SourceRead(setup.preferred, setup.tools), setup.tools)
  /\ End

ReadSockets ==
  /\ pc = "sockets"
  /\ sockets' = HostSockets
  /\ Goto("walk")
  /\ UNCHANGED <<kernel, readFrom, entries, owned, edges, atRead, counting, nameVars>>

(* build_inode_to_pid.  Without root, or the capabilities elevate-linux     *)
(* grants, the fd directories of other users' processes cannot be read.     *)
MayWalk(pid) == setup.root \/ pid \in setup.readable

WalkProcesses ==
  /\ pc = "walk"
  /\ owned' = {s \in sockets \cap HostSockets : MayWalk(s.owner)}
  /\ Goto("collect")
  /\ UNCHANGED <<kernel, readFrom, entries, sockets, edges, atRead, counting, nameVars>>

(* iphlp.snapshot: TCP connections and listeners with their owners, without *)
(* counters.                                                                *)
TcpTable == {[s EXCEPT !.bytes = 0] : s \in {t \in HostSockets : t.proto = "tcp"}}

(* One table is all there is; connections without a peer are dropped.       *)
ReadWindows ==
  /\ pc = "read" /\ Windows
  /\ sockets' = TcpTable
  /\ owned' = sockets'
  /\ entries' = FromSockets(sockets')
  /\ readFrom' = "iphlp"
  /\ atRead' = Tracked /\ counting' = {}
  /\ Goto("collect")
  /\ UNCHANGED <<kernel, edges, nameVars>>

(* Windows labels all edges alike, and as it has no counters, one way.      *)
Quality(ns, bytes) ==
  IF Windows THEN "socket-snapshot" ELSE DataQuality(backend, ns, Accounting, bytes)

(* collect_processes: those that are gone by now leave the edge without one. *)
Alive(pids) == pids \ exited

(* _edges_from for one namespace.                                           *)
EdgesFrom(ns, ents, socks, own) ==
  LET flows == NormalizeEntries(ents, LocalIps(socks), ListeningPorts(socks))
  IN  {[key     |-> k,
        ns      |-> ns,
        bytes   |-> EdgeBytes(flows, k),
        owners  |-> Alive(Candidates(flows, own, k)),
        quality |-> Quality(ns, EdgeBytes(flows, k)),
        domain  |-> PeerDomain(k.peer)] : k \in {Key(f) : f \in flows}}

Namespaces == {c.ns : c \in Connections} \ {"host"}

(* enumerate_netns: the namespaces of other processes, for root only, from  *)
(* their socket tables.                                                     *)
NamespaceEdges ==
  IF Windows \/ ~ setup.root THEN {}
  ELSE UNION {LET socks == AllSockets(ns, OpenConns, listeners)
              IN  EdgesFrom(ns, FromSockets(socks), socks, socks) : ns \in Namespaces}

BuildEdges ==
  /\ pc = "collect"
  /\ edges' = EdgesFrom("host", entries, sockets, owned) \cup NamespaceEdges
  /\ Goto("edges")
  /\ UNCHANGED <<kernel, readFrom, entries, sockets, owned, atRead, counting, nameVars>>

(* record_edges.                                                            *)
RecordEdges ==
  /\ pc = "edges"
  /\ NoPoll
  /\ Goto("drain_dns")
  /\ UNCHANGED <<kernel, nameVars>>

DrainMonitor(m, step, next) ==
  /\ pc = step
  /\ Drain(m)
  /\ Goto(next)
  /\ UNCHANGED <<kernel, poll>>

LogDns ==
  /\ pc = "log_dns"
  /\ RecordDnsEvents
  /\ Goto("drain_sni")
  /\ UNCHANGED <<kernel, poll>>

(* The end of a cycle; every sixtieth refreshes the host parameters.        *)
LogSni ==
  /\ pc = "log_sni"
  /\ RecordDnsEvents
  /\ pc' = "sleep"
  /\ claimed' \in {claimed, CaptureQuality(backend, Accounting)}
  /\ left' = 0 /\ steady' = {}
  /\ UNCHANGED <<setup, phase, listeners, exited, counted, backend, poll>>

Cycle ==
  \/ StartCycle
  \/ Read \/ ReadDenied \/ ReadWindows
  \/ ReadSockets
  \/ WalkProcesses
  \/ BuildEdges
  \/ RecordEdges
  \/ DrainMonitor("dns", "drain_dns", "log_dns")
  \/ LogDns
  \/ DrainMonitor("sni", "drain_sni", "log_sni")
  \/ LogSni

(* Where no names are asked for, the clock matters to nobody.               *)
PollNext ==
  \/ \E c \in Connections : Open(c) \/ Close(c) \/ Expire(c)
  \/ \E s \in Listeners : CloseListener(s)
  \/ \E pid \in {s.owner : s \in Listeners} \cup {c.pid : c \in setup.conns} :
       Exit(pid) \/ Reuse(pid)
  \/ setup.monitors # {} /\ NamesNext /\ UNCHANGED <<kernel, poll, pc, backend, claimed>>
  \/ Start
  \/ Die
  \/ PausedCycle
  \/ Cycle

(* A collector that runs goes on, and not all its cycles are paused.        *)
PollSpec == PollInit /\ [][PollNext]_allVars /\ WF_allVars(Cycle)

------------------------------------------------------------------------------
(* Properties.                                                              *)

(* The edge a connection belongs to: the service is where the listener is,  *)
(* whoever holds the local end.                                             *)
TrueKey(c) ==
  LET edge(direction, local, peer, service) ==
        [proto |-> c.proto, direction |-> direction, local |-> local, peer |-> peer,
         service |-> service]
  IN  CASE c.opener = "us"   -> edge("outbound", c.local, c.peer, c.pport)
        [] c.opener = "peer" -> edge("inbound", c.local, c.peer, c.lport)
        [] OTHER             -> edge("loopback", c.peer, c.local, c.pport)

(* The process at the end an edge is about.                                 *)
HolderOf(c) == IF c.opener = "self" THEN c.far ELSE c.pid

HostEdges == {e \in edges : e.ns = "host"}
OfEdge(k, conns) == {c \in conns : c.ns = "host" /\ c.opener # "other" /\ TrueKey(c) = k}

(* build_edges folds every connection onto the service that was asked for.  *)
(* Read from conntrack, the edges of the host are exactly those of the      *)
(* connections tracked at that moment whose local address a socket still    *)
(* shows, listener or no listener, with all the bytes that were counted.    *)
(* Read from sockets, no connection is missing that was open all the time   *)
(* and that the host itself opened, but for TCP when sock_diag does not     *)
(* answer; one a peer opened is not found under its service, as a socket    *)
(* has no opener.                                                           *)
KeyedByListeningSide ==
  pc = "edges" =>
    IF readFrom \in Conntrack
    THEN LET seen == {c \in atRead : c.local \in LocalIps(sockets)}
             bytes(c) == IF c \in counting THEN c.bytes ELSE 0
         IN  /\ {e.key : e \in HostEdges}
                  = {TrueKey(c) : c \in {d \in seen : d.ns = "host" /\ d.opener # "other"}}
             /\ \A e \in HostEdges : e.bytes = MapThenSumSet(bytes, OfEdge(e.key, seen))
    ELSE \A c \in steady :
           \/ c.ns # "host" \/ c.opener \notin {"us", "self"}
           \/ c.proto = "tcp" /\ readFrom = "socket-diag" /\ setup.tools.diag # "works"
           \/ c.proto = "udp" /\ Windows
           \/ TrueKey(c) \in {e.key : e \in HostEdges}

(* An edge read from conntrack carries no warning exactly when at least one *)
(* of its connections has counters, that is, was opened with accounting on, *)
(* by this run of the collector, an earlier one, or the host itself.        *)
QualityHonest ==
  pc = "edges" /\ readFrom \in Conntrack =>
    \A e \in HostEdges : e.quality = Unlabelled <=> OfEdge(e.key, atRead) \cap counting # {}

(* The flows, the sockets and their owners are read one after the other.    *)
(* Still, a pid an edge of the host names held that end of a connection of  *)
(* the edge, or listened at its port; and a connection that was open all    *)
(* along and shares its edge with none is given to the process that has it, *)
(* if that may be looked at.  What is told of a pid is of the process that  *)
(* has it when it is looked up, which need not be the one of the socket.    *)
OwnerHeldIt ==
  pc = "edges" =>
    /\ \A e \in HostEdges, pid \in UNION {d.owners : d \in HostEdges} :
         pid \in e.owners \ {NoProcess} =>
           \E s \in Listeners \cup UNION {Ends(c) : c \in setup.conns} :
             /\ s.owner = pid /\ s.proto = e.key.proto
             /\ IF e.key.direction = "outbound"
                THEN <<s.lip, s.rip, s.rport>> = <<e.key.local, e.key.peer, e.key.service>>
                ELSE /\ s.lport = e.key.service
                     /\ s.listening \/ <<s.lip, s.rip>> = <<e.key.local, e.key.peer>>
    /\ readFrom \in Conntrack =>
         \A c \in steady \cap atRead, e \in HostEdges :
           OfEdge(e.key, atRead) = {c} /\ MayWalk(HolderOf(c)) => e.owners = {HolderOf(c)}

(* What a monitor last heard of an address, if that is not too long ago.    *)
LastHeard(m, ip) ==
  LET ids == {i \in (born + 1)..Len(history) : history[i].monitor = m /\ history[i].ip = ip}
  IN  IF ids = {} \/ history[Max(ids)].ts + TTL < clock \/ history[Max(ids)].name = Ech
      THEN NoName
      ELSE history[Max(ids)].name

(* The name an edge gets is, on Linux, the last one the resolver gave out   *)
(* for the address while this process listened and not older than the TTL,  *)
(* or else the last one a ClientHello asked for; on Windows, where old      *)
(* records are read again as new, some name that was given out for it.      *)
NamesFresh ==
  [][BuildEdges => \A e \in edges' :
       IF Windows
       THEN e.domain \in {NoName} \cup {v.name : v \in {w \in ToSet(history) : w.ip = e.key.peer}}
       ELSE e.domain = IF LastHeard("dns", e.key.peer) # NoName
                       THEN LastHeard("dns", e.key.peer)
                       ELSE LastHeard("sni", e.key.peer)]_allVars

Everywhere == buffer["dns"] \o buffer["sni"] \o hand \o log

(* On Linux, where nothing is read twice, an event a monitor received is at *)
(* any time in one place only, a buffer, the collector's hand or the log,   *)
(* unless a full buffer, retention or the end of the process did away with  *)
(* it; and the log has each monitor's events in the order they were seen.   *)
LoggedOnce ==
  ~ Windows =>
    /\ Len(Everywhere) = Cardinality(ToSet(Everywhere))
    /\ ToSet(Everywhere) \cap gone = {}
    /\ ToSet(Everywhere) \cup gone = 1..Len(history)
    /\ \A i, j \in 1..Len(log) :
         i < j /\ history[log[i]].monitor = history[log[j]].monitor => log[i] < log[j]
==============================================================================
