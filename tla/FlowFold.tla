------------------------------- MODULE FlowFold ------------------------------
(***************************************************************************)
(* From the entries of one namespace to its edges: flows.py and            *)
(* Collector._edges_from (collector.py), which platform/win/capture.py     *)
(* repeats for Windows.  An entry is folded onto the service port, the     *)
(* flows of an edge are added up, and the edge gets a process.             *)
(***************************************************************************)
EXTENDS CaptureSource, FiniteSetsExt

CONSTANTS
  Internal,   \* addresses in internal_cidrs
  NoProcess,  \* no process was found
  Unlabelled  \* data_quality is None: the counters are to be trusted

ASSUME FlowFoldAssumption == Unlabelled \notin {"socket-snapshot", "no-accounting"}

Loopback == "127.0.0.1"

Classify(ip) ==
  CASE ip = Loopback -> "loopback" [] ip \in Internal -> "internal" [] OTHER -> "external"

LocalIps(sockets) == {Loopback} \cup ({s.lip : s \in sockets} \ {Wildcard})

ListeningPorts(sockets) == {s.lport : s \in {t \in sockets : t.listening}}

Flow(e, direction, local, lport, peer, pport, service) ==
  [proto |-> e.proto, direction |-> direction, local |-> local, lport |-> lport,
   peer |-> peer, pport |-> pport, service |-> service, bytes |-> e.bytes]

LoopbackFlow(e) == Flow(e, "loopback", e.dst, e.dport, e.src, e.sport, e.dport)
InboundFlow(e)  == Flow(e, "inbound", e.dst, e.dport, e.src, e.sport, e.dport)
OutboundFlow(e) == Flow(e, "outbound", e.src, e.sport, e.dst, e.dport, e.dport)

(* Mutant: a local destination that nobody listens at any more is foreign.  *)
NormalizeListening(e, ips, listening) ==
  IF {e.src, e.dst} \subseteq ips /\ Loopback \in {e.src, e.dst} THEN {LoopbackFlow(e)}
  ELSE IF e.dst \in ips /\ e.dport \in listening THEN {InboundFlow(e)}
  ELSE IF e.src \in ips THEN {OutboundFlow(e)}
  ELSE {}

(* normalize_entry: at most one flow.  local_ips is never empty, so the     *)
(* branches for hosts without known addresses are never taken.              *)
NormalizeEntry(e, ips, listening) ==
  IF {e.src, e.dst} \subseteq ips /\ Loopback \in {e.src, e.dst} THEN {LoopbackFlow(e)}
  ELSE IF e.dst \in ips /\ e.dport \in listening THEN {InboundFlow(e)}
  ELSE IF e.src \in ips THEN {OutboundFlow(e)}
  ELSE IF e.dst \in ips THEN {InboundFlow(e)}
  ELSE {}

NormalizeEntries(entries, ips, listening) ==
  UNION {NormalizeEntry(e, ips, listening) : e \in entries}

Key(f) ==
  [proto |-> f.proto, direction |-> f.direction, local |-> f.local, peer |-> f.peer,
   service |-> f.service]

------------------------------------------------------------------------------
(* _socket_indexes and _resolve_pid.  owned are the sockets whose process   *)
(* the walk over /proc/<pid>/fd found.                                      *)

Established(f, owned) ==
  {s.owner : s \in {t \in owned : /\ ~ t.listening /\ t.proto = f.proto
                                  /\ t.lip = f.local /\ t.lport = f.lport
                                  /\ t.rip = f.peer /\ t.rport = f.pport}}

Listening(f, owned) ==
  {s.owner : s \in {t \in owned : t.listening /\ t.proto = f.proto /\ t.lport = f.service}}

(* Mutant: an outbound flow, too, falls back to who listens at its port.    *)
ResolveListener(f, owned) ==
  IF Established(f, owned) # {} THEN Established(f, owned) ELSE Listening(f, owned)

(* The candidates: two listeners of a port are told apart by nothing.       *)
ResolvePid(f, owned) ==
  IF Established(f, owned) # {} \/ f.direction = "outbound"
  THEN Established(f, owned)
  ELSE Listening(f, owned)

------------------------------------------------------------------------------
FlowsOf(flows, k) == {f \in flows : Key(f) = k}

(* An edge takes the process of the first flow that has one; in which order *)
(* the kernel lists them is its business.                                   *)
Candidates(flows, owned, k) ==
  LET pids == UNION {ResolvePid(f, owned) : f \in FlowsOf(flows, k)}
  IN  IF pids = {} THEN {NoProcess} ELSE pids

EdgeBytes(flows, k) == MapThenSumSet(LAMBDA f : f.bytes, FlowsOf(flows, k))

(* Mutant: where accounting is on, all counters are taken for good.         *)
QualityByAccounting(backend, ns, accounting, bytes) ==
  CASE backend = "sockets" \/ ns # "host" -> "socket-snapshot"
    [] backend = "socket-diag" -> Unlabelled
    [] OTHER -> IF accounting THEN Unlabelled ELSE "no-accounting"

DataQuality(backend, ns, accounting, bytes) ==
  CASE backend = "sockets" \/ ns # "host" -> "socket-snapshot"
    [] backend = "socket-diag" -> Unlabelled
    [] OTHER -> IF accounting /\ bytes > 0 THEN Unlabelled ELSE "no-accounting"
==============================================================================
