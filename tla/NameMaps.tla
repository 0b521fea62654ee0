------------------------------- MODULE NameMaps ------------------------------
(***************************************************************************)
(* The DNS and SNI monitors (dns.py, sni.py, platform/win/winetw.py,       *)
(* platform/win/winsni.py) and the log they feed (dns_events in store.py). *)
(*                                                                         *)
(* A monitor thread turns what it sees into events: each goes into a       *)
(* bounded buffer, which the collector drains into the log, and into a map *)
(* from addresses to names, which the collector looks peers up in.  On     *)
(* Linux the DNS monitor is sent every answer of the resolver while it is  *)
(* connected; on Windows it reads the newest records of an event channel   *)
(* again at every poll of its own.                                         *)
(*                                                                         *)
(* An event is known by its number in the history of all events.  Varlink  *)
(* messages, frames and ClientHellos are the names and addresses in them.  *)
(***************************************************************************)
EXTENDS Naturals, SequencesExt, FiniteSetsExt

CONSTANTS
  Names,       \* names that are asked for
  Addresses,   \* addresses they resolve to
  Ech,         \* "<ech>": the ClientHello hides its name
  NoName,      \* there is no name for the address
  TTL,         \* _MAP_TTL
  MaxBuffer,   \* max_buffer
  MaxNames,    \* the size from which a map is cleaned of old entries
  Batch,       \* records read from the channel at a time
  Retention,   \* retention_days; 0 disables retention
  MaxTime,     \* bound on the clock
  MaxEvents,   \* bound on the events
  MaxLog       \* bound on the log, which the channel's records fill again and again

ASSUME NameMapsAssumption ==
  /\ {TTL, MaxBuffer, MaxNames, Batch, Retention, MaxTime, MaxEvents, MaxLog} \subseteq Nat
  /\ Ech \notin Names /\ NoName \notin Names \cup {Ech}

Monitors == {"dns", "sni"}

VARIABLES
  clock,     \* wall clock
  link,      \* what each monitor's thread is doing
  names,     \* _ip_names of each
  buffer,    \* _events of each
  hand,      \* what was drained and is not in the log yet
  log,       \* dns_events
  history,   \* history: all events
  born,      \* history: how many of them are older than the process
  gone       \* history: events that are in no buffer and no log any more

threads  == <<link, names, buffer>>
nameVars == <<clock, link, names, buffer, hand, log, history, born, gone>>

Id == 1..MaxEvents

NamesTypeOK ==
  /\ clock \in 0..MaxTime
  /\ link \in [Monitors -> {"off", "down", "up", "refused", "polling"}]
  /\ \A m \in Monitors :
       /\ DOMAIN names[m] \subseteq Addresses
       /\ \A ip \in DOMAIN names[m] : names[m][ip].name \in Names \cup {Ech}
       /\ Len(buffer[m]) <= MaxBuffer /\ ToSet(buffer[m]) \subseteq Id
  /\ ToSet(hand) \cup ToSet(log) \cup gone \subseteq Id
  /\ Len(history) <= MaxEvents

NoMap == [ip \in {} |-> NoName]

NamesInit ==
  /\ clock = 0
  /\ link = [m \in Monitors |-> "off"]
  /\ names = [m \in Monitors |-> NoMap]
  /\ buffer = [m \in Monitors |-> <<>>]
  /\ hand = <<>> /\ log = <<>> /\ history = <<>>
  /\ born = 0
  /\ gone = {}

Tick ==
  /\ clock < MaxTime
  /\ clock' = clock + 1
  /\ UNCHANGED <<threads, hand, log, history, born, gone>>

(* What of a sequence is in a set, in its order.                            *)
Keeping(ids, kept) ==
  FoldLeft(LAMBDA s, i : IF i \in kept THEN Append(s, i) ELSE s, <<>>, ids)

------------------------------------------------------------------------------
(* The threads.                                                             *)

(* run and _run_once of the resolver's: a connection is made, and made      *)
(* again when it ends, until the subscription is refused for good.          *)
Connect ==
  /\ link["dns"] = "down"
  /\ link' = [link EXCEPT !["dns"] = "up"]
  /\ UNCHANGED <<clock, names, buffer, hand, log, history, born, gone>>

Disconnect ==
  /\ link["dns"] = "up"
  /\ link' \in {[link EXCEPT !["dns"] = "down"], [link EXCEPT !["dns"] = "refused"]}
  /\ UNCHANGED <<clock, names, buffer, hand, log, history, born, gone>>

(* The newest entry of an address counts.                                   *)
Put(map, ip, name, ts) ==
  [a \in DOMAIN map \cup {ip} |-> IF a = ip THEN [name |-> name, ts |-> ts] ELSE map[a]]

(* Mutant: an address keeps the first name it had.                          *)
RememberFirst(map, ip, name, ts) == IF ip \in DOMAIN map THEN map ELSE Put(map, ip, name, ts)

(* A map that is too large loses its old entries, and only those.           *)
Remember(map, ip, name, ts) ==
  LET all == Put(map, ip, name, ts)
  IN  IF Cardinality(DOMAIN all) > MaxNames
      THEN [a \in {b \in DOMAIN all : all[b].ts + TTL >= clock} |-> all[a]]
      ELSE all

(* Mutant: one more than fits.                                              *)
BufferOneMore(ids, id) == IF Len(ids) <= MaxBuffer THEN Append(ids, id) ELSE ids

(* A full buffer takes no more events.                                      *)
Buffered(ids, id) == IF Len(ids) < MaxBuffer THEN Append(ids, id) ELSE ids

Event(m, name, ip) == [monitor |-> m, name |-> name, ip |-> ip, ts |-> clock]

(* _record: an event goes into the buffer and into the map.                 *)
Receive(m, name, ip) ==
  /\ link[m] = "up"
  /\ Len(history) < MaxEvents
  /\ history' = Append(history, Event(m, name, ip))
  /\ buffer' = [buffer EXCEPT ![m] = Buffered(@, Len(history'))]
  /\ gone' = gone \cup ({Len(history')} \ ToSet(buffer'[m]))
  /\ names' = [names EXCEPT ![m] = Remember(@, ip, name, clock)]
  /\ UNCHANGED <<clock, link, hand, log, born>>

(* An answer of the resolver, as _handle_message and parse_query_result     *)
(* read it.                                                                 *)
HandleMessage == \E name \in Names, ip \in Addresses : Receive("dns", name, ip)

(* parse_client_hello: a name that is shown counts, encrypted or not what   *)
(* follows; a ClientHello with neither is no event.                         *)
ParseClientHello(sni, ech) ==
  IF sni # NoName THEN {sni} ELSE IF ech THEN {Ech} ELSE {}

CaptureFrame ==
  \E sni \in Names \cup {NoName}, ech \in BOOLEAN, ip \in Addresses :
    \E name \in ParseClientHello(sni, ech) : Receive("sni", name, ip)

(* Windows: a record in the channel.                                        *)
Channel(name, ip) ==
  /\ link["dns"] = "polling"
  /\ Len(history) < MaxEvents
  /\ history' = Append(history, Event("dns", name, ip))
  /\ UNCHANGED <<clock, threads, hand, log, born, gone>>

Newest == Keeping([n \in 1..Len(history) |-> Len(history) + 1 - n],
                  {i \in 1..Len(history) : history[i].monitor = "dns" /\ i + Batch > Len(history)})

(* _poll: the newest records, newest first, each as if it were of now; the  *)
(* oldest record of an address is the last one put.                         *)
PollChannel ==
  /\ link["dns"] = "polling"
  /\ Newest # <<>>
  /\ Len(log) + Len(hand) + Len(buffer["dns"]) < MaxLog
  /\ buffer' = [buffer EXCEPT !["dns"] = FoldLeft(Buffered, @, Newest)]
  /\ names' = [names EXCEPT !["dns"] =
       FoldLeft(LAMBDA map, i : Put(map, history[i].ip, history[i].name, clock), @, Newest)]
  /\ UNCHANGED <<clock, link, hand, log, history, born, gone>>

------------------------------------------------------------------------------
(* What the collector does with them.                                       *)

Lookup(m, ip) ==
  IF /\ ip \in DOMAIN names[m]
     /\ clock <= names[m][ip].ts + TTL
     /\ names[m][ip].name # Ech
  THEN names[m][ip].name
  ELSE NoName

PeerDomain(ip) ==
  IF Lookup("dns", ip) # NoName THEN Lookup("dns", ip) ELSE Lookup("sni", ip)

(* Mutants: the buffer is only emptied when its events are in the log; a    *)
(* monitor that has given up is not asked any more.                         *)
DrainLeaving(m) ==
  /\ hand' = buffer[m]
  /\ UNCHANGED <<clock, threads, log, history, born, gone>>
DrainLive(m) ==
  /\ hand' = IF link[m] = "refused" THEN <<>> ELSE buffer[m]
  /\ buffer' = IF link[m] = "refused" THEN buffer ELSE [buffer EXCEPT ![m] = <<>>]
  /\ UNCHANGED <<clock, link, names, log, history, born, gone>>

Drain(m) ==
  /\ hand' = buffer[m]
  /\ buffer' = [buffer EXCEPT ![m] = <<>>]
  /\ UNCHANGED <<clock, link, names, log, history, born, gone>>

(* record_dns_events, one transaction.                                      *)
RecordDnsEvents ==
  /\ log' = log \o hand
  /\ hand' = <<>>
  /\ UNCHANGED <<clock, threads, history, born, gone>>

(* prune_dns_events_older_than.                                             *)
PruneDnsEvents ==
  /\ log' = Keeping(log, {i \in 1..Len(history) :
                          Retention = 0 \/ history[i].ts + Retention >= clock})
  /\ gone' = gone \cup (ToSet(log) \ ToSet(log'))
  /\ UNCHANGED <<clock, threads, hand, history, born>>

(* The process ends, in order or not: nobody drains the buffers.            *)
ForgetNames ==
  /\ gone' = gone \cup ToSet(hand) \cup UNION {ToSet(buffer[m]) : m \in Monitors}
  /\ link' = [m \in Monitors |-> "off"]
  /\ names' = [m \in Monitors |-> NoMap]
  /\ buffer' = [m \in Monitors |-> <<>>]
  /\ hand' = <<>>
  /\ UNCHANGED <<clock, log, history, born>>

(* The monitors the configuration asks for and the host has are started; a  *)
(* raw socket is there at once or never.                                    *)
StartMonitors(wanted, windows) ==
  /\ \E sni \in {"up", "refused"} :
       link' = [m \in Monitors |-> CASE m \notin wanted -> "off"
                                     [] m = "sni" -> sni
                                     [] OTHER -> IF windows THEN "polling" ELSE "down"]
  /\ born' = Len(history)
  /\ UNCHANGED <<clock, names, buffer, hand, log, history, gone>>

NamesNext ==
  \/ Tick
  \/ Connect \/ Disconnect
  \/ HandleMessage
  \/ CaptureFrame
  \/ \E name \in Names, ip \in Addresses : Channel(name, ip)
  \/ PollChannel

------------------------------------------------------------------------------
(* Properties.                                                              *)

(* Every buffered event comes into the log, unless it goes with the process *)
(* or, there, with retention.                                               *)
EventuallyLogged ==
  \A id \in Id : id \in UNION {ToSet(buffer[m]) : m \in Monitors}
                   ~> id \in ToSet(log) \cup gone
==============================================================================
