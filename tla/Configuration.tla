--------------------------- MODULE Configuration ---------------------------
(***************************************************************************)
(* What the two programs accept as their configuration                     *)
(* (crates/dlep-daemon/src/config.rs, cli.rs and tls.rs), and how a        *)
(* configuration names the link discovery works on                         *)
(* (crates/dlep-net/src/addr.rs).                                          *)
(*                                                                         *)
(* A configuration is a record of what the checks look at.  A host is what *)
(* they look it up in: the addresses of its interfaces, and what its files *)
(* hold ("certs", "key", "otherKey": a key of another certificate,         *)
(* "program", or anything else).                                           *)
(***************************************************************************)
EXTENDS Naturals

CONSTANTS
  Absent,     \* an option that is not given
  Failed,     \* the result of a lookup that fails
  MaxPermits  \* Semaphore::MAX_PERMITS

ASSUME ConfigurationConstants == Absent # Failed /\ MaxPermits \in Nat

-----------------------------------------------------------------------------
(* The values: timers, limits, metrics, the adapter's section.              *)

TimersValid(timers) ==
  /\ timers.heartbeat >= 1000
  /\ timers.discovery >= 1000
  /\ timers.session_init >= 1
  /\ timers.termination # 0

LimitsValid(limits) ==
  /\ limits.max_sessions \in 1..MaxPermits
  /\ limits.max_discovered_peers # 0 /\ limits.peer_retention # 0

\* The session update that carries the metrics must encode: percentages are
\* at most 100 (WireCodec).  One direction stands for both, resources for
\* every percentage.
MetricsValid(metrics) ==
  /\ metrics.current <= metrics.max
  /\ metrics.resources = Absent \/ metrics.resources <= 100

RadioValid(radio) == radio.absolute /\ radio.link_request_timeout # 0

-----------------------------------------------------------------------------
(* The link.  An entry of host.addresses is an address with the name, index *)
(* and flags of its interface; an address has a family, a scope and a rank  *)
(* among the addresses of its family.                                       *)

Unspecified(address) == address.scope = "unspecified"

Usable(entry) ==
  /\ entry.address.scope \notin {"unspecified", "multicast", "mapped", "broadcast"}
  /\ entry.up /\ (entry.multicast \/ entry.loopback)

\* if_nametoindex.
Exists(interface, host) == \E e \in host.addresses : e.interface = interface

Candidates(interface, preferred, host) ==
  {e \in host.addresses :
     /\ e.address.family = preferred.family
     /\ interface # Absent => e.interface = interface
     /\ ~Unspecified(preferred) => e.address = preferred
     /\ Usable(e)}

\* IPv6: link-local addresses first; then by interface and address.
Key(e) ==
  <<IF e.address.family = 6 /\ e.address.scope # "link" THEN 1 ELSE 0,
    e.index, e.address.rank>>

Precedes(k, l) == \E p \in 1..3 : k[p] < l[p] /\ \A q \in 1..(p - 1) : k[q] = l[q]

First(entries) == CHOOSE e \in entries : \A f \in entries \ {e} : Precedes(Key(e), Key(f))

resolve_v6(interface, preferred, host) ==
  LET found == Candidates(interface, preferred, host)
  IN  IF \/ IF interface = Absent THEN Unspecified(preferred) ELSE ~Exists(interface, host)
         \/ found = {}
         \/ interface = Absent /\ \E e, f \in found : e.index # f.index
      THEN Failed
      ELSE First(found)

\* Absent: the routing table chooses.
resolve_v4(interface, preferred, host) ==
  LET found == Candidates(interface, preferred, host)
  IN  IF interface = Absent /\ Unspecified(preferred) THEN Absent
      ELSE IF found = {} \/ (interface # Absent /\ ~Exists(interface, host)) THEN Failed
      ELSE First(found)

resolve(network, host) ==
  IF network.bind_addr.family = 4
  THEN resolve_v4(network.interface, network.bind_addr, host)
  ELSE resolve_v6(network.interface, network.bind_addr, host)

\* validate_discovery_interface: IPv4 without a name is left to the socket.
InterfaceValid(network, host) ==
  network.bind_addr.family = 6 \/ network.interface # Absent => resolve(network, host) # Failed

-----------------------------------------------------------------------------
(* TLS material.                                                            *)

Holds(path, content, host) == path \in DOMAIN host.files /\ host.files[path] = content

\* load_certs and the refusal of a file without certificates.
certs_from(path, host) == Holds(path, "certs", host)

\* load_private_key, and rustls's comparison of the key with the certificate.
IdentityLoads(tls, host) == certs_from(tls.cert, host) /\ Holds(tls.key, "key", host)

client_config(tls, host) ==
  /\ tls.ca_bundle # Absent /\ certs_from(tls.ca_bundle, host)
  /\ (tls.cert = Absent) = (tls.key = Absent)
  /\ tls.cert # Absent => IdentityLoads(tls, host)

server_config(tls, host) ==
  /\ tls.cert # Absent /\ tls.key # Absent
  /\ IdentityLoads(tls, host)
  /\ tls.require_client_cert => tls.ca_bundle # Absent /\ certs_from(tls.ca_bundle, host)

-----------------------------------------------------------------------------
(* The whole: the command line over the file, and --check-config.           *)

\* apply_overrides of both programs.  --peer exists for the router only.
apply_overrides(config, cli) ==
  LET Over(given, value) == IF given = Absent THEN value ELSE given
  IN  [config EXCEPT
        !.network.interface = Over(cli.interface, @),
        !.network.use_tls = @ /\ ~cli.no_tls,
        !.tls.cert = Over(cli.cert, @),
        !.tls.key = Over(cli.key, @),
        !.tls.ca_bundle = Over(cli.ca_bundle, @),
        !.mode = IF cli.peer = {} THEN @ ELSE "Static",
        !.static_peers = @ \cup cli.peer]

check_router_config(config, host) ==
  /\ LimitsValid(config.limits)
  /\ TimersValid(config.timers)
  /\ InterfaceValid(config.network, host)
  /\ config.mode = "Static" => config.static_peers # {}
  /\ config.network.use_tls => client_config(config.tls, host)

\* Mutant: the adapter's section is not looked at.
check_modem_config_NoRadio(config, host) ==
  /\ TimersValid(config.timers)
  /\ InterfaceValid(config.network, host)
  /\ MetricsValid(config.metrics)
  /\ config.network.use_tls => server_config(config.tls, host)

check_modem_config(config, host) ==
  /\ TimersValid(config.timers)
  /\ InterfaceValid(config.network, host)
  /\ MetricsValid(config.metrics)
  /\ config.radio # Absent =>
       RadioValid(config.radio) /\ config.radio.command \in DOMAIN host.files
  /\ config.network.use_tls => server_config(config.tls, host)
=============================================================================
