------------------------------ MODULE Binaries ------------------------------
(***************************************************************************)
(* The programs dlep-router and dlep-modem from their command line to      *)
(* their exit (run_from in crates/dlep-router/src/lib.rs and               *)
(* crates/dlep-modem/src/lib.rs, the builders' spawn in                    *)
(* crates/dlep-daemon/src/router.rs and modem.rs), and the program that    *)
(* drives the radio, which the modem starts and stops (Adapter in          *)
(* crates/dlep-modem/src/radio.rs).  What the daemons do while they run is *)
(* the matter of RouterDaemon and ModemDaemon, what passes between the     *)
(* modem and the adapter that of RadioBridge.                              *)
(***************************************************************************)
EXTENDS Configuration

CONSTANTS
  Setup,  \* what may be written: [role, file, cli]; file is Failed if it does not parse
  Host    \* the states of the machine

VARIABLES
  setup,      \* the configuration file and command line, Absent before there are any
  host,       \* the machine it is on
  verdict,    \* of --check-config, on the machine as it is: "none", "ok", "refused"
  stage,      \* where run_from is
  child,      \* the adapter: "none", "runs", "exited", "killed"
  output,     \* its standard output: "open", "broken" (malformed or closed)
  input,      \* the writer of its input: "none", "idle", "blocked", "ended"
  expired,    \* whether STOP_GRACE is over
  discovers,  \* whether the daemon has a discovery socket
  signalled,  \* whether SIGINT or SIGTERM has come
  outcome     \* "none", "ok", "configuration", "system", "adapter"

adapterVars == <<child, output, input, expired>>
binaryVars == <<setup, host, verdict, stage, adapterVars, discovers, signalled, outcome>>

BinaryInit ==
  /\ setup = Absent /\ host = Absent /\ verdict = "none"
  /\ stage = "none"
  /\ child = "none" /\ output = "open" /\ input = "none" /\ expired = FALSE
  /\ discovers = FALSE /\ signalled = FALSE /\ outcome = "none"

Config == apply_overrides(setup.file, setup.cli)
IsModem == setup.role = "modem"

Valid ==
  /\ setup.file # Failed
  /\ IF IsModem THEN check_modem_config(Config, host) ELSE check_router_config(Config, host)

-----------------------------------------------------------------------------
(* Before the start.                                                        *)

WriteConfig(s, h) ==
  /\ setup = Absent
  /\ setup' = s /\ host' = h
  /\ UNCHANGED <<verdict, stage, adapterVars, discovers, signalled, outcome>>

\* Opens no socket and starts no program.
CheckConfig ==
  /\ setup # Absent /\ stage = "none" /\ verdict = "none"
  /\ verdict' = IF Valid THEN "ok" ELSE "refused"
  /\ UNCHANGED <<setup, host, stage, adapterVars, discovers, signalled, outcome>>

\* Until the daemon has started; what was checked is checked no more.
HostChanges(h) ==
  /\ setup # Absent /\ stage \in {"none", "loaded", "tls", "adapter"} /\ h # host
  /\ host' = h /\ verdict' = "none"
  /\ UNCHANGED <<setup, stage, adapterVars, discovers, signalled, outcome>>

-----------------------------------------------------------------------------
(* run_from up to the running daemon.                                       *)

\* Mutant: the adapter is left to itself.
Leave_NoKill(why) ==
  /\ stage' = "exited" /\ outcome' = why
  /\ UNCHANGED adapterVars

\* run_from returns, with the adapter's handle (kill_on_drop).
Leave(why) ==
  /\ stage' = "exited" /\ outcome' = why
  /\ child' = IF child = "runs" THEN "killed" ELSE child
  /\ UNCHANGED <<output, input, expired>>

Go(to) ==
  /\ stage' = to
  /\ UNCHANGED <<adapterVars, outcome>>

\* Loads the file, applies the command line and registers the signals.
Launch ==
  /\ setup # Absent /\ stage = "none"
  /\ IF setup.file = Failed THEN Leave("configuration") ELSE Go("loaded")
  /\ UNCHANGED <<setup, host, verdict, discovers, signalled>>

BuildTls ==
  /\ stage = "loaded"
  /\ LET material == IF IsModem THEN server_config(Config.tls, host)
                                ELSE client_config(Config.tls, host)
     IN  IF Config.network.use_tls /\ ~material THEN Leave("configuration") ELSE Go("tls")
  /\ UNCHANGED <<setup, host, verdict, discovers, signalled>>

\* Adapter::spawn.  A command that is no file cannot be executed; one that is
\* may not be a program.
SpawnAdapter ==
  /\ stage = "tls"
  /\ LET radio == Config.radio
     IN  IF ~IsModem \/ radio = Absent THEN Go("adapter")
         ELSE IF ~RadioValid(radio) THEN Leave("configuration")
         ELSE \/ Leave(IF radio.command \in DOMAIN host.files THEN "system" ELSE "configuration")
              \/ /\ Holds(radio.command, "program", host)
                 /\ stage' = "adapter" /\ child' = "runs" /\ input' = "idle"
                 /\ UNCHANGED <<output, expired, outcome>>
  /\ UNCHANGED <<setup, host, verdict, discovers, signalled>>

\* What both builders check again, on the machine as it is now.
BuilderAccepts ==
  /\ TimersValid(Config.timers)
  /\ InterfaceValid(Config.network, host)
  /\ IF IsModem THEN MetricsValid(Config.metrics) ELSE LimitsValid(Config.limits)

\* The sockets a start needs: a bind that cannot resolve its address fails, any
\* other may.
CanBind == resolve(Config.network, host) # Failed

\* Mutant: a modem that cannot discover on the link it was given goes on.
SpawnDaemon_Disabled ==
  /\ stage = "adapter"
  /\ \/ ~BuilderAccepts /\ Leave("configuration") /\ discovers' = FALSE
     \/ BuilderAccepts /\ IsModem /\ Leave("system") /\ discovers' = FALSE
     \/ BuilderAccepts /\ IsModem /\ Go("runs") /\ discovers' = FALSE
     \/ BuilderAccepts /\ IsModem /\ CanBind /\ Go("runs") /\ discovers' = TRUE
     \/ BuilderAccepts /\ ~IsModem /\ Go("driver") /\ discovers' = FALSE
  /\ UNCHANGED <<setup, host, verdict, signalled>>

\* spawn of the builders.  The modem's listener and a discovery socket on a
\* named interface may fail it; any other discovery socket is best effort.
SpawnDaemon ==
  /\ stage = "adapter"
  /\ \/ ~BuilderAccepts /\ Leave("configuration") /\ discovers' = FALSE
     \/ BuilderAccepts /\ IsModem /\ Leave("system") /\ discovers' = FALSE
     \/ /\ BuilderAccepts /\ IsModem /\ Config.network.interface = Absent
        /\ Go("runs") /\ discovers' = FALSE
     \/ BuilderAccepts /\ IsModem /\ CanBind /\ Go("runs") /\ discovers' = TRUE
     \/ BuilderAccepts /\ ~IsModem /\ Go("driver") /\ discovers' = FALSE
  /\ UNCHANGED <<setup, host, verdict, signalled>>

\* The router's run, up to its event loop; a signal that has come is seen first.
StartDriver ==
  /\ stage = "driver"
  /\ LET Stop(why) == /\ stage' = "stopping" /\ outcome' = why
                      /\ UNCHANGED <<adapterVars, discovers>>
     IN  CASE signalled -> Stop("ok")
           [] ~signalled /\ Config.mode = "Static" ->
                IF Config.static_peers = {} THEN Stop("configuration")
                ELSE Go("runs") /\ UNCHANGED discovers
           [] OTHER -> \/ Stop("system")
                       \/ CanBind /\ Go("runs") /\ discovers' = TRUE
  /\ UNCHANGED <<setup, host, verdict, signalled>>

-----------------------------------------------------------------------------
(* The running daemon and its end.                                          *)

\* The signals are registered in Launch; one that comes before its wait is kept.
Signal ==
  /\ stage \notin {"none", "exited"} /\ ~signalled
  /\ signalled' = TRUE
  /\ UNCHANGED <<setup, host, verdict, stage, adapterVars, discovers, outcome>>

SeeSignal ==
  /\ stage = "runs" /\ signalled
  /\ stage' = "stopping" /\ outcome' = "ok"
  /\ UNCHANGED <<setup, host, verdict, adapterVars, discovers, signalled>>

\* Adapter::run returns: the adapter exits, its output ends, a line is too long,
\* not UTF-8, or no message.
AdapterFailed == child = "exited" \/ output = "broken"

SeeFailure ==
  /\ stage = "runs" /\ AdapterFailed
  /\ stage' = "stopping" /\ outcome' = "adapter"
  /\ UNCHANGED <<setup, host, verdict, adapterVars, discovers, signalled>>

\* shutdown of the daemon, then of the adapter.
DaemonShutdown ==
  /\ stage = "stopping"
  /\ IF child = "none" THEN Leave(outcome) ELSE Go("stopWriter")
  /\ UNCHANGED <<setup, host, verdict, discovers, signalled>>

\* Mutant: the writer is waited for without a deadline.
StopWriter_Waits ==
  /\ stage = "stopWriter" /\ input = "idle"
  /\ stage' = "stopChild" /\ input' = "ended"
  /\ UNCHANGED <<setup, host, verdict, child, output, expired, discovers, signalled, outcome>>

\* stop: the writer ends when it has written what is queued, or is aborted.
StopWriter ==
  /\ stage = "stopWriter" /\ (input = "idle" \/ expired)
  /\ stage' = "stopChild" /\ input' = "ended"
  /\ UNCHANGED <<setup, host, verdict, child, output, expired, discovers, signalled, outcome>>

StopChild ==
  /\ stage = "stopChild" /\ (child = "exited" \/ expired)
  /\ Leave(outcome)
  /\ UNCHANGED <<setup, host, verdict, discovers, signalled>>

Deadline ==
  /\ stage \in {"stopWriter", "stopChild"} /\ ~expired
  /\ expired' = TRUE
  /\ UNCHANGED <<setup, host, verdict, stage, child, output, input, discovers, signalled, outcome>>

-----------------------------------------------------------------------------
(* What the adapter does, at any time.                                      *)

AdapterStep(newChild, newOutput, newInput) ==
  /\ child = "runs"
  /\ child' = newChild /\ output' = newOutput /\ input' = newInput
  /\ UNCHANGED <<setup, host, verdict, stage, expired, discovers, signalled, outcome>>

\* Its pipes close; a write to it fails, which ends the writer.
AdapterExits == AdapterStep("exited", "broken", IF input = "ended" THEN input ELSE "idle")
AdapterBreaks == output = "open" /\ AdapterStep(child, "broken", input)
AdapterStalls == input = "idle" /\ AdapterStep(child, output, "blocked")
AdapterReads == input = "blocked" /\ AdapterStep(child, output, "idle")

BinaryStep ==
  \/ BuildTls \/ SpawnAdapter \/ SpawnDaemon \/ StartDriver
  \/ SeeSignal \/ SeeFailure \/ DaemonShutdown \/ StopWriter \/ StopChild

BinaryNext ==
  \/ \E s \in Setup, h \in Host : WriteConfig(s, h)
  \/ \E h \in Host : HostChanges(h)
  \/ CheckConfig \/ Launch \/ BinaryStep
  \/ Signal \/ Deadline
  \/ AdapterExits \/ AdapterBreaks \/ AdapterStalls \/ AdapterReads

BinarySpec == BinaryInit /\ [][BinaryNext]_binaryVars

\* run_from goes on when it can, and deadlines pass.  That the daemons' own
\* shutdown returns is checked in ModemDaemon and RouterDaemon.
BinaryFairness == WF_binaryVars(BinaryStep) /\ WF_binaryVars(Deadline)

BinaryFairSpec == BinarySpec /\ BinaryFairness

-----------------------------------------------------------------------------
(* Properties.                                                              *)

\* The state of one program, its adapter and its machine.
BinaryTypeOK ==
  /\ setup \in Setup \cup {Absent} /\ host \in Host \cup {Absent}
  /\ verdict \in {"none", "ok", "refused"}
  /\ stage \in {"none", "loaded", "tls", "adapter", "driver", "runs",
                "stopping", "stopWriter", "stopChild", "exited"}
  /\ child \in {"none", "runs", "exited", "killed"}
  /\ output \in {"open", "broken"} /\ input \in {"none", "idle", "blocked", "ended"}
  /\ expired \in BOOLEAN /\ discovers \in BOOLEAN /\ signalled \in BOOLEAN
  /\ outcome \in {"none", "ok", "configuration", "system", "adapter"}

\* --check-config and the start, which make their checks in different places and
\* orders, agree: on the machine that was checked, a configuration that was
\* found OK is never refused and one that was refused never runs ("Invalid
\* configuration fails `--check-config` and daemon startup").  And a modem that
\* runs discovers on the interface it was given ("Failure to create discovery on
\* a named interface fails startup instead of silently disabling discovery").
CheckAgreesWithStart ==
  /\ verdict = "ok" => outcome # "configuration"
  /\ stage = "runs" => verdict # "refused"
  /\ stage = "runs" /\ IsModem /\ Config.network.interface # Absent => discovers

\* However the modem ends, from a start that fails half way to a shutdown the
\* adapter ignores, the adapter does not outlive it; and it reports success only
\* if it was asked to stop ("the modem terminates its sessions and exits so a
\* supervisor restarts both").
ExitsLeaveNothing ==
  stage = "exited" => child # "runs" /\ (outcome = "ok" => signalled)

\* A signal, one that comes during the start included, and a failure of the
\* adapter end the program, also when the adapter neither reads its input nor
\* exits.
AskedToStopItStops ==
  /\ signalled ~> stage = "exited"
  /\ (stage = "runs" /\ AdapterFailed) ~> stage = "exited"
=============================================================================
