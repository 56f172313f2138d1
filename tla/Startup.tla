-------------------------------- MODULE Startup --------------------------------
(***************************************************************************)
(* What a door gateway needs before it publishes: settings it accepts, a   *)
(* valid licence, and the endpoint.  It looks at the licence again before  *)
(* it connects and before every read, and ends when it is no longer valid. *)
(* systemd starts the gateway of its unit again when it fails, as often as *)
(* the start limit allows; other gateways are started by hand.             *)
(***************************************************************************)
EXTENDS Configuration, Licensing, DoorEndpoint

CONSTANTS
  Configurations,  \* what the services of the computer may be given
  Unit,            \* the gateway of pcrt-door-gateway.service
  StartLimit,      \* starts of a unit in ten seconds: systemd's default, as the unit sets none
  MaxStops         \* bound on gateways killed or told to stop, and on switching off

VARIABLES
  sources,         \* what they are given
  unit,            \* whether systemd keeps the unit going
  starts,          \* starts of the unit in the current ten seconds
  refused,         \* history: one of these starts found no licence, bad settings or the
                   \* endpoint of another
  stops

uvars == <<unit, starts, refused>>
svars == <<lvars, evars, sources, uvars, stops>>

ASSUME StartupAssumption ==
  /\ \A s \in Configurations : IsSources(s)
  /\ Unit \in Publisher
  /\ MaxStops \in Nat /\ StartLimit \in Nat

StartupTypeOK ==
  /\ LicensingTypeOK /\ EndpointTypeOK
  /\ sources \in Configurations
  /\ unit \in {"on", "stopped", "failed"}
  /\ starts \in 0 .. StartLimit /\ refused \in BOOLEAN
  /\ stops \in 0 .. MaxStops

Licensed == Valid(installed)
Acceptable == {s \in Configurations : GatewayAccepts(s)}
Startable == Licensed /\ sources \in Acceptable

-----------------------------------------------------------------------------
(* The gateways.                                                           *)

\* parse_args and validate_license, without which the process exits at once.
StartPublisher(p) ==
  /\ publisher[p] = "down" /\ Startable
  /\ Goes(p, "starting") /\ UNCHANGED <<path, lock>>

NewInterval == starts' = 0 /\ refused' = FALSE

\* An operator starts a gateway beside the unit's.
StartByHand(p) ==
  /\ p # Unit /\ StartPublisher(p)
  /\ UNCHANGED <<lvars, sources, uvars, stops>>

\* Status 1, after which systemd starts the unit again.
Fails(p) ==
  /\ refused' = (refused \/ (p = Unit /\ starts > 0))
  /\ UNCHANGED <<unit, starts>>

Deny(p) ==
  /\ Close(p) /\ ~Licensed /\ Fails(p)
  /\ UNCHANGED <<lvars, sources, stops>>

\* IpcAlreadyOwned is an error of the process as well.
Bring(p) ==
  /\ EndpointStep(p)
  /\ IF publisher[p] = "starting" /\ lock # NoOne THEN Fails(p) ELSE UNCHANGED uvars
  /\ UNCHANGED <<lvars, sources, stops>>

\* Ctrl-C, SIGTERM, or the end of --exit-after-ms: status 0, after which systemd
\* does not start the unit again.  (An operator who does takes ten seconds.)
ShutDownPublisher(p) ==
  /\ stops < MaxStops /\ stops' = stops + 1 /\ Close(p)
  /\ IF p = Unit THEN unit' = "stopped" /\ NewInterval ELSE UNCHANGED uvars
  /\ UNCHANGED <<lvars, sources>>

KillPublisher(p) ==
  /\ stops < MaxStops /\ stops' = stops + 1 /\ Kill(p)
  /\ UNCHANGED <<lvars, sources, uvars>>

-----------------------------------------------------------------------------
(* The unit: Restart=on-failure, RestartSec=1.                             *)

\* A process that exits at once leaves nothing but the start that was counted.
StartUnit ==
  /\ unit = "on" /\ publisher[Unit] = "down" /\ starts < StartLimit
  /\ starts' = starts + 1
  /\ \/ StartPublisher(Unit) /\ UNCHANGED refused
     \/ ~Startable /\ refused' = TRUE /\ UNCHANGED evars
  /\ UNCHANGED <<lvars, sources, unit, stops>>

\* Result start-limit-hit.
GiveUpUnit ==
  /\ unit = "on" /\ publisher[Unit] = "down" /\ starts = StartLimit
  /\ unit' = "failed"
  /\ UNCHANGED <<lvars, evars, sources, starts, refused, stops>>

TenSecondsPass ==
  /\ unit = "on" /\ starts > 0 /\ NewInterval
  /\ UNCHANGED <<lvars, evars, sources, unit, stops>>

\* systemctl start, ten seconds after the last start: sooner it is refused, or
\* counted with the starts before.
OperatorStarts ==
  /\ unit # "on" /\ unit' = "on" /\ NewInterval
  /\ UNCHANGED <<lvars, evars, sources, stops>>

\* The computer is switched off to replace the disk.  The unit is enabled.
SwitchOff ==
  /\ stops < MaxStops /\ stops' = stops + 1 /\ ReplaceDisk
  /\ publisher' = [p \in Publisher |-> "down"] /\ lock' = NoOne
  /\ unit' = "on" /\ NewInterval
  /\ UNCHANGED <<path, sources>>

\* Settings are read once, when a service starts.
EditSources ==
  /\ sources' \in Configurations \ {sources}
  /\ UNCHANGED <<lvars, evars, uvars, stops>>

-----------------------------------------------------------------------------
StartupInit ==
  /\ LicensingInit /\ EndpointInit
  /\ sources \in Configurations /\ stops = 0
  /\ unit = "on" /\ starts = 0 /\ refused = FALSE

\* What a gateway does by itself, and systemd for it.
PublisherStep(p) ==
  \/ Deny(p) \/ Bring(p)
  \/ p = Unit /\ (StartUnit \/ GiveUpUnit)

StartupNext ==
  \/ \E p \in Publisher :
       PublisherStep(p) \/ StartByHand(p) \/ ShutDownPublisher(p) \/ KillPublisher(p)
  \/ LicensingNext /\ UNCHANGED <<evars, sources, uvars, stops>>
  \/ TenSecondsPass \/ OperatorStarts \/ SwitchOff \/ EditSources

StartupSpec == StartupInit /\ [][StartupNext]_svars

\* Gateways that run go on, and systemd starts the unit's while it has not given
\* it up.  Nobody need start a gateway by hand, or the unit once it is stopped.
StartupFairness == \A p \in Publisher : WF_svars(PublisherStep(p))
StartupFairSpec == StartupSpec /\ StartupFairness

-----------------------------------------------------------------------------
(* Safety and liveness.                                                    *)

\* "So that the services do not receive different values from the same files":
\* services whose settings stand in config.env only use the same session root,
\* queue and endpoint, if the queue is named there and the endpoint is not put
\* in quotes.
AgreeWhenNamed == SharedOnly(sources) /\ WellNamed(sources) => Agree(sources)

\* While systemd keeps the unit going, the doors of a licensed computer are
\* published in the end, whatever a gateway that died left behind and whoever else
\* starts or ends, unless the licence or the settings stop being good or the unit has
\* run into the start limit for want of a licence, of settings or of the endpoint:
\* what a dead gateway left never uses its starts up.
GatewayComesBack ==
  unit = "on" /\ Startable ~>
    \/ \E p \in Publisher : publisher[p] = "serving"
    \/ ~Startable
    \/ unit = "failed" /\ refused
=============================================================================
