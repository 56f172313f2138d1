----------------------------- MODULE Configuration -----------------------------
(***************************************************************************)
(* How the four services obtain the settings they must have in common: the *)
(* session root, the result queue and the door endpoint.  Each service has *)
(* its own copy of the same parser; a later source overrides an earlier    *)
(* one: defaults, config.env, the service's own file, the environment, the *)
(* command line.  The other keys are read the same way and are left out.   *)
(***************************************************************************)
Keys == {"SESSIONS_DIR", "RESULT_QUEUE_DB", "ZMQ_IPC_ENDPOINT"}

\* A text as it stands in a file: a path, possibly in quotes, or the default
\* place of the queue inside a session root.
Text == [path : STRING, quoted : BOOLEAN, outbox : BOOLEAN]
Plain(path) == [path |-> path, quoted |-> FALSE, outbox |-> FALSE]
Outbox(dir) == [dir EXCEPT !.outbox = TRUE]
Blank(text) == text.path = "" /\ ~text.quoted

IsSettings(file) == DOMAIN file \subseteq Keys /\ \A k \in DOMAIN file : file[k] \in Text
NoSettings == [k \in {} |-> Plain("")]

\* values.extend
earlier ++ later ==
  [k \in DOMAIN earlier \cup DOMAIN later |->
     IF k \in DOMAIN later THEN later[k] ELSE earlier[k]]

\* What the services are given: config.env, and each its own file, environment
\* and command line.
Service == {"gateway", "recorder", "processor", "uploader"}
IsSources(s) ==
  /\ IsSettings(s.shared)
  /\ \A service \in Service :
       /\ IsSettings(s.own[service])
       /\ IsSettings(s.environment[service]) /\ IsSettings(s.arguments[service])

-----------------------------------------------------------------------------
(* Reading.                                                                *)

\* The environment counts for the keys a service knows, unless it is empty.
Known(environment, keys) ==
  [k \in {k \in DOMAIN environment \cap keys : ~Blank(environment[k])} |-> environment[k]]

\* read_env_file of the gateway takes quotes off; the others keep them.
Unquoted(file) == [k \in DOMAIN file |-> [file[k] EXCEPT !.quoted = FALSE]]

GatewayKeys == {"ZMQ_IPC_ENDPOINT"}
GatewayDefaults == [k \in {"ZMQ_IPC_ENDPOINT"} |-> Plain("doors")]
GatewaySettings(s) ==
  GatewayDefaults ++ Unquoted(s.shared) ++ Unquoted(s.own["gateway"])
    ++ Known(s.environment["gateway"], GatewayKeys) ++ s.arguments["gateway"]

RecorderKeys == {"SESSIONS_DIR", "ZMQ_IPC_ENDPOINT"}
RecorderDefaults ==
  [k \in {"SESSIONS_DIR", "ZMQ_IPC_ENDPOINT"} |->
     IF k = "SESSIONS_DIR" THEN Plain("sessions") ELSE Plain("doors")]
RecorderSettings(s) ==
  RecorderDefaults ++ s.shared ++ s.own["recorder"]
    ++ Known(s.environment["recorder"], RecorderKeys) ++ s.arguments["recorder"]

ProcessorKeys == Keys
ProcessorDefaults ==
  [k \in {"SESSIONS_DIR", "ZMQ_IPC_ENDPOINT"} |->
     IF k = "SESSIONS_DIR" THEN Plain("sessions") ELSE Plain("doors")]
ProcessorSettings(s) ==
  ProcessorDefaults ++ s.shared ++ s.own["processor"]
    ++ Known(s.environment["processor"], ProcessorKeys) ++ s.arguments["processor"]

UploaderKeys == {"RESULT_QUEUE_DB"}
UploaderDefaults == [k \in {"RESULT_QUEUE_DB"} |-> Outbox(Plain("sessions"))]
UploaderSettings(s) ==
  UploaderDefaults ++ s.shared ++ s.own["uploader"]
    ++ Known(s.environment["uploader"], UploaderKeys) ++ s.arguments["uploader"]

-----------------------------------------------------------------------------
(* What the services use.  A service whose settings are refused exits.     *)

Given(settings, key) == key \in DOMAIN settings /\ ~Blank(settings[key])

GatewayAccepts(s) == Given(GatewaySettings(s), "ZMQ_IPC_ENDPOINT")
RecorderAccepts(s) ==
  Given(RecorderSettings(s), "SESSIONS_DIR") /\ Given(RecorderSettings(s), "ZMQ_IPC_ENDPOINT")
ProcessorAccepts(s) ==
  Given(ProcessorSettings(s), "SESSIONS_DIR") /\ Given(ProcessorSettings(s), "ZMQ_IPC_ENDPOINT")
UploaderAccepts(s) == Given(UploaderSettings(s), "RESULT_QUEUE_DB")

\* Without RESULT_QUEUE_DB the processor's queue lies in its session root.
ProcessorQueue(s) ==
  LET settings == ProcessorSettings(s) IN
  IF Given(settings, "RESULT_QUEUE_DB") THEN settings["RESULT_QUEUE_DB"]
  ELSE Outbox(settings["SESSIONS_DIR"])

\* Mutant: the uploader's defaults override config.env.
UploaderQueueDefault(s) == (UploaderSettings(s) ++ UploaderDefaults)["RESULT_QUEUE_DB"]

UploaderQueue(s) == UploaderSettings(s)["RESULT_QUEUE_DB"]

\* The writers and readers agree: recorder and processor on the session root,
\* processor and uploader on the queue, gateway and consumers on the endpoint.
Agree(s) ==
  /\ RecorderAccepts(s) /\ ProcessorAccepts(s) =>
       RecorderSettings(s)["SESSIONS_DIR"] = ProcessorSettings(s)["SESSIONS_DIR"]
  /\ ProcessorAccepts(s) /\ UploaderAccepts(s) => ProcessorQueue(s) = UploaderQueue(s)
  /\ GatewayAccepts(s) /\ ProcessorAccepts(s) =>
       GatewaySettings(s)["ZMQ_IPC_ENDPOINT"] = ProcessorSettings(s)["ZMQ_IPC_ENDPOINT"]
  /\ GatewayAccepts(s) /\ RecorderAccepts(s) =>
       GatewaySettings(s)["ZMQ_IPC_ENDPOINT"] = RecorderSettings(s)["ZMQ_IPC_ENDPOINT"]

\* "belong only in config.env"
SharedOnly(s) ==
  \A service \in Service :
    {s.own[service], s.environment[service], s.arguments[service]} = {NoSettings}

\* What it takes besides: the queue is named, for the processor and the
\* uploader have different defaults, and the endpoint is not in quotes, for
\* the gateway alone takes them off.
WellNamed(s) ==
  /\ Given(s.shared, "RESULT_QUEUE_DB")
  /\ "ZMQ_IPC_ENDPOINT" \in DOMAIN s.shared => ~s.shared["ZMQ_IPC_ENDPOINT"].quoted
=============================================================================
