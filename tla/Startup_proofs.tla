----------------------------- MODULE Startup_proofs -----------------------------
(***************************************************************************)
(* Proofs about module Startup, for any disks, imports, gateways and       *)
(* settings: the endpoint has one owner, a licence is kept, and services   *)
(* that are well configured agree.                                         *)
(***************************************************************************)
EXTENDS Startup, TLAPS

-----------------------------------------------------------------------------
(* The endpoint.                                                           *)

EndpointInv == EndpointTypeOK /\ LockIsExclusive /\ EndpointHasOneOwner

LEMMA EndpointInitial == StartupInit => EndpointInv
BY EndpointAssumption DEF StartupInit, EndpointInit, EndpointInv, EndpointTypeOK, Stages,
  LockIsExclusive, EndpointHasOneOwner

\* What StartPublisher does to the endpoint.
LEMMA StartKeepsEndpoint ==
  ASSUME EndpointInv, NEW p \in Publisher, StartPublisher(p)
  PROVE  EndpointInv'
BY EndpointAssumption DEF StartPublisher, Goes, EndpointInv, EndpointTypeOK, Stages,
  LockIsExclusive, EndpointHasOneOwner

LEMMA CloseKeepsEndpoint ==
  ASSUME EndpointInv, NEW p \in Publisher, Close(p)
  PROVE  EndpointInv'
BY EndpointAssumption DEF Close, Goes, EndpointInv, EndpointTypeOK, Stages,
  LockIsExclusive, EndpointHasOneOwner

LEMMA KillKeepsEndpoint ==
  ASSUME EndpointInv, NEW p \in Publisher, Kill(p)
  PROVE  EndpointInv'
BY EndpointAssumption DEF Kill, Goes, EndpointInv, EndpointTypeOK, Stages,
  LockIsExclusive, EndpointHasOneOwner

LEMMA EndpointStepKeeps ==
  ASSUME EndpointInv, NEW p \in Publisher, EndpointStep(p)
  PROVE  EndpointInv'
<1> USE EndpointAssumption DEF EndpointInv, EndpointTypeOK, Stages, LockIsExclusive,
          EndpointHasOneOwner, Goes
<1>1. CASE TakeLock(p)
  <2>1. CASE lock = NoOne  BY <1>1, <2>1 DEF TakeLock
  <2>2. CASE lock # NoOne  BY <1>1, <2>2 DEF TakeLock
  <2> QED  BY <2>1, <2>2
<1>2. CASE Probe(p)
  <2>1. PICK stage \in {"binding", "clearing"} : Goes(p, stage)  BY <1>2 DEF Probe
  <2> QED  BY <1>2, <2>1 DEF Probe
<1>3. CASE RemoveStale(p)
  <2>1. \A q \in Publisher : publisher[q] # "serving"  BY <1>3 DEF RemoveStale
  <2> QED  BY <1>3, <2>1 DEF RemoveStale
<1>4. CASE Bind(p)
  <2>1. \A q \in Publisher : publisher[q] # "serving"  BY <1>4 DEF Bind
  <2> QED  BY <1>4, <2>1 DEF Bind
<1>5. CASE Release(p)
  <2>1. \A q \in Publisher : publisher[q] # "serving"  BY <1>5 DEF Release
  <2> QED  BY <1>5, <2>1 DEF Release
<1> QED  BY <1>1, <1>2, <1>3, <1>4, <1>5 DEF EndpointStep

LEMMA EndpointInductive == EndpointInv /\ [StartupNext]_svars => EndpointInv'
<1> SUFFICES ASSUME EndpointInv, [StartupNext]_svars PROVE EndpointInv'
  OBVIOUS
<1> DEFINE Same == UNCHANGED evars => EndpointInv'
<1>0. Same
  BY DEF evars, EndpointInv, EndpointTypeOK, LockIsExclusive, EndpointHasOneOwner
<1>1. ASSUME NEW p \in Publisher, PublisherStep(p) PROVE EndpointInv'
  <2>1. CASE Deny(p)  BY <2>1, CloseKeepsEndpoint DEF Deny
  <2>2. CASE Bring(p)  BY <2>2, EndpointStepKeeps DEF Bring
  <2>3. CASE StartUnit
    <3>1. StartPublisher(Unit) \/ UNCHANGED evars  BY <2>3 DEF StartUnit
    <3> QED  BY <1>0, <3>1, StartKeepsEndpoint, StartupAssumption
  <2>4. CASE GiveUpUnit  BY <1>0, <2>4 DEF GiveUpUnit
  <2> QED  BY <1>1, <2>1, <2>2, <2>3, <2>4 DEF PublisherStep
<1>2. ASSUME NEW p \in Publisher, StartByHand(p) \/ ShutDownPublisher(p) \/ KillPublisher(p)
      PROVE  EndpointInv'
  BY <1>2, StartKeepsEndpoint, CloseKeepsEndpoint, KillKeepsEndpoint
    DEF StartByHand, ShutDownPublisher, KillPublisher
<1>3. CASE (LicensingNext /\ UNCHANGED <<evars, sources, uvars, stops>>) \/ TenSecondsPass \/ OperatorStarts
  BY <1>0, <1>3 DEF TenSecondsPass, OperatorStarts
<1>4. CASE SwitchOff
  BY <1>4, EndpointAssumption DEF SwitchOff, EndpointInv, EndpointTypeOK, Stages,
    LockIsExclusive, EndpointHasOneOwner
<1>5. CASE EditSources
  BY <1>0, <1>5 DEF EditSources
<1>6. CASE UNCHANGED svars
  BY <1>0, <1>6 DEF svars
<1> QED  BY <1>1, <1>2, <1>3, <1>4, <1>5, <1>6 DEF StartupNext

\* DoorPublisher::bind and close: whatever the gateways do and whenever they
\* die, one that publishes owns the path, and it is the only one.
THEOREM EndpointOwned == StartupSpec => []EndpointHasOneOwner
<1>1. EndpointInv => EndpointHasOneOwner  BY DEF EndpointInv
<1> QED  BY <1>1, EndpointInitial, EndpointInductive, PTL DEF StartupSpec

-----------------------------------------------------------------------------
(* The licence.                                                            *)

\* While nobody touches the source, what an import holds was checked against
\* the disk that is in the computer, and so is what it has written.
CheckedFirst ==
  \A t \in Tool : ~tool[t].touched =>
    /\ tool[t].pc = "checked" => Matches(source)
    /\ tool[t].pc \in {"writing", "written"} => Matches(tool[t].bytes)
    /\ tool[t].pc = "written" => Matches(temporary[t])

LicenceInv == LicensingTypeOK /\ CheckedFirst

LEMMA LicenceInitial == StartupInit => LicenceInv
<1> SUFFICES ASSUME StartupInit PROVE LicenceInv
  OBVIOUS
<1>1. LicensingInit  BY DEF StartupInit
<1>2. Idle \in Import  BY DEF Idle, Import, File
<1>3. LicensingTypeOK  BY <1>1, <1>2 DEF LicensingInit, LicensingTypeOK, File
<1>4. \A t \in Tool : tool[t].pc = "idle"  BY <1>1 DEF LicensingInit, Idle
<1> QED  BY <1>3, <1>4 DEF LicenceInv, CheckedFirst

LEMMA ImportKeeps ==
  ASSUME LicenceInv, NEW t \in Tool, ImportStep(t)
  PROVE  LicenceInv'
<1> USE LicensingAssumption DEF LicenceInv, LicensingTypeOK, CheckedFirst, File, Import, Idle, Ended,
          Matches, office
<1>1. CASE CheckSource(t)  BY <1>1 DEF CheckSource, Valid, Authentic, Permits
<1>2. CASE CreateTemporary(t)
  <2>1. CASE source # NoFile /\ temporary[t] = NoFile
    <3>1. tool' = [tool EXCEPT ![t] = [tool[t] EXCEPT !.pc = "writing", !.bytes = source]]
      BY <1>2, <2>1 DEF CreateTemporary
    <3>2. tool'[t] = [pc |-> "writing", bytes |-> source, touched |-> tool[t].touched]
      <4>1. tool \in [Tool -> Import] /\ tool[t] \in Import  BY DEF LicenceInv
      <4> HIDE DEF LicenceInv, LicensingTypeOK, CheckedFirst, Matches, File
      <4>2. tool'[t] = [tool[t] EXCEPT !.pc = "writing", !.bytes = source]  BY <3>1, <4>1
      <4> QED  BY <4>1, <4>2
    <3>3. tool' \in [Tool -> Import] /\ \A u \in Tool : u # t => tool'[u] = tool[u]
      BY <3>1, <3>2
    <3>4. /\ temporary' = [temporary EXCEPT ![t] = Damaged]
          /\ UNCHANGED <<disk, expired, office, source, installed>>
      BY <1>2, <2>1 DEF CreateTemporary
    <3>5. ~tool[t].touched => Matches(source)
      BY <1>2 DEF CreateTemporary
    <3>6. LicensingTypeOK'
      <4>1. temporary' \in [Tool -> File]  BY <3>4
      <4> QED  BY <3>3, <3>4, <4>1
    <3>7. ASSUME NEW u \in Tool, ~tool'[u].touched
          PROVE  /\ tool'[u].pc = "checked" => source' = DiskIdentifier(disk')
                 /\ tool'[u].pc \in {"writing", "written"} => (tool'[u].bytes = DiskIdentifier(disk'))
                 /\ tool'[u].pc = "written" => (temporary'[u] = DiskIdentifier(disk'))
      <4>1. CASE u = t
        <5>1. tool'[u].pc = "writing" /\ tool'[u].bytes = source /\ ~tool[t].touched
          BY <3>2, <3>7, <4>1
        <5> QED  BY <3>4, <3>5, <5>1
      <4>2. CASE u # t
        <5>1. tool'[u] = tool[u] /\ temporary'[u] = temporary[u]
          BY <3>3, <3>4, <4>2
        <5> QED  BY <3>4, <3>7, <5>1
      <4> QED  BY <4>1, <4>2
    <3> QED  BY <3>6, <3>7
  <2>2. CASE source = NoFile \/ temporary[t] # NoFile
    <3>1. tool' = [tool EXCEPT ![t] = Idle]
          /\ UNCHANGED <<temporary, disk, expired, office, source, installed>>
      BY <1>2, <2>2 DEF CreateTemporary
    <3>2. LicensingTypeOK'  BY <3>1
    <3>3. \A u \in Tool : tool'[u] = tool[u] \/ tool'[u].pc = "idle"  BY <3>1
    <3>4. CheckedFirst'  BY <3>1, <3>3
    <3> QED  BY <3>2, <3>4
  <2> QED  BY <2>1, <2>2
<1>3. CASE WriteTemporary(t)
  <2>1. CASE tool' = [tool EXCEPT ![t].pc = "written"] /\ temporary' = [temporary EXCEPT ![t] = tool[t].bytes]
    BY <1>3, <2>1 DEF WriteTemporary
  <2>2. CASE temporary' = [temporary EXCEPT ![t] = NoFile] /\ Ended(t)
    BY <1>3, <2>2 DEF WriteTemporary
  <2> QED  BY <1>3, <2>1, <2>2 DEF WriteTemporary
<1>4. CASE Install(t)  BY <1>4 DEF Install
<1>5. CASE StopImport(t)  BY <1>5 DEF StopImport
<1> QED  BY <1>1, <1>2, <1>3, <1>4, <1>5 DEF ImportStep

\* Gateways, systemd and the settings leave the licence alone.
LEMMA LicenceSteps ==
  ASSUME [StartupNext]_svars
  PROVE  LicensingNext \/ SwitchOff \/ UNCHANGED lvars
<1>1. ASSUME NEW p \in Publisher, PublisherStep(p) PROVE UNCHANGED lvars
  BY <1>1 DEF PublisherStep, Deny, Bring, StartUnit, GiveUpUnit
<1>2. ASSUME NEW p \in Publisher, StartByHand(p) \/ ShutDownPublisher(p) \/ KillPublisher(p)
      PROVE  UNCHANGED lvars
  BY <1>2 DEF StartByHand, ShutDownPublisher, KillPublisher
<1>3. CASE TenSecondsPass \/ OperatorStarts \/ EditSources \/ UNCHANGED svars
  BY <1>3 DEF TenSecondsPass, OperatorStarts, EditSources, svars
<1> QED  BY <1>1, <1>2, <1>3 DEF StartupNext

LEMMA LicenceInductive == LicenceInv /\ [StartupNext]_svars => LicenceInv'
<1> SUFFICES ASSUME LicenceInv, [StartupNext]_svars PROVE LicenceInv'
  OBVIOUS
<1>0. UNCHANGED lvars => LicenceInv'
  BY DEF lvars, LicenceInv, LicensingTypeOK, CheckedFirst, Matches
<1>1. CASE UNCHANGED lvars
  BY <1>0, <1>1
<1>2. CASE LicensingNext
  <2>1. ASSUME NEW t \in Tool, ImportStep(t) PROVE LicenceInv'
    BY <2>1, ImportKeeps
  <2>2. CASE ChangeSource
    <3>1. LicensingTypeOK /\ CheckedFirst  BY DEF LicenceInv
    <3>2. /\ UNCHANGED <<disk, expired, requested, issued, installed, temporary>>
          /\ source' \in File
      BY <2>2, <3>1 DEF ChangeSource, LicensingTypeOK, File, office
    <3>3. \A t \in Tool :
            /\ tool[t] \in Import
            /\ tool'[t] = [tool[t] EXCEPT !.touched = (@ \/ tool[t].pc = "checked")]
      BY <2>2, <3>1 DEF ChangeSource, LicensingTypeOK
    <3>4. \A t \in Tool :
            /\ tool'[t] \in Import /\ tool'[t].pc = tool[t].pc /\ tool'[t].bytes = tool[t].bytes
            /\ ~tool'[t].touched => ~tool[t].touched /\ tool[t].pc # "checked"
      BY <3>3 DEF Import
    <3>5. tool' \in [Tool -> Import]
      BY <2>2, <3>4 DEF ChangeSource
    <3>6. LicensingTypeOK'  BY <3>1, <3>2, <3>5 DEF LicensingTypeOK, File
    <3>7. CheckedFirst'  BY <3>1, <3>2, <3>4 DEF CheckedFirst, Matches
    <3> QED  BY <3>6, <3>7 DEF LicenceInv
  <2>3. CASE ChangeClock
    BY <2>3 DEF ChangeClock, LicenceInv, LicensingTypeOK, CheckedFirst, Matches, office
  <2>4. CASE Request
    BY <2>4 DEF Request, Licence, LicenceInv, LicensingTypeOK, CheckedFirst, Matches
  <2>5. CASE Issue
    BY <2>5 DEF Issue, LicenceInv, LicensingTypeOK, CheckedFirst, Matches
  <2> QED  BY <1>2, <2>1, <2>2, <2>3, <2>4, <2>5 DEF LicensingNext
<1>3. CASE SwitchOff
  BY <1>3 DEF SwitchOff, ReplaceDisk, LicenceInv, LicensingTypeOK, CheckedFirst, Import, Idle, File,
    office
<1> QED  BY <1>1, <1>2, <1>3, LicenceSteps

\* A step that changes the installed licence is the rename of an import.
LEMMA OnlyInstallInstalls ==
  ASSUME [StartupNext]_svars, installed' # installed
  PROVE  \E t \in Tool : Install(t)
<1>1. CASE UNCHANGED lvars
  BY <1>1 DEF lvars
<1>2. CASE LicensingNext
  BY <1>2 DEF LicensingNext, ImportStep, CheckSource, CreateTemporary, WriteTemporary,
    StopImport, ChangeSource, ChangeClock, Request, Issue, office
<1>3. CASE SwitchOff
  BY <1>3 DEF SwitchOff, ReplaceDisk
<1> QED  BY <1>1, <1>2, <1>3, LicenceSteps

\* install_atomically: no import, whatever becomes of it, replaces a valid
\* licence by one that is not, unless the file it imports is changed meanwhile.
THEOREM LicenceKept == StartupSpec => LicenceIsKept
<1> DEFINE Keeps ==
     (\E t \in Tool : tool[t].pc # "idle" /\ tool[t].touched)
     \/ (Valid(installed) /\ installed' # installed => Valid(installed)')
<1>1. ASSUME LicenceInv, [StartupNext]_svars PROVE Keeps
  <2> SUFFICES ASSUME \A t \in Tool : tool[t].pc # "idle" => ~tool[t].touched,
                      Valid(installed), installed' # installed
               PROVE  Valid(installed)'
    BY DEF LicenceInv, LicensingTypeOK, Import
  <2>1. PICK t \in Tool : Install(t)  BY <1>1, OnlyInstallInstalls
  <2>2. Matches(temporary[t])  BY <1>1, <2>1 DEF LicenceInv, CheckedFirst, Install
  <2> QED  BY <1>1, <2>1, <2>2 DEF Install, Valid, Authentic, Permits, Matches, office, LicenceInv,
    LicensingTypeOK
<1>2. ASSUME LicenceInv, [StartupNext]_svars PROVE [Keeps]_lvars
  BY <1>1, <1>2
<1> QED  BY <1>2, LicenceInitial, LicenceInductive, PTL DEF StartupSpec, LicenceIsKept

-----------------------------------------------------------------------------
(* The settings.                                                           *)

\* With config.env alone, it is that file over the defaults.
Alone(defaults, file, keys) ==
  defaults ++ file ++ NoSettings ++ Known(NoSettings, keys) ++ NoSettings

LEMMA FileOverDefaults ==
  ASSUME NEW defaults, NEW file, NEW keys, NEW key \in DOMAIN defaults \cup DOMAIN file
  PROVE  /\ key \in DOMAIN Alone(defaults, file, keys)
         /\ Alone(defaults, file, keys)[key] =
              IF key \in DOMAIN file THEN file[key] ELSE defaults[key]
<1> DEFINE none == Known(NoSettings, keys)
           first == defaults ++ file
           second == first ++ NoSettings
           third == second ++ none
<1>1. DOMAIN NoSettings = {} /\ DOMAIN none = {}
  BY DEF NoSettings, Known
<1>2. key \in DOMAIN first /\ first[key] = IF key \in DOMAIN file THEN file[key] ELSE defaults[key]
  BY DEF ++
<1> HIDE DEF first, none
<1>3. key \in DOMAIN second /\ second[key] = first[key]
  BY <1>1, <1>2 DEF ++
<1> HIDE DEF second
<1>4. key \in DOMAIN third /\ third[key] = first[key]
  BY <1>1, <1>3 DEF ++
<1> HIDE DEF third
<1>5. key \in DOMAIN (third ++ NoSettings) /\ (third ++ NoSettings)[key] = first[key]
  BY <1>1, <1>4 DEF ++
<1> QED  BY <1>2, <1>5 DEF Alone, third, second, first, none

LEMMA SettingsAgree ==
  ASSUME NEW s, SharedOnly(s), WellNamed(s), IsSources(s)
  PROVE  Agree(s)
<1> DEFINE file == s.shared
<1>0. \A service \in Service :
        /\ s.own[service] = NoSettings
        /\ s.environment[service] = NoSettings /\ s.arguments[service] = NoSettings
  BY DEF SharedOnly
<1>1. /\ RecorderSettings(s) = Alone(RecorderDefaults, file, RecorderKeys)
      /\ ProcessorSettings(s) = Alone(ProcessorDefaults, file, ProcessorKeys)
      /\ UploaderSettings(s) = Alone(UploaderDefaults, file, UploaderKeys)
  BY <1>0 DEF Service, Alone, RecorderSettings, ProcessorSettings, UploaderSettings
<1>2. Unquoted(NoSettings) = NoSettings
  BY DEF Unquoted, NoSettings
<1>3. GatewaySettings(s) = Alone(GatewayDefaults, Unquoted(file), GatewayKeys)
  BY <1>0, <1>2 DEF Service, Alone, GatewaySettings
<1>4. "RESULT_QUEUE_DB" \in DOMAIN file /\ ~Blank(file["RESULT_QUEUE_DB"])
  BY DEF WellNamed, Given
<1>5. ProcessorQueue(s) = UploaderQueue(s)
  <2>1. /\ "RESULT_QUEUE_DB" \in DOMAIN ProcessorSettings(s)
        /\ ProcessorSettings(s)["RESULT_QUEUE_DB"] = file["RESULT_QUEUE_DB"]
    BY <1>1, <1>4, FileOverDefaults
  <2>2. UploaderSettings(s)["RESULT_QUEUE_DB"] = file["RESULT_QUEUE_DB"]
    BY <1>1, <1>4, FileOverDefaults
  <2> QED  BY <1>4, <2>1, <2>2 DEF ProcessorQueue, UploaderQueue, Given
<1>6. RecorderSettings(s)["SESSIONS_DIR"] = ProcessorSettings(s)["SESSIONS_DIR"]
  <2>1. /\ "SESSIONS_DIR" \in DOMAIN RecorderDefaults /\ "SESSIONS_DIR" \in DOMAIN ProcessorDefaults
        /\ RecorderDefaults["SESSIONS_DIR"] = ProcessorDefaults["SESSIONS_DIR"]
    BY DEF RecorderDefaults, ProcessorDefaults
  <2> QED  BY <1>1, <2>1, FileOverDefaults
<1>7. /\ RecorderSettings(s)["ZMQ_IPC_ENDPOINT"] = ProcessorSettings(s)["ZMQ_IPC_ENDPOINT"]
      /\ GatewaySettings(s)["ZMQ_IPC_ENDPOINT"] = ProcessorSettings(s)["ZMQ_IPC_ENDPOINT"]
  <2>1. /\ "ZMQ_IPC_ENDPOINT" \in DOMAIN RecorderDefaults
        /\ "ZMQ_IPC_ENDPOINT" \in DOMAIN ProcessorDefaults
        /\ "ZMQ_IPC_ENDPOINT" \in DOMAIN GatewayDefaults
        /\ RecorderDefaults["ZMQ_IPC_ENDPOINT"] = ProcessorDefaults["ZMQ_IPC_ENDPOINT"]
        /\ GatewayDefaults["ZMQ_IPC_ENDPOINT"] = ProcessorDefaults["ZMQ_IPC_ENDPOINT"]
    BY DEF RecorderDefaults, ProcessorDefaults, GatewayDefaults
  <2>2. DOMAIN Unquoted(file) = DOMAIN file
    BY DEF Unquoted
  <2>3. "ZMQ_IPC_ENDPOINT" \in DOMAIN file =>
          Unquoted(file)["ZMQ_IPC_ENDPOINT"] = file["ZMQ_IPC_ENDPOINT"]
    <3> SUFFICES ASSUME "ZMQ_IPC_ENDPOINT" \in DOMAIN file
                 PROVE  Unquoted(file)["ZMQ_IPC_ENDPOINT"] = file["ZMQ_IPC_ENDPOINT"]
      OBVIOUS
    <3> DEFINE text == file["ZMQ_IPC_ENDPOINT"]
    <3>1. text \in Text /\ text.quoted = FALSE
      BY DEF WellNamed, IsSources, IsSettings, Text
    <3>2. [text EXCEPT !.quoted = FALSE] = text
      BY <3>1 DEF Text
    <3> QED  BY <3>2 DEF Unquoted
  <2> QED  BY <1>1, <1>3, <2>1, <2>2, <2>3, FileOverDefaults
<1> QED  BY <1>5, <1>6, <1>7 DEF Agree

\* parse_args of the four services: settings that stand in config.env only,
\* with the queue named and the endpoint without quotes, mean the same to all.
THEOREM ServicesAgree == StartupSpec => []AgreeWhenNamed
<1> DEFINE Inv == sources \in Configurations
<1>1. StartupInit => Inv  BY DEF StartupInit
<1>2. Inv /\ [StartupNext]_svars => Inv'
  BY DEF StartupNext, PublisherStep, Deny, Bring, StartUnit, GiveUpUnit, StartByHand,
    ShutDownPublisher, KillPublisher, TenSecondsPass, OperatorStarts, SwitchOff, EditSources, svars
<1>3. Inv => AgreeWhenNamed
  BY SettingsAgree, StartupAssumption DEF AgreeWhenNamed
<1> QED  BY <1>1, <1>2, <1>3, PTL DEF StartupSpec
=============================================================================
