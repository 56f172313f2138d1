------------------------------ MODULE DoorEndpoint ------------------------------
(***************************************************************************)
(* Who owns the IPC socket of the door bus (crates/pcrt-door-zmq): several *)
(* gateways may be started on one endpoint, by systemd and by hand, and    *)
(* die at any point.  The owner holds the lock on the file beside the      *)
(* socket; a socket left behind by a dead owner is removed by the next.    *)
(***************************************************************************)
CONSTANTS
  Publisher,
  NoOne

VARIABLES
  path,       \* whose socket the path leads to; it outlives its owner
  lock,       \* who holds the lock; the kernel takes it from the dead
  publisher   \* where each gateway is

evars == <<path, lock, publisher>>

ASSUME EndpointAssumption == NoOne \notin Publisher

Stages == {"down", "starting", "probing", "clearing", "binding", "serving", "closing"}

EndpointTypeOK ==
  /\ path \in Publisher \cup {NoOne} /\ lock \in Publisher \cup {NoOne}
  /\ publisher \in [Publisher -> Stages]

Goes(p, stage) == publisher' = [publisher EXCEPT ![p] = stage]

\* A socket somebody listens on.
Answers == path # NoOne /\ publisher[path] = "serving"

-----------------------------------------------------------------------------
(* DoorPublisher::bind.                                                    *)

\* A lock held by another ends the start: IpcAlreadyOwned.
TakeLock(p) ==
  /\ publisher[p] = "starting"
  /\ IF lock = NoOne THEN lock' = p /\ Goes(p, "probing")
     ELSE Goes(p, "down") /\ UNCHANGED lock
  /\ UNCHANGED path

\* Mutant: whatever is at the path ends the start.
ProbeRefusesAny(p) ==
  /\ publisher[p] = "probing"
  /\ IF path = NoOne THEN Goes(p, "binding") /\ UNCHANGED lock
     ELSE Goes(p, "down") /\ lock' = NoOne
  /\ UNCHANGED path

\* A socket that refuses the connection is stale.  (One that answers, a symbolic
\* link or another kind of file would not be ours: it ends the start.)
Probe(p) ==
  /\ publisher[p] = "probing" /\ ~Answers
  /\ Goes(p, IF path = NoOne THEN "binding" ELSE "clearing")
  /\ UNCHANGED <<path, lock>>

RemoveStale(p) ==
  /\ publisher[p] = "clearing"
  /\ path' = NoOne /\ Goes(p, "binding")
  /\ UNCHANGED lock

\* The library puts its socket at the path, whatever is there.
Bind(p) ==
  /\ publisher[p] = "binding"
  /\ path' = p /\ Goes(p, "serving")
  /\ UNCHANGED lock

-----------------------------------------------------------------------------
(* DoorPublisher::close, and Drop where the gateway ends with an error.    *)

\* Mutant: the lock goes with the socket.
CloseUnlocks(p) ==
  /\ publisher[p] = "serving"
  /\ Goes(p, "closing") /\ lock' = NoOne
  /\ UNCHANGED path

\* The socket goes first.
Close(p) ==
  /\ publisher[p] = "serving"
  /\ Goes(p, "closing")
  /\ UNCHANGED <<path, lock>>

\* Then the socket at the path, which the library may have removed itself, and
\* with the process the lock.
Release(p) ==
  /\ publisher[p] = "closing"
  /\ path' = NoOne
  /\ lock' = (IF lock = p THEN NoOne ELSE lock) /\ Goes(p, "down")

\* The gateway is killed: the path stays.
Kill(p) ==
  /\ publisher[p] # "down"
  /\ lock' = (IF lock = p THEN NoOne ELSE lock) /\ Goes(p, "down")
  /\ UNCHANGED path

EndpointStep(p) ==
  TakeLock(p) \/ Probe(p) \/ RemoveStale(p) \/ Bind(p) \/ Release(p)

EndpointInit ==
  /\ path \in Publisher \cup {NoOne} /\ lock = NoOne
  /\ publisher = [p \in Publisher |-> "down"]

-----------------------------------------------------------------------------
(* Safety.                                                                 *)

\* The lock is held by the one gateway past TakeLock, if any.
LockIsExclusive ==
  \A p \in Publisher : publisher[p] \notin {"down", "starting"} <=> lock = p

\* While a gateway publishes, the path leads to its own socket: a second one
\* that starts, fails or shuts down beside it neither takes the path nor
\* removes it, and no two publish at a time.
EndpointHasOneOwner ==
  \A p \in Publisher : publisher[p] = "serving" => path = p /\ lock = p
=============================================================================
