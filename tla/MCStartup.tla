------------------------------- MODULE MCStartup -------------------------------
EXTENDS Startup

\* A disk whose serial Linux shows or does not, and a virtual root device.
CONSTANTS s1, w1
MCDisk == {[serial |-> s1, wwid |-> w1], [serial |-> Unreadable, wwid |-> w1],
           [serial |-> Unreadable, wwid |-> Unreadable]}

\* config.env as it is shipped, and with the queue left out and the endpoint
\* erased.
None == [service \in Service |-> NoSettings]
ConfigOnly(file) ==
  [shared |-> file, own |-> None, environment |-> None, arguments |-> None]
Shipped ==
  [k \in Keys |-> IF k = "SESSIONS_DIR" THEN Plain("var") ELSE
                  IF k = "RESULT_QUEUE_DB" THEN Outbox(Plain("var")) ELSE Plain("run")]
Erased == [k \in Keys \ {"RESULT_QUEUE_DB"} |->
             IF k = "ZMQ_IPC_ENDPOINT" THEN Plain("") ELSE Shipped[k]]
MCConfigurations == {ConfigOnly(Shipped), ConfigOnly(Erased)}

\* Which disk the computer has first makes no difference but for the names.
MCInit == StartupInit /\ disk.serial # Unreadable
MCSpec == MCInit /\ [][StartupNext]_svars /\ StartupFairness
=============================================================================
