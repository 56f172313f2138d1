------------------------------- MODULE Licensing -------------------------------
(***************************************************************************)
(* The licence of one bus computer (crates/pcrt-license with the tools):   *)
(* a signed document bound to the system disk.  pcrt-license-tool asks for *)
(* it and imports it, and may be run twice at a time and die at any point; *)
(* pcrt-license-admin, elsewhere, issues it.  Signature, format, product,  *)
(* bus and the SMBIOS UUID are told apart only as sound or not.  Every     *)
(* document has the same last day, so whether it is over is a fact about   *)
(* the clock.                                                              *)
(***************************************************************************)
EXTENDS Integers

CONSTANTS
  Disk,       \* what Linux shows of the system disks the computer may have
  Unreadable, \* a serial or WWID that is missing, empty or a placeholder
  Tool,       \* imports, by their process id
  Damaged,    \* a file that is no licence for this bus: unsigned, cut short, for another one
  NoFile

VARIABLES
  disk,      \* the disk in the computer
  expired,   \* the clock is past DEMO_VALID_UNTIL
  requested, \* the requests made so far, each in a file of its own
  issued,    \* the licences issued so far
  source,    \* the file given to the import
  installed, \* license.lic
  temporary, \* the temporary file of each process id
  tool       \* the imports: where they are, and whether their source changed

lvars == <<disk, expired, requested, issued, source, installed, temporary, tool>>
office == <<requested, issued>>

\* read_system_disk_identifier: the serial, or the WWID if there is none.  A
\* virtual root device has neither.
DiskIdentifier(d) ==
  IF d.serial # Unreadable THEN [kind |-> "serial", value |-> d.serial] ELSE
  IF d.wwid # Unreadable THEN [kind |-> "wwid", value |-> d.wwid] ELSE Unreadable

\* What a file holds: a request, and the licence signed for it, is told by the
\* identifier it names.
Licence == {DiskIdentifier(d) : d \in Disk} \ {Unreadable}
File == Licence \cup {Damaged, NoFile}

ASSUME LicensingAssumption ==
  /\ \A d \in Disk : DOMAIN d = {"serial", "wwid"}
  /\ Damaged \notin Licence \cup {Unreadable}
  /\ NoFile \notin Licence \cup {Damaged, Unreadable}

Import == [pc : {"idle", "checked", "writing", "written"},
           bytes : File,  \* what it has read of the source
           touched : BOOLEAN]   \* history: the source changed after the check

LicensingTypeOK ==
  /\ disk \in Disk /\ expired \in BOOLEAN
  /\ requested \subseteq Licence /\ issued \subseteq requested
  /\ source \in File /\ installed \in File
  /\ temporary \in [Tool -> File]
  /\ tool \in [Tool -> Import]

Idle == [pc |-> "idle", bytes |-> NoFile, touched |-> FALSE]
Ended(t) == tool' = [tool EXCEPT ![t] = Idle]

\* verify_envelope, validate_payload_shape: signed, whole and for this bus.
Authentic(file) == file \in Licence

\* collect_hardware_identifiers, hardware_identifiers_match: read anew each time,
\* kind and value the same.  A disk without an identifier matches nothing.
Matches(file) == file = DiskIdentifier(disk)

\* validate_payload: the day and the hardware are as they are now.
Permits(file) == ~expired /\ Matches(file)

\* validate_file: every caller reads the file and checks all of it again.
Valid(file) == Authentic(file) /\ Permits(file)

-----------------------------------------------------------------------------
(* pcrt-license-tool request and pcrt-license-admin issue.                 *)

\* The request names the disk as it is now.  It goes to a file that does not
\* exist yet, so that earlier requests stay; one cut short is no request, and a
\* second one for a disk says what the first did.
Request ==
  /\ DiskIdentifier(disk) \notin requested \cup {Unreadable}
  /\ requested' = requested \cup {DiskIdentifier(disk)}
  /\ UNCHANGED <<disk, expired, issued, source, installed, temporary, tool>>

\* validate_request, then the identifiers of the request are signed as they are:
\* the office cannot tell whether the computer still has that disk.
Issue ==
  /\ \E request \in requested \ issued : issued' = issued \cup {request}
  /\ UNCHANGED <<disk, expired, requested, source, installed, temporary, tool>>

-----------------------------------------------------------------------------
(* pcrt-license-tool import.                                               *)

\* A source that is not valid ends the import.
CheckSource(t) ==
  /\ tool[t].pc = "idle" /\ Valid(source)
  /\ tool' = [tool EXCEPT ![t] = [Idle EXCEPT !.pc = "checked"]]
  /\ UNCHANGED <<disk, expired, office, source, installed, temporary>>

\* The source is read again, and an empty temporary file is created; one that
\* a process of the same id left behind ends the import.
CreateTemporary(t) ==
  /\ tool[t].pc = "checked"
  /\ \/ /\ source # NoFile /\ temporary[t] = NoFile
        /\ temporary' = [temporary EXCEPT ![t] = Damaged]
        /\ tool' = [tool EXCEPT ![t].pc = "writing", ![t].bytes = source]
     \/ /\ source = NoFile \/ temporary[t] # NoFile
        /\ Ended(t) /\ UNCHANGED temporary
  /\ UNCHANGED <<disk, expired, office, source, installed>>

\* write_all and sync_all; on an error the temporary file is removed.
WriteTemporary(t) ==
  /\ tool[t].pc = "writing"
  /\ \/ /\ temporary' = [temporary EXCEPT ![t] = tool[t].bytes]
        /\ tool' = [tool EXCEPT ![t].pc = "written"]
     \/ temporary' = [temporary EXCEPT ![t] = NoFile] /\ Ended(t)
  /\ UNCHANGED <<disk, expired, office, source, installed>>

\* Mutant: the installed licence is removed to make room for the new one.
InstallByRemoving(t) ==
  /\ tool[t].pc = "written"
  /\ IF installed # NoFile THEN installed' = NoFile /\ UNCHANGED <<temporary, tool>>
     ELSE /\ installed' = temporary[t]
          /\ temporary' = [temporary EXCEPT ![t] = NoFile] /\ Ended(t)
  /\ UNCHANGED <<disk, expired, office, source>>

\* The rename puts the new licence in the place of the old one.
Install(t) ==
  /\ tool[t].pc = "written"
  /\ installed' = temporary[t]
  /\ temporary' = [temporary EXCEPT ![t] = NoFile] /\ Ended(t)
  /\ UNCHANGED <<disk, expired, office, source>>

\* The import is killed, or the permissions cannot be set: its temporary file
\* stays.
StopImport(t) ==
  /\ tool[t].pc # "idle" /\ Ended(t)
  /\ UNCHANGED <<disk, expired, office, source, installed, temporary>>

ImportStep(t) ==
  CheckSource(t) \/ CreateTemporary(t) \/ WriteTemporary(t) \/ Install(t) \/ StopImport(t)

-----------------------------------------------------------------------------
(* The world.                                                              *)

\* The operator puts another file in the place of the source, which may have been
\* issued for a disk the computer had before or be damaged, or takes it away.
ChangeSource ==
  /\ source' \in (issued \cup {Damaged, NoFile}) \ {source}
  /\ tool' = [t \in Tool |->
                [tool[t] EXCEPT !.touched = (@ \/ tool[t].pc = "checked")]]
  /\ UNCHANGED <<disk, expired, office, installed, temporary>>

\* The last day is over, or the clock is put back before it.
ChangeClock ==
  /\ expired' = ~expired
  /\ UNCHANGED <<disk, office, source, installed, temporary, tool>>

\* The disk is replaced by a copy, or Linux shows it otherwise, after the computer
\* was switched off.
ReplaceDisk ==
  /\ disk' \in Disk \ {disk}
  /\ tool' = [t \in Tool |-> Idle]
  /\ UNCHANGED <<expired, office, source, installed, temporary>>

LicensingInit ==
  /\ disk \in Disk /\ expired = FALSE
  /\ requested = {} /\ issued = {}
  /\ source = NoFile /\ installed = NoFile
  /\ temporary = [t \in Tool |-> NoFile]
  /\ tool = [t \in Tool |-> Idle]

LicensingNext ==
  \/ Request \/ Issue
  \/ \E t \in Tool : ImportStep(t)
  \/ ChangeSource \/ ChangeClock

-----------------------------------------------------------------------------
(* Safety.                                                                 *)

\* "An invalid licence does not replace one already installed": an import that
\* dies, fails or races with another never costs the computer a valid licence,
\* as long as nobody changes the file while it is imported.
LicenceIsKept ==
  [][(\E t \in Tool : tool[t].pc # "idle" /\ tool[t].touched)
     \/ (installed' # installed /\ Valid(installed) => Valid(installed)')]_lvars
=============================================================================
