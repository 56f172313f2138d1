--------------------------- MODULE SessionLifecycle ---------------------------
(***************************************************************************)
(* What the session storage promises about one session, whatever crashes:  *)
(* the session is in one place at a time and moves only along these edges. *)
(*                                                                         *)
(*        new -> capturing -> ready <-> claimed -> gone                    *)
(*                   |          |          |                               *)
(*                   +-> gone   +-> failed <+      (capturing -> failed)   *)
(*                                                                         *)
(* "failed" and "gone" are final: a session that was given up is preserved *)
(* and never worked on again, one whose directory was removed never comes  *)
(* back.  The edges between directories are those of                       *)
(* SessionState::can_transition_to; "gone" is delete_claimed and           *)
(* discard_capture.                                                        *)
(***************************************************************************)
CONSTANT Session

VARIABLE place   \* where each session is

Directories == {"capturing", "ready", "claimed", "failed"}
Places      == Directories \cup {"new", "gone"}

\* Every session is in one of the places of the lifecycle.
TypeOK == place \in [Session -> Places]

Edges ==
  {<<"new", "capturing">>,
   <<"capturing", "ready">>, <<"capturing", "failed">>, <<"capturing", "gone">>,
   <<"ready", "claimed">>,   <<"ready", "failed">>,
   <<"claimed", "ready">>,   <<"claimed", "failed">>,   <<"claimed", "gone">>}

Init == place = [s \in Session |-> "new"]

Move(s) ==
  \E to \in Places : <<place[s], to>> \in Edges /\ place' = [place EXCEPT ![s] = to]

Next == \E s \in Session : Move(s)

Spec == Init /\ [][Next]_place
=============================================================================
