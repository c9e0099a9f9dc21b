---------------------------- MODULE FileReplacement ----------------------------
(***************************************************************************)
(* What replacing a file under its own name promises, whatever does it:    *)
(* the name shows the old contents, the complete new ones or nothing;      *)
(* whatever it showed is first set aside, and what is set aside is only    *)
(* given up once the new contents are in place for good.                   *)
(***************************************************************************)
VARIABLES
  dest,    \* contents under the name
  aside,   \* contents kept under other names
  settled  \* TRUE once the replacement is final

vars == <<dest, aside, settled>>

TypeOK ==
  /\ dest \in {"none", "old", "new"}
  /\ aside \subseteq {"old", "new"}
  /\ settled \in BOOLEAN

Init ==
  /\ dest \in {"none", "old"}
  /\ aside = {}
  /\ settled = FALSE

(* The old file makes room under its name.                                 *)
SetAside ==
  /\ dest # "none"
  /\ dest' = "none"
  /\ aside' = aside \cup {dest}

(* The new contents appear, complete, where nothing was.                   *)
Publish ==
  /\ dest = "none"
  /\ dest' = "new"
  /\ UNCHANGED aside

(* They are taken back, to undo the replacement.                           *)
Withdraw ==
  /\ dest = "new"
  /\ dest' = "none"
  /\ UNCHANGED aside

(* What was set aside returns, where the old contents are not.             *)
Restore ==
  /\ dest # "old"
  /\ dest' \in aside
  /\ aside' \in {aside, aside \ {dest'}}

(* The new contents stay.                                                  *)
Settle ==
  /\ dest = "new"
  /\ UNCHANGED <<dest, aside>>

(* What was set aside is no longer needed.                                 *)
Forget ==
  /\ settled
  /\ UNCHANGED <<dest, settled>>
  /\ aside' \subseteq aside

Next ==
  \/ /\ ~settled
     /\ \/ (SetAside \/ Publish \/ Withdraw \/ Restore) /\ UNCHANGED settled
        \/ Settle /\ settled' = TRUE
  \/ Forget

Spec == Init /\ [][Next]_vars

-----------------------------------------------------------------------------
(* Once the replacement is final the new contents are in place, and until  *)
(* then the old ones, where there are any, are somewhere.                  *)
NothingLost ==
  [][/\ settled' => dest' = "new"
     /\ ~settled' /\ "old" \in aside \cup {dest} => "old" \in aside' \cup {dest'}]_vars
================================================================================
