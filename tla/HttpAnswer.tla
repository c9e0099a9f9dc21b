------------------------------ MODULE HttpAnswer ------------------------------
(***************************************************************************)
(* What a server that answers one request promises of the byte stream it   *)
(* hands to TCP: the bytes of the answer in their order, none twice and    *)
(* none left out, and an end of the stream declared by the server only     *)
(* after the last of them.  The answer's bytes are numbered 1 .. total.    *)
(***************************************************************************)
EXTENDS Naturals, Sequences

VARIABLES
  out,    \* the bytes handed over
  total,  \* the length of the answer; 0 before it is known
  end     \* "open"; "complete": ended by the server; "cut": by anything else

vars == <<out, total, end>>

Init ==
  /\ out = <<>>
  /\ total = 0
  /\ end = "open"

(* The request arrives, and settles what the answer is.                    *)
Ask ==
  /\ total = 0
  /\ total' \in Nat \ {0}
  /\ UNCHANGED <<out, end>>

(* More of the answer follows what was handed over before.                 *)
Extend ==
  /\ end = "open"
  /\ Len(out') \in Len(out) .. total
  /\ out' = [i \in 1 .. Len(out') |-> i]
  /\ UNCHANGED <<total, end>>

(* The server ends the stream.                                             *)
Complete ==
  /\ end = "open"
  /\ total > 0
  /\ Len(out) = total
  /\ end' = "complete"
  /\ UNCHANGED <<out, total>>

(* The stream ends where it is.                                            *)
Cut ==
  /\ end = "open"
  /\ end' = "cut"
  /\ UNCHANGED <<out, total>>

Next == Ask \/ Extend \/ Complete \/ Cut

Spec == Init /\ [][Next]_vars
================================================================================
