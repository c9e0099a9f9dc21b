------------------------------ MODULE MCXellHttp ------------------------------
(***************************************************************************)
(* XellHttp with a ring of nine bytes and three answers of twelve to       *)
(* eighteen bytes, so that each goes around the ring's end, one of them    *)
(* twice.  All begin with the status line, which is two bytes longer than  *)
(* what it asks for (13 + strlen against the 15 + strlen it writes), and a *)
(* header line.                                                            *)
(***************************************************************************)
EXTENDS XellHttp

AfterHead(rest) == <<[upto |-> 4, need |-> 2], [upto |-> 6, need |-> 2]>> \o rest

MCAnswers == {
  \* response_flash_do_data: whole pages
  AfterHead([page \in 1 .. 3 |-> [upto |-> 6 + 3 * page, need |-> 3]]),
  \* response_static_do_data, fuse, keyvault: whatever there is room for
  AfterHead([byte \in 1 .. 12 |-> [upto |-> 6 + byte, need |-> 1]]),
  \* response_index_do_data: a line when more than its length is left
  AfterHead(<<[upto |-> 11, need |-> 6], [upto |-> 12, need |-> 2]>>)}
================================================================================
