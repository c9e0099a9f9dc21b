------------------------------- MODULE XellHttp -------------------------------
(***************************************************************************)
(* One connection of the payload's web server (lv2/httpd/httpd.c) from its *)
(* acceptance to its end: the request is read, a handler produces the      *)
(* answer into a ring buffer, the ring is handed to lwIP's TCP as its send *)
(* buffer allows, and the connection is closed after the last byte.  Every *)
(* step is one of the callbacks lwIP calls from the payload's main loop,   *)
(* or something TCP does.                                                  *)
(*                                                                         *)
(* An answer is a sequence of pieces that are written whole: the status    *)
(* line, each header line, and what the handler's do_data writes at a      *)
(* time (a flash page, a line of the index page, or single bytes where it  *)
(* writes whatever there is room for).  A piece ends at byte "upto" of the *)
(* answer and is written when httpd_available_sendbuffer says "need".      *)
(* The bytes of the answer are numbered from 1.                            *)
(***************************************************************************)
EXTENDS Naturals, Sequences

CONSTANTS
  Ring,     \* SENDBUFFER_LEN
  Spare,    \* what httpd_available_sendbuffer holds back: 10
  SndBuf,   \* TCP_SND_BUF
  Tries,    \* polls without progress before the connection is aborted: 4
  Answers   \* what the handlers answer

Start(a, p) == IF p = 1 THEN 0 ELSE a[p - 1].upto

(* A piece may be longer than what was asked for (the status line, by its  *)
(* line end), by less than the spare; an empty ring takes any piece.       *)
ASSUME SizesAssumption ==
  /\ Ring \in Nat /\ Spare \in 1 .. Ring - 1
  /\ SndBuf \in Nat \ {0} /\ Tries \in Nat \ {0}

ASSUME AnswersAssumption ==
  \A a \in Answers :
    /\ a \in Seq([upto : Nat, need : Nat]) /\ a # <<>>
    /\ \A p \in 1 .. Len(a) :
         /\ a[p].need \in 1 .. Ring - Spare
         /\ a[p].upto \in Start(a, p) + 1 .. Start(a, p) + a[p].need + Spare - 1
    /\ \A q \in 1 .. Len(a) + 1 : \A p \in 1 .. q : Start(a, p) <= Start(a, q)

VARIABLES
  answer,      \* what the handler answers; <<>> before the request line
  client,      \* state_client
  server,      \* state_server: "IDLE", "BUSY" (RESPONSE, HEADER and DATA), "CLOSE"
  piece,       \* the next piece to write
  buf, rd, wr, \* sendbuffer, sendbuffer_read, sendbuffer_write
  retries,     \* retries
  handler,     \* handler # 0
  priv,        \* response_priv is allocated
  finishes,    \* calls of the handler's finish
  http,        \* the connection's state is allocated
  registered,  \* tcp_arg, tcp_recv and tcp_sent are set
  tcp,         \* the state of lwIP's control block
  given,       \* the bytes tcp_write took
  acked,       \* how many of them the client acknowledged
  end          \* what ended the server's part; "open" until then

ring == <<buf, rd, wr, piece>>
memory == <<handler, priv, finishes, http, registered>>
vars == <<answer, client, server, ring, retries, memory, tcp, given, acked, end>>

Slot(i) == IF i >= Ring THEN i - Ring ELSE i
Used == IF wr >= rd THEN wr - rd ELSE wr + Ring - rd
Total == IF answer = <<>> THEN 0 ELSE answer[Len(answer)].upto
Made == IF answer = <<>> THEN 0 ELSE Start(answer, piece)

Init ==
  /\ answer = <<>>
  /\ client = "REQUEST" /\ server = "IDLE"
  /\ piece = 1
  /\ buf = [s \in 0 .. Ring - 1 |-> 0] /\ rd = 0 /\ wr = 0
  /\ retries = 0
  /\ handler = FALSE /\ priv = FALSE /\ finishes = 0
  /\ http = TRUE /\ registered = TRUE
  /\ tcp = "ESTABLISHED"
  /\ given = <<>> /\ acked = 0
  /\ end = "open"

-----------------------------------------------------------------------------
AvailableAll(u) == Ring - u

(* httpd_available_sendbuffer with u bytes in the ring.                    *)
Available(u) == IF Ring - u < Spare THEN 0 ELSE Ring - u - Spare

Fits(q) == Available(Used + Start(answer, q) - Made) >= answer[q].need

(* Where httpd_handle_server stops: at the first piece that does not fit.  *)
Stops == {p \in piece .. Len(answer) + 1 :
            /\ \A q \in piece .. p - 1 : Fits(q)
            /\ p <= Len(answer) => ~Fits(p)}

FilledUnwrapped(p) ==
  [s \in 0 .. Ring - 1 |->
     IF s >= wr /\ s - wr < Start(answer, p) - Made THEN Made + s - wr + 1 ELSE buf[s]]

(* httpd_put_sendbuffer: the bytes up to piece p, around the ring's end.   *)
Filled(p) ==
  [s \in 0 .. Ring - 1 |->
     LET behind == IF s >= wr THEN s - wr ELSE s + Ring - wr
     IN  IF behind < Start(answer, p) - Made THEN Made + behind + 1 ELSE buf[s]]

(* What tcp_do_send gets accepted of n bytes: all, or a half of a half,    *)
(* each time tcp_write is out of memory, and nothing once one is left.     *)
Accepted(n) == {0, n} \cup {m \in 2 .. n : \E j \in 1 .. n : m = n \div 2 ^ j}

HandOverUnwrapped(newBuf, newWr, inFlight) ==
  LET run  == IF newWr >= rd THEN newWr - rd ELSE Ring - rd
      room == SndBuf - inFlight
  IN  \E n \in Accepted(IF room < run THEN room ELSE run) :
        /\ given' = given \o [i \in 1 .. n |-> newBuf[rd + i - 1]]
        /\ rd' = rd + n

(* send_data with the ring as httpd_handle_server leaves it: one run of    *)
(* bytes, not across the ring's end, and not more than tcp_sndbuf.         *)
HandOver(newBuf, newWr, inFlight) ==
  LET run  == IF newWr >= rd THEN newWr - rd ELSE Ring - rd
      room == SndBuf - inFlight
  IN  \E n \in Accepted(IF room < run THEN room ELSE run) :
        /\ given' = given \o [i \in 1 .. n |-> newBuf[rd + i - 1]]
        /\ rd' = Slot(rd + n)

(* httpd_handle_server while there is an answer to write: it fills the     *)
(* ring and, after the last piece, lets the handler finish and go.         *)
WriteAndSend(inFlight) ==
  \E p \in Stops :
    /\ piece' = p
    /\ buf' = Filled(p)
    /\ wr' = Slot(wr + Start(answer, p) - Made)
    /\ IF p > Len(answer)
         THEN /\ server' = "CLOSE"
              /\ handler' = FALSE /\ priv' = FALSE /\ finishes' = finishes + 1
         ELSE /\ server' = "BUSY"
              /\ UNCHANGED <<handler, priv, finishes>>
    /\ HandOver(buf', wr', inFlight)
    /\ UNCHANGED <<http, registered, tcp, end>>

SendOnly(inFlight) ==
  /\ HandOver(buf, wr, inFlight)
  /\ UNCHANGED <<buf, wr, piece, server, memory, tcp, end>>

SendData(inFlight) ==
  IF server = "CLOSE" THEN SendOnly(inFlight) ELSE WriteAndSend(inFlight)

CloseConnAlwaysFinishes(how) ==
  /\ priv' = FALSE
  /\ finishes' = finishes + 1
  /\ handler' = FALSE
  /\ registered' = FALSE /\ http' = FALSE
  /\ tcp' \in {"FIN_WAIT", "ESTABLISHED"}
  /\ end' = how
  /\ UNCHANGED <<server, ring, given>>

(* close_conn.  tcp_close fails when there is no memory for the FIN, and   *)
(* nobody looks; the next poll aborts the connection then.                 *)
CloseConn(how) ==
  /\ priv' = (priv /\ ~handler)
  /\ finishes' = IF handler THEN finishes + 1 ELSE finishes
  /\ handler' = FALSE
  /\ registered' = FALSE /\ http' = FALSE
  /\ tcp' \in {"FIN_WAIT", "ESTABLISHED"}
  /\ end' = how
  /\ UNCHANGED <<server, ring, given>>

(* conn_err: the connection is gone, and its state with it; the handler is *)
(* not told.                                                               *)
ConnErr(how) ==
  /\ tcp' = "CLOSED"
  /\ http' = FALSE /\ registered' = FALSE /\ handler' = FALSE
  /\ end' = IF end = "open" THEN how ELSE end
  /\ UNCHANGED <<server, ring, given, priv, finishes>>

-----------------------------------------------------------------------------
(* The request line (httpd_receive_request): the first handler that takes  *)
(* it allocates what it needs; the last one takes anything.                *)
ReceiveRequest ==
  /\ registered /\ client = "REQUEST"
  /\ client' = "HEADER"
  /\ answer' \in Answers
  /\ handler' = TRUE /\ priv' = TRUE
  /\ UNCHANGED <<server, ring, retries, finishes, http, registered, tcp, given, acked, end>>

(* The empty line after the headers (httpd_start_response).                *)
StartResponse ==
  /\ registered /\ client = "HEADER"
  /\ client' = "DATA"
  /\ WriteAndSend(Len(given) - acked)
  /\ UNCHANGED <<answer, retries, acked>>

(* The client acknowledges m more bytes.  http_sent.                       *)
Acknowledged(m) ==
  /\ tcp # "CLOSED"
  /\ acked' = acked + m
  /\ UNCHANGED <<answer, client>>
  /\ IF ~registered
       THEN UNCHANGED <<server, ring, retries, memory, tcp, given, end>>
       ELSE /\ retries' = 0
            /\ IF wr # rd \/ server # "CLOSE"
                 THEN SendData(Len(given) - acked - m)
                 ELSE CloseConn("complete")

(* http_poll, every two seconds.                                           *)
PollAborts ==
  /\ tcp # "CLOSED"
  /\ \/ ~registered /\ retries' = retries
     \/ registered /\ handler /\ wr # rd /\ retries + 1 = Tries /\ retries' = Tries
  /\ ConnErr("aborted")
  /\ UNCHANGED <<answer, client, acked>>

PollSends ==
  /\ registered /\ handler /\ wr # rd
  /\ retries + 1 # Tries
  /\ retries' = retries + 1
  /\ SendData(Len(given) - acked)
  /\ UNCHANGED <<answer, client, acked>>

(* The client closes its side first.  http_recv without data.              *)
ClientCloses ==
  /\ registered
  /\ CloseConn("dropped")
  /\ UNCHANGED <<answer, client, retries, acked>>

(* The client resets the connection, or TCP gives up on it.                *)
Reset ==
  /\ tcp # "CLOSED"
  /\ ConnErr("reset")
  /\ UNCHANGED <<answer, client, retries, acked>>

(* Both ends have closed and everything was acknowledged.                  *)
Closed ==
  /\ tcp = "FIN_WAIT" /\ acked = Len(given)
  /\ tcp' = "CLOSED"
  /\ UNCHANGED <<answer, client, server, ring, retries, memory, given, acked, end>>

Progress == \E m \in 1 .. Len(given) - acked : Acknowledged(m)
Poll == PollAborts \/ PollSends

Next == ReceiveRequest \/ StartResponse \/ Progress \/ Poll \/ ClientCloses \/ Reset \/ Closed

Spec == Init /\ [][Next]_vars

(* What is in flight is acknowledged or TCP gives up on it, and the poll   *)
(* timer runs.  The client need not send its request, nor close or reset.  *)
FairSpec ==
  /\ Spec
  /\ WF_vars(Progress \/ (acked < Len(given) /\ Reset))
  /\ WF_vars(Poll)
-----------------------------------------------------------------------------
TypeOK ==
  /\ answer \in Answers \cup {<<>>}
  /\ client \in {"REQUEST", "HEADER", "DATA"}
  /\ server \in {"IDLE", "BUSY", "CLOSE"}
  /\ piece \in 1 .. Len(answer) + 1
  /\ buf \in [0 .. Ring - 1 -> Nat] /\ rd \in 0 .. Ring - 1 /\ wr \in 0 .. Ring - 1
  /\ retries \in 0 .. Tries
  /\ finishes \in Nat
  /\ {handler, priv, http, registered} \subseteq BOOLEAN
  /\ tcp \in {"ESTABLISHED", "FIN_WAIT", "CLOSED"}
  /\ given \in Seq(Nat) /\ acked \in 0 .. Len(given)
  /\ end \in {"open", "complete", "dropped", "aborted", "reset"}

(* What TCP gets is the answer in order, and the server itself ends the    *)
(* connection (http_sent, close_conn) only after the last byte: no byte is *)
(* overwritten in the ring before it is sent, sent twice at its end, or    *)
(* left in it, however the sends are cut (httpd_put_sendbuffer, send_data).*)
A == INSTANCE HttpAnswer WITH
       out   <- given,
       total <- Total,
       end   <- IF end \in {"open", "complete"} THEN end ELSE "cut"
AnswersWhole == A!Spec

(* The handler finishes once, whichever callback comes first: at the end   *)
(* of its answer or when the client leaves before it.  While it is         *)
(* attached its memory is there, and a close leaves none of it behind (an  *)
(* abort or a reset does: conn_err does not call finish).                  *)
FinishedOnce ==
  /\ finishes <= 1
  /\ handler => http /\ priv
  /\ end \in {"complete", "dropped"} => ~priv /\ ~http

(* The handler has finished, the last bytes are still in the ring because  *)
(* TCP had no memory for them, and nothing is in flight whose              *)
(* acknowledgement would call http_sent; http_poll leaves it alone.        *)
Stalled == server = "CLOSE" /\ wr # rd /\ acked = Len(given) /\ registered

(* A complete request is answered, or its connection ends, whatever memory *)
(* TCP is short of; only the state Stalled holds it up.                    *)
Answered == client = "DATA" ~> (tcp = "CLOSED" \/ Stalled)
================================================================================
