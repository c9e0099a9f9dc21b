----------------------------- MODULE XbdmSession -----------------------------
(***************************************************************************)
(* One XBDM connection (Xbox360.Remote/XbdmClient.cs) used by several      *)
(* callers at a time: commands go out and lines come back on one stream,   *)
(* and nothing in a line says which command it answers.  ioLock gives a    *)
(* call the connection from its first command to its last line.  A call    *)
(* may give up at any time (a read that times out, a cancelled token, a    *)
(* refusal in the middle of a write), and the connection is used on.       *)
(*                                                                         *)
(* Commands are numbered as they are sent.  Of a line only its kind counts:*)
(* a status line that ends the reply, the status 202 that opens a body, a  *)
(* line of a body, or the "." behind it.                                   *)
(***************************************************************************)
EXTENDS Naturals, Sequences, FiniteSets

CONSTANTS
  Callers,   \* who shares the client
  NoOne,     \* not a caller
  Tries,     \* lines ReadResponseAsync reads to find a status: 10
  Chunks,    \* commands of one WriteMemoryAsync
  Bodies,    \* lengths of the bodies the console sends
  MaxCalls   \* bound: how many calls are made

ASSUME SessionAssumption ==
  /\ NoOne \notin Callers
  /\ Tries \in Nat \ {0} /\ Chunks \in Nat \ {0} /\ MaxCalls \in Nat
  /\ Bodies \subseteq Nat

(* SendCommandAsync, SendCommandMaybeLinesAsync, WriteMemoryAsync, and     *)
(* SendCommandAsync from DisposeAsync.                                     *)
Operations == {"line", "lines", "write", "bye"}

VARIABLES
  holder,    \* who has ioLock
  queue,     \* who waits for it
  phase,     \* where a caller is: "idle", "waiting", "send", "reply", "body"
  op,        \* the operation it calls
  left,      \* the commands the call has still to send, with the one under way
  own,       \* the number of the last command of the call, 0 before the first
  got,       \* the command whose status line it took for that one's, 0 before
  tried,     \* lines read in search of the status line
  sent,      \* commands sent
  answered,  \* commands the console has answered
  stream,    \* lines on their way to the client or in the reader's buffer
  disposed,  \* DisposeAsync has disposed of the connection and of ioLock
  abandoned, \* some call ended without having taken a status line for its command
  calls      \* calls made

lock == <<holder, queue>>
call == <<phase, op, left, own, got, tried>>
wire == <<sent, answered, stream>>
vars == <<lock, call, wire, disposed, abandoned, calls>>

Init ==
  /\ holder = NoOne /\ queue = <<>>
  /\ phase = [c \in Callers |-> "idle"]
  /\ op = [c \in Callers |-> "line"]
  /\ left = [c \in Callers |-> 0]
  /\ own = [c \in Callers |-> 0] /\ got = [c \in Callers |-> 0]
  /\ tried = [c \in Callers |-> 0]
  /\ sent = 0 /\ answered = 0 /\ stream = <<>>
  /\ disposed = FALSE /\ abandoned = FALSE
  /\ calls = 0

-----------------------------------------------------------------------------
(* IsResponseLine.                                                         *)
IsStatus(line) == line.kind \in {"status", "multi"}

ReleaseNobody(c) ==
  /\ holder' = NoOne
  /\ phase' = [phase EXCEPT ![c] = "idle"]
  /\ UNCHANGED queue

(* ioLock.Release hands the lock to the caller that waits longest.         *)
Release(c) ==
  IF disposed \/ queue = <<>>
    THEN /\ holder' = NoOne
         /\ phase' = [phase EXCEPT ![c] = "idle"]
         /\ UNCHANGED queue
    ELSE /\ holder' = Head(queue)
         /\ phase' = [phase EXCEPT ![c] = "idle", ![Head(queue)] = "send"]
         /\ queue' = Tail(queue)

(* A call ends, however; DisposeAsync goes on to dispose of everything.    *)
Ends(c) ==
  /\ Release(c)
  /\ disposed' = (disposed \/ op[c] = "bye")
  /\ abandoned' = (abandoned \/ (own[c] # 0 /\ got'[c] = 0))

FreeAlways == TRUE

(* ioLock can be taken at once.                                            *)
Free == holder = NoOne

(* A call begins: ioLock.WaitAsync.                                        *)
Begin(c, o) ==
  /\ phase[c] = "idle" /\ ~disposed
  /\ calls < MaxCalls /\ calls' = calls + 1
  /\ op' = [op EXCEPT ![c] = o]
  /\ left' = [left EXCEPT ![c] = IF o = "write" THEN Chunks ELSE 1]
  /\ own' = [own EXCEPT ![c] = 0] /\ got' = [got EXCEPT ![c] = 0]
  /\ tried' = [tried EXCEPT ![c] = 0]
  /\ IF Free
       THEN /\ holder' = c /\ phase' = [phase EXCEPT ![c] = "send"]
            /\ UNCHANGED queue
       ELSE /\ queue' = Append(queue, c) /\ phase' = [phase EXCEPT ![c] = "waiting"]
            /\ UNCHANGED holder
  /\ UNCHANGED <<wire, disposed, abandoned>>

(* A caller that waits is cancelled.  Nobody wakes it when the lock is     *)
(* disposed of.                                                            *)
Cancelled(c) ==
  /\ phase[c] = "waiting" /\ ~disposed
  /\ phase' = [phase EXCEPT ![c] = "idle"]
  /\ \E i \in 1 .. Len(queue) :
       /\ queue[i] = c
       /\ queue' = [j \in 1 .. Len(queue) - 1 |-> queue[IF j < i THEN j ELSE j + 1]]
  /\ disposed' = (op[c] = "bye")
  /\ UNCHANGED <<holder, op, left, own, got, tried, wire, abandoned, calls>>

(* WriteLineAsync.                                                         *)
Send(c) ==
  /\ phase[c] = "send" /\ ~disposed
  /\ sent' = sent + 1
  /\ own' = [own EXCEPT ![c] = sent + 1]
  /\ got' = [got EXCEPT ![c] = 0] /\ tried' = [tried EXCEPT ![c] = 0]
  /\ phase' = [phase EXCEPT ![c] = "reply"]
  /\ UNCHANGED <<lock, op, left, answered, stream, disposed, abandoned, calls>>

LineSkippedForever(c) ==
  /\ tried' = [tried EXCEPT ![c] = tried[c] + 1]
  /\ UNCHANGED <<lock, phase, op, left, own, got, disposed, abandoned>>

(* ReadResponseAsync reads a line that is no status line; the last of its  *)
(* tries ends the call.                                                    *)
LineSkipped(c) ==
  /\ tried' = [tried EXCEPT ![c] = tried[c] + 1]
  /\ UNCHANGED <<op, left, own, got>>
  /\ IF tried[c] + 1 < Tries
       THEN UNCHANGED <<lock, phase, disposed, abandoned>>
       ELSE Ends(c)

(* It reads a status line.  SendCommandAsync returns it and leaves a body  *)
(* where it is; the next chunk of a write waits for the one before it, and *)
(* a refused one (or one with a body) ends the write.                      *)
StatusTaken(c, line) ==
  /\ got' = [got EXCEPT ![c] = line.cmd]
  /\ UNCHANGED <<op, own, tried>>
  /\ \/ /\ op[c] = "lines" /\ line.kind = "multi"
        /\ phase' = [phase EXCEPT ![c] = "body"]
        /\ UNCHANGED <<lock, left, disposed, abandoned>>
     \/ /\ op[c] = "write" /\ line.kind = "status" /\ left[c] > 1
        /\ left' = [left EXCEPT ![c] = left[c] - 1]
        /\ phase' = [phase EXCEPT ![c] = "send"]
        /\ UNCHANGED <<lock, disposed, abandoned>>
     \/ /\ ~(op[c] = "lines" /\ line.kind = "multi")
        /\ UNCHANGED left
        /\ Ends(c)

ReadResponse(c) ==
  /\ phase[c] = "reply" /\ ~disposed
  /\ stream # <<>> /\ stream' = Tail(stream)
  /\ IF IsStatus(Head(stream)) THEN StatusTaken(c, Head(stream)) ELSE LineSkipped(c)
  /\ UNCHANGED <<sent, answered, calls>>

(* ReadMultiLinesAsync reads to the "." whatever the lines are.            *)
ReadBody(c) ==
  /\ phase[c] = "body" /\ ~disposed
  /\ stream # <<>> /\ stream' = Tail(stream)
  /\ UNCHANGED <<op, left, own, got, tried>>
  /\ IF Head(stream).kind = "end"
       THEN Ends(c)
       ELSE UNCHANGED <<lock, phase, disposed, abandoned>>
  /\ UNCHANGED <<sent, answered, calls>>

(* A timeout, a cancellation, a broken connection.                         *)
GiveUp(c) ==
  /\ phase[c] \in {"send", "reply", "body"}
  /\ UNCHANGED <<op, left, own, got, tried, wire, calls>>
  /\ Ends(c)

Reply(n) ==
  {<<[cmd |-> n, kind |-> "status"]>>} \cup
  {<<[cmd |-> n, kind |-> "multi"]>> \o [i \in 1 .. b |-> [cmd |-> n, kind |-> "line"]]
     \o <<[cmd |-> n, kind |-> "end"]>> : b \in Bodies}

(* The console answers one command after the other.                        *)
Answer ==
  /\ answered < sent /\ ~disposed
  /\ answered' = answered + 1
  /\ \E reply \in Reply(answered + 1) : stream' = stream \o reply
  /\ UNCHANGED <<lock, call, sent, disposed, abandoned, calls>>

Step(c) == Send(c) \/ ReadResponse(c) \/ ReadBody(c) \/ GiveUp(c)

Next ==
  \/ \E c \in Callers : (\E o \in Operations : Begin(c, o)) \/ Cancelled(c) \/ Step(c)
  \/ Answer

Spec == Init /\ [][Next]_vars

(* A call that has the connection goes on or runs into a timeout.          *)
FairSpec == Spec /\ \A c \in Callers : WF_vars(Step(c))
-----------------------------------------------------------------------------
TypeOK ==
  /\ holder \in Callers \cup {NoOne} /\ queue \in Seq(Callers)
  /\ phase \in [Callers -> {"idle", "waiting", "send", "reply", "body"}]
  /\ op \in [Callers -> Operations]
  /\ left \in [Callers -> 0 .. Chunks]
  /\ own \in [Callers -> 0 .. sent] /\ got \in [Callers -> 0 .. sent]
  /\ tried \in [Callers -> 0 .. Tries]
  /\ sent \in Nat /\ answered \in 0 .. sent
  /\ stream \in Seq([cmd : 1 .. sent, kind : {"status", "multi", "line", "end"}])
  /\ {disposed, abandoned} \subseteq BOOLEAN
  /\ calls \in 0 .. MaxCalls

(* A call has the connection to itself: between its first command and its  *)
(* end nobody sends, and each command gets its own reply, also when        *)
(* SendCommandAsync left a body behind: short ones are skipped.  The only  *)
(* thing that gives a caller another's reply is an earlier call that ended *)
(* with its status line still to come.                                     *)
Exclusive ==
  \A c \in Callers :
    /\ phase[c] \in {"send", "reply", "body"} /\ own[c] # 0 => own[c] = sent
    /\ got[c] # 0 => got[c] = own[c] \/ abandoned

(* Every call ends, except that whoever waits for ioLock when the client   *)
(* is disposed of waits for ever.                                          *)
CallsEnd ==
  \A c \in Callers :
    phase[c] # "idle" ~> (phase[c] = "idle" \/ (disposed /\ phase[c] = "waiting"))
================================================================================
