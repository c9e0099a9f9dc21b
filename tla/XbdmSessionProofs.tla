--------------------------- MODULE XbdmSessionProofs ---------------------------
(***************************************************************************)
(* What XbdmSession promises, for any number of callers, any bodies and    *)
(* any number of calls.  Exclusive is not inductive: whose status line a   *)
(* caller takes depends on what is still on the stream, so Inv says who    *)
(* has the connection (Held, Queued), what a call knows of its command     *)
(* (Numbered) and, as long as no call has given up on its status line,     *)
(* that the stream holds exactly the status line that is owed (Owed).      *)
(***************************************************************************)
EXTENDS XbdmSession, TLAPS

Active == {"send", "reply", "body"}
Phases == {"idle", "waiting"} \cup Active
Line(n) == [cmd : 1 .. n, kind : {"status", "multi", "line", "end"}]

Held == \A c \in Callers : phase[c] \in Active <=> c = holder

Queued ==
  /\ ~disposed => \A i \in 1 .. Len(queue) : phase[queue[i]] = "waiting"
  /\ \A i, j \in 1 .. Len(queue) : queue[i] = queue[j] => i = j
  /\ \A c \in Callers : phase[c] = "waiting" => own[c] = 0 /\ got[c] = 0

Numbered ==
  \A c \in Callers :
    /\ phase[c] = "reply" => own[c] # 0 /\ got[c] = 0 /\ tried[c] < Tries
    /\ phase[c] \in Active /\ own[c] # 0 => own[c] = sent
    /\ got[c] # 0 => got[c] = own[c] \/ abandoned

NoStatus == \A i \in 1 .. Len(stream) : ~IsStatus(stream[i])

OneStatus ==
  \E i \in 1 .. Len(stream) :
    /\ IsStatus(stream[i]) /\ stream[i].cmd = sent
    /\ \A j \in 1 .. Len(stream) : IsStatus(stream[j]) => j = i

Replying == \E c \in Callers : phase[c] = "reply"

Owed ==
  ~abandoned =>
    \/ ~Replying /\ answered = sent /\ NoStatus
    \/ Replying /\ answered = sent /\ OneStatus
    \/ Replying /\ answered + 1 = sent /\ NoStatus

Inv == TypeOK /\ Held /\ Queued /\ Numbered /\ Owed

(* Whoever gives the lock back leaves it to the caller that waits longest, *)
(* or to nobody; that caller has not sent a command yet.                   *)
LEMMA Handed ==
  ASSUME TypeOK, Held, Queued, NEW c \in Callers, phase[c] \in Active, Release(c)
  PROVE  /\ holder' \in Callers \cup {NoOne} /\ queue' \in Seq(Callers)
         /\ phase' \in [Callers -> Phases]
         /\ Held'
         /\ ~disposed => \A i \in 1 .. Len(queue') : phase'[queue'[i]] = "waiting"
         /\ \A i, j \in 1 .. Len(queue') : queue'[i] = queue'[j] => i = j
         /\ \A d \in Callers : phase'[d] = "waiting" => d # c /\ phase[d] = "waiting"
         /\ \A d \in Callers : phase'[d] \in Active => d # c /\ phase[d] = "waiting"
         /\ ~Replying'
<1> USE SessionAssumption DEF Active, Phases
<1>1. c = holder /\ \A d \in Callers : d # c => phase[d] \notin Active
  BY DEF Held
<1>2. phase \in [Callers -> Phases] /\ queue \in Seq(Callers) /\ disposed \in BOOLEAN
  BY DEF TypeOK
<1>3. CASE disposed \/ queue = <<>>
  <2>1. holder' = NoOne /\ phase' = [phase EXCEPT ![c] = "idle"] /\ queue' = queue
    BY <1>3 DEF Release
  <2>2. \A d \in Callers : d # c => phase'[d] = phase[d]
    BY <2>1, <1>2
  <2>3. phase'[c] = "idle" /\ phase' \in [Callers -> Phases]
    BY <2>1, <1>2
  <2>4. Held' /\ ~Replying'
    BY <2>1, <2>2, <2>3, <1>1 DEF Held, Replying
  <2>5. ~disposed => \A i \in 1 .. Len(queue') : phase'[queue'[i]] = "waiting"
    BY <2>1, <1>3, <1>2
  <2>6. \A i, j \in 1 .. Len(queue') : queue'[i] = queue'[j] => i = j
    BY <2>1 DEF Queued
  <2> QED
    BY <2>1, <2>2, <2>3, <2>4, <2>5, <2>6, <1>1, <1>2
<1>4. CASE ~(disposed \/ queue = <<>>)
  <2>1. /\ holder' = Head(queue) /\ queue' = Tail(queue)
        /\ phase' = [phase EXCEPT ![c] = "idle", ![Head(queue)] = "send"]
    BY <1>4 DEF Release
  <2>2. Len(queue) > 0 /\ Head(queue) = queue[1] /\ Head(queue) \in Callers
    BY <1>2, <1>4
  <2>3. phase[Head(queue)] = "waiting" /\ Head(queue) # c
    BY <2>2, <1>2, <1>4 DEF Queued
  <2>4. /\ phase'[Head(queue)] = "send" /\ phase'[c] = "idle"
        /\ \A d \in Callers : d # c /\ d # Head(queue) => phase'[d] = phase[d]
        /\ phase' \in [Callers -> Phases]
    BY <2>1, <2>2, <2>3, <1>2
  <2>5. /\ queue' \in Seq(Callers) /\ Len(queue') = Len(queue) - 1
        /\ \A i \in 1 .. Len(queue') : queue'[i] = queue[i + 1] /\ queue'[i] \in Callers
    BY <2>1, <2>2, <1>2, <1>4
  <2>6. \A i \in 1 .. Len(queue') : phase'[queue'[i]] = "waiting"
    <3> SUFFICES ASSUME NEW i \in 1 .. Len(queue') PROVE phase'[queue'[i]] = "waiting"
      OBVIOUS
    <3>1. i + 1 \in 1 .. Len(queue) /\ 1 \in 1 .. Len(queue) /\ i + 1 # 1
      BY <2>5, <2>2, <1>2
    <3>2. queue[i + 1] # queue[1] /\ phase[queue[i + 1]] = "waiting"
      BY <3>1, <1>4 DEF Queued
    <3> QED
      BY <3>2, <2>2, <2>4, <2>5
  <2>7. \A i, j \in 1 .. Len(queue') : queue'[i] = queue'[j] => i = j
    <3> SUFFICES ASSUME NEW i \in 1 .. Len(queue'), NEW j \in 1 .. Len(queue'),
                        queue'[i] = queue'[j]
                 PROVE  i = j
      OBVIOUS
    <3>1. i + 1 \in 1 .. Len(queue) /\ j + 1 \in 1 .. Len(queue)
      BY <2>5, <2>2, <1>2
    <3>2. i + 1 = j + 1
      BY <3>1, <2>5 DEF Queued
    <3> QED
      BY <3>2
  <2>8. Held' /\ ~Replying'
    BY <2>1, <2>2, <2>3, <2>4, <1>1 DEF Held, Replying
  <2> QED
    BY <2>1, <2>2, <2>3, <2>4, <2>5, <2>6, <2>7, <2>8, <1>1
<1> QED
  BY <1>3, <1>4

(* A call ends.                                                            *)
LEMMA Ended ==
  ASSUME Inv, NEW c \in Callers, phase[c] \in Active, Ends(c),
         UNCHANGED <<op, left, own, sent, answered, calls>>,
         tried' \in [Callers -> 0 .. Tries],
         got' \in [Callers -> 0 .. sent],
         \A d \in Callers : d # c => got'[d] = got[d],
         got'[c] # 0 => got'[c] = own[c] \/ abandoned,
         stream' \in Seq(Line(sent)),
         ~abandoned' => answered = sent /\ NoStatus'
  PROVE  Inv'
<1>1. TypeOK /\ Held /\ Queued /\ Numbered
  BY DEF Inv
<1>2. Release(c) /\ disposed' = (disposed \/ op[c] = "bye")
  BY DEF Ends
<1>3. abandoned' = (abandoned \/ (own[c] # 0 /\ got'[c] = 0))
  BY DEF Ends
<1>4. /\ holder' \in Callers \cup {NoOne} /\ queue' \in Seq(Callers)
      /\ phase' \in [Callers -> Phases]
      /\ Held'
      /\ ~disposed => \A i \in 1 .. Len(queue') : phase'[queue'[i]] = "waiting"
      /\ \A i, j \in 1 .. Len(queue') : queue'[i] = queue'[j] => i = j
      /\ \A d \in Callers : phase'[d] = "waiting" => d # c /\ phase[d] = "waiting"
      /\ \A d \in Callers : phase'[d] \in Active => d # c /\ phase[d] = "waiting"
      /\ ~Replying'
  BY <1>1, <1>2, Handed
<1>5. TypeOK'
  BY <1>1, <1>2, <1>3, <1>4 DEF TypeOK, Phases, Active, Line
<1>6. Queued'
  BY <1>1, <1>2, <1>4 DEF Queued
<1>7. Numbered'
  <2> SUFFICES ASSUME NEW d \in Callers
               PROVE  /\ phase'[d] # "reply"
                      /\ phase'[d] \in Active /\ own'[d] # 0 => own'[d] = sent'
                      /\ got'[d] # 0 => got'[d] = own'[d] \/ abandoned'
    BY DEF Numbered
  <2>1. phase'[d] # "reply"
    BY <1>4 DEF Replying
  <2>2. phase'[d] \in Active => own'[d] = 0
    BY <1>1, <1>4 DEF Queued
  <2>3. got'[d] # 0 => got'[d] = own'[d] \/ abandoned'
    BY <1>1, <1>3 DEF Numbered
  <2> QED
    BY <2>1, <2>2, <2>3
<1>8. Owed'
  BY <1>4 DEF Owed, NoStatus, IsStatus
<1> QED
  BY <1>4, <1>5, <1>6, <1>7, <1>8 DEF Inv

(* A line that is read is the first one, and the others are as they were.  *)
LEMMA Rest ==
  ASSUME NEW n \in Nat, NEW s \in Seq(Line(n)), s # <<>>
  PROVE  /\ Head(s) = s[1] /\ s[1] \in Line(n) /\ 1 \in 1 .. Len(s)
         /\ Tail(s) \in Seq(Line(n)) /\ Len(Tail(s)) = Len(s) - 1
         /\ \A i \in 1 .. Len(s) - 1 : Tail(s)[i] = s[i + 1]
<1>1. Len(s) \in Nat /\ Len(s) > 0
  OBVIOUS
<1> QED
  BY <1>1

LEMMA Wider ==
  ASSUME NEW n \in Nat, NEW s \in Seq(Line(n))
  PROVE  s \in Seq(Line(n + 1))
<1>1. Line(n) \subseteq Line(n + 1)
  BY DEF Line
<1> QED
  BY <1>1

(* A call begins.                                                          *)
LEMMA BeginKeeps ==
  ASSUME Inv, NEW c \in Callers, NEW o \in Operations, Begin(c, o)
  PROVE  Inv'
<1> USE SessionAssumption DEF Active, Phases
<1>1. TypeOK /\ Held /\ Queued /\ Numbered /\ Owed
  BY DEF Inv
<1>2. /\ phase[c] = "idle" /\ ~disposed /\ calls < MaxCalls /\ calls' = calls + 1
      /\ own' = [own EXCEPT ![c] = 0] /\ got' = [got EXCEPT ![c] = 0]
      /\ tried' = [tried EXCEPT ![c] = 0]
      /\ UNCHANGED <<sent, answered, stream, disposed, abandoned>>
  BY DEF Begin, wire
<1>3. /\ own'[c] = 0 /\ got'[c] = 0
      /\ \A d \in Callers :
           d # c => own'[d] = own[d] /\ got'[d] = got[d] /\ tried'[d] = tried[d]
  BY <1>1, <1>2 DEF TypeOK
<1>4. CASE Free
  <2>1. holder = NoOne /\ holder' = c /\ phase' = [phase EXCEPT ![c] = "send"] /\ queue' = queue
    BY <1>4 DEF Begin, Free
  <2>2. /\ phase'[c] = "send" /\ \A d \in Callers : d # c => phase'[d] = phase[d]
        /\ phase' \in [Callers -> Phases]
    BY <1>1, <2>1 DEF TypeOK
  <2>3. \A d \in Callers : phase[d] \notin Active
    BY <1>1, <2>1 DEF Held
  <2>4. TypeOK'
    BY <1>1, <1>2, <2>1, <2>2 DEF TypeOK, Begin
  <2>5. Held'
    BY <2>1, <2>2, <2>3 DEF Held
  <2>6. Queued'
    <3>1. \A i \in 1 .. Len(queue) : queue[i] \in Callers
      BY <1>1 DEF TypeOK
    <3>2. \A i \in 1 .. Len(queue) : phase[queue[i]] = "waiting" /\ queue[i] # c
      BY <1>1, <1>2 DEF Queued
    <3> QED
      BY <1>1, <1>2, <1>3, <2>1, <2>2, <3>1, <3>2 DEF Queued
  <2>7. Numbered'
    BY <1>1, <1>2, <1>3, <2>2, <2>3 DEF Numbered
  <2>8. ~Replying /\ ~Replying'
    BY <2>2, <2>3 DEF Replying
  <2>9. Owed'
    BY <1>1, <1>2, <2>8 DEF Owed, NoStatus
  <2> QED
    BY <2>4, <2>5, <2>6, <2>7, <2>9 DEF Inv
<1>5. CASE ~Free
  <2>1. holder # NoOne /\ holder' = holder /\ queue' = Append(queue, c)
        /\ phase' = [phase EXCEPT ![c] = "waiting"]
    BY <1>5 DEF Begin, Free
  <2>2. /\ phase'[c] = "waiting" /\ \A d \in Callers : d # c => phase'[d] = phase[d]
        /\ phase' \in [Callers -> Phases]
    BY <1>1, <2>1 DEF TypeOK
  <2>3. /\ queue' \in Seq(Callers) /\ Len(queue') = Len(queue) + 1 /\ Len(queue) \in Nat
        /\ queue'[Len(queue) + 1] = c
        /\ \A i \in 1 .. Len(queue) : queue'[i] = queue[i] /\ queue[i] \in Callers
    BY <1>1, <2>1 DEF TypeOK
  <2>4. TypeOK'
    <3>1. left' \in [Callers -> 0 .. Chunks] /\ op' \in [Callers -> Operations]
      BY <1>1 DEF TypeOK, Begin
    <3>2. /\ own' \in [Callers -> 0 .. sent] /\ got' \in [Callers -> 0 .. sent]
          /\ tried' \in [Callers -> 0 .. Tries] /\ calls' \in 0 .. MaxCalls
      BY <1>1, <1>2 DEF TypeOK
    <3> HIDE SessionAssumption
    <3> QED
      BY <1>1, <1>2, <2>1, <2>2, <2>3, <3>1, <3>2 DEF TypeOK
  <2>5. Held'
    BY <1>1, <1>2, <2>1, <2>2 DEF Held
  <2>6. \A i \in 1 .. Len(queue) : phase[queue[i]] = "waiting" /\ queue[i] # c
    BY <1>1, <1>2 DEF Queued
  <2>7. Queued'
    <3>1. \A i \in 1 .. Len(queue') : phase'[queue'[i]] = "waiting"
      <4> SUFFICES ASSUME NEW i \in 1 .. Len(queue') PROVE phase'[queue'[i]] = "waiting"
        OBVIOUS
      <4>1. i = Len(queue) + 1 \/ i \in 1 .. Len(queue)
        BY <2>3
      <4> QED
        BY <4>1, <2>2, <2>3, <2>6
    <3>2. \A i, j \in 1 .. Len(queue') : queue'[i] = queue'[j] => i = j
      <4> SUFFICES ASSUME NEW i \in 1 .. Len(queue'), NEW j \in 1 .. Len(queue'),
                          queue'[i] = queue'[j]
                   PROVE  i = j
        OBVIOUS
      <4>1. /\ i = Len(queue) + 1 \/ i \in 1 .. Len(queue)
            /\ j = Len(queue) + 1 \/ j \in 1 .. Len(queue)
        BY <2>3
      <4> QED
        BY <4>1, <2>3, <2>6, <1>1 DEF Queued
    <3>3. \A d \in Callers : phase'[d] = "waiting" => own'[d] = 0 /\ got'[d] = 0
      BY <1>1, <1>3, <2>2 DEF Queued
    <3> QED
      BY <3>1, <3>2, <3>3 DEF Queued
  <2>8. Numbered'
    BY <1>1, <1>2, <1>3, <2>2 DEF Numbered
  <2>9. Replying' <=> Replying
    BY <1>2, <2>2 DEF Replying
  <2>10. Owed'
    BY <1>1, <1>2, <2>9 DEF Owed, NoStatus, OneStatus
  <2> QED
    BY <2>4, <2>5, <2>7, <2>8, <2>10 DEF Inv
<1> QED
  BY <1>4, <1>5

(* A caller stops waiting.                                                 *)
LEMMA CancelledKeeps ==
  ASSUME Inv, NEW c \in Callers, Cancelled(c)
  PROVE  Inv'
<1> USE SessionAssumption DEF Active, Phases
<1>1. TypeOK /\ Held /\ Queued /\ Numbered /\ Owed
  BY DEF Inv
<1>2. /\ phase[c] = "waiting" /\ ~disposed /\ phase' = [phase EXCEPT ![c] = "idle"]
      /\ UNCHANGED <<holder, op, left, own, got, tried, sent, answered, stream, abandoned, calls>>
      /\ disposed' = (op[c] = "bye")
  BY DEF Cancelled, wire
<1>3. PICK i \in 1 .. Len(queue) :
        /\ queue[i] = c
        /\ queue' = [j \in 1 .. Len(queue) - 1 |-> queue[IF j < i THEN j ELSE j + 1]]
  BY DEF Cancelled
<1>4. /\ phase'[c] = "idle" /\ \A d \in Callers : d # c => phase'[d] = phase[d]
      /\ phase' \in [Callers -> Phases]
  BY <1>1, <1>2 DEF TypeOK
<1>5. Len(queue) \in Nat /\ \A j \in 1 .. Len(queue) : queue[j] \in Callers
  BY <1>1 DEF TypeOK
<1> DEFINE at(j) == IF j < i THEN j ELSE j + 1
<1>6. /\ Len(queue) - 1 \in Nat
      /\ \A j \in 1 .. Len(queue) - 1 : at(j) \in 1 .. Len(queue) /\ at(j) # i
      /\ \A j, k \in 1 .. Len(queue) - 1 : at(j) = at(k) => j = k
  BY <1>3, <1>5
<1>7. queue' \in [1 .. Len(queue) - 1 -> Callers]
  BY <1>3, <1>5, <1>6
<1>8. queue' \in Seq(Callers) /\ Len(queue') = Len(queue) - 1
  BY <1>6, <1>7
<1>9. \A j \in 1 .. Len(queue) - 1 : queue'[j] = queue[at(j)]
  BY <1>3
<1> HIDE DEF at
<1>10. TypeOK'
  BY <1>1, <1>2, <1>4, <1>8 DEF TypeOK
<1>11. Held'
  BY <1>1, <1>2, <1>4 DEF Held
<1>12. Queued'
  <2>1. \A j \in 1 .. Len(queue') : phase'[queue'[j]] = "waiting"
    <3> SUFFICES ASSUME NEW j \in 1 .. Len(queue') PROVE phase'[queue'[j]] = "waiting"
      OBVIOUS
    <3>1. queue'[j] = queue[at(j)] /\ at(j) \in 1 .. Len(queue) /\ at(j) # i
      BY <1>6, <1>8, <1>9
    <3>2. phase[queue[at(j)]] = "waiting" /\ queue[at(j)] # c
      BY <1>1, <1>2, <1>3, <3>1 DEF Queued
    <3> QED
      BY <1>4, <1>5, <3>1, <3>2
  <2>2. \A j, k \in 1 .. Len(queue') : queue'[j] = queue'[k] => j = k
    <3> SUFFICES ASSUME NEW j \in 1 .. Len(queue'), NEW k \in 1 .. Len(queue'),
                        queue'[j] = queue'[k]
                 PROVE  j = k
      OBVIOUS
    <3>1. queue[at(j)] = queue[at(k)] /\ at(j) \in 1 .. Len(queue) /\ at(k) \in 1 .. Len(queue)
      BY <1>6, <1>8, <1>9
    <3>2. at(j) = at(k)
      BY <1>1, <3>1 DEF Queued
    <3> QED
      BY <1>6, <1>8, <3>2
  <2>3. \A d \in Callers : phase'[d] = "waiting" => own'[d] = 0 /\ got'[d] = 0
    BY <1>1, <1>2, <1>4 DEF Queued
  <2> QED
    BY <2>1, <2>2, <2>3 DEF Queued
<1>13. Numbered'
  BY <1>1, <1>2, <1>4 DEF Numbered
<1>14. Replying' <=> Replying
  BY <1>2, <1>4 DEF Replying
<1>15. Owed'
  BY <1>1, <1>2, <1>14 DEF Owed, NoStatus, OneStatus
<1> QED
  BY <1>10, <1>11, <1>12, <1>13, <1>15 DEF Inv

(* A command is sent: its status line is owed from now on.                 *)
LEMMA SendKeeps ==
  ASSUME Inv, NEW c \in Callers, Send(c)
  PROVE  Inv'
<1> USE SessionAssumption DEF Active, Phases
<1>1. TypeOK /\ Held /\ Queued /\ Numbered /\ Owed
  BY DEF Inv
<1>2. /\ phase[c] = "send" /\ sent' = sent + 1
      /\ own' = [own EXCEPT ![c] = sent + 1] /\ got' = [got EXCEPT ![c] = 0]
      /\ tried' = [tried EXCEPT ![c] = 0] /\ phase' = [phase EXCEPT ![c] = "reply"]
      /\ UNCHANGED <<holder, queue, op, left, answered, stream, disposed, abandoned, calls>>
  BY DEF Send, lock
<1>3. sent \in Nat /\ answered \in 0 .. sent /\ stream \in Seq(Line(sent))
  BY <1>1 DEF TypeOK, Line
<1>4. /\ phase'[c] = "reply" /\ own'[c] = sent + 1 /\ got'[c] = 0 /\ tried'[c] = 0
      /\ \A d \in Callers :
           d # c => /\ phase'[d] = phase[d] /\ own'[d] = own[d] /\ got'[d] = got[d]
                    /\ tried'[d] = tried[d]
      /\ phase' \in [Callers -> Phases]
  BY <1>1, <1>2 DEF TypeOK
<1>5. c = holder /\ \A d \in Callers : d # c => phase[d] \notin Active
  BY <1>1, <1>2 DEF Held
<1>6. TypeOK'
  <2>1. stream' \in Seq(Line(sent'))
    BY <1>2, <1>3, Wider
  <2>2. /\ own' \in [Callers -> 0 .. sent'] /\ got' \in [Callers -> 0 .. sent']
        /\ answered' \in 0 .. sent' /\ sent' \in Nat /\ tried' \in [Callers -> 0 .. Tries]
    <3>1. /\ 0 .. sent \subseteq 0 .. sent + 1 /\ sent + 1 \in 0 .. sent + 1
          /\ 0 \in 0 .. sent + 1 /\ 0 \in 0 .. Tries
      BY <1>3
    <3>2. /\ own \in [Callers -> 0 .. sent] /\ got \in [Callers -> 0 .. sent]
          /\ tried \in [Callers -> 0 .. Tries]
      BY <1>1 DEF TypeOK
    <3> HIDE SessionAssumption DEF Active, Phases
    <3>3. own' \in [Callers -> 0 .. sent']
      BY <1>2, <3>1, <3>2
    <3>4. got' \in [Callers -> 0 .. sent']
      BY <1>2, <3>1, <3>2
    <3>5. tried' \in [Callers -> 0 .. Tries]
      BY <1>2, <3>1, <3>2
    <3> QED
      BY <1>2, <1>3, <3>3, <3>4, <3>5
  <2>3. stream' \in Seq([cmd : 1 .. sent', kind : {"status", "multi", "line", "end"}])
    BY <2>1 DEF Line
  <2>4. /\ holder' \in Callers \cup {NoOne} /\ queue' \in Seq(Callers)
        /\ op' \in [Callers -> Operations] /\ left' \in [Callers -> 0 .. Chunks]
        /\ {disposed', abandoned'} \subseteq BOOLEAN /\ calls' \in 0 .. MaxCalls
    BY <1>1, <1>2 DEF TypeOK
  <2>5. phase' \in [Callers -> {"idle", "waiting", "send", "reply", "body"}]
    BY <1>4
  <2> HIDE SessionAssumption DEF Active, Phases
  <2> QED
    BY <2>2, <2>3, <2>4, <2>5 DEF TypeOK
<1>7. Held'
  BY <1>2, <1>4, <1>5 DEF Held
<1>8. Queued'
  <2>1. \A i \in 1 .. Len(queue) : queue[i] \in Callers
    BY <1>1 DEF TypeOK
  <2>2. ~disposed => \A i \in 1 .. Len(queue) : phase[queue[i]] = "waiting" /\ queue[i] # c
    BY <1>1, <1>2 DEF Queued
  <2>3. \A d \in Callers : phase'[d] = "waiting" => own'[d] = 0 /\ got'[d] = 0
    BY <1>1, <1>4 DEF Queued
  <2>4. ~disposed' => \A i \in 1 .. Len(queue') : phase'[queue'[i]] = "waiting"
    BY <1>2, <1>4, <2>1, <2>2
  <2>5. \A i, j \in 1 .. Len(queue') : queue'[i] = queue'[j] => i = j
    BY <1>1, <1>2 DEF Queued
  <2> QED
    BY <2>3, <2>4, <2>5 DEF Queued
<1>9. Numbered'
  BY <1>1, <1>2, <1>3, <1>4, <1>5 DEF Numbered
<1>10. ~Replying /\ Replying'
  BY <1>2, <1>4, <1>5 DEF Replying
<1>11. Owed'
  BY <1>1, <1>2, <1>3, <1>10 DEF Owed, NoStatus
<1> QED
  BY <1>6, <1>7, <1>8, <1>9, <1>11 DEF Inv

LEMMA Empty ==
  ASSUME NEW S
  PROVE  <<>> \in Seq(S)
  OBVIOUS

LEMMA Joined ==
  ASSUME NEW S, NEW s \in Seq(S), NEW t \in Seq(S), NEW r, r = s \o t
  PROVE  /\ r \in Seq(S) /\ Len(r) = Len(s) + Len(t)
         /\ \A i \in 1 .. Len(s) : r[i] = s[i]
         /\ \A i \in 1 .. Len(t) : r[Len(s) + i] = t[i]
<1>1. r \in Seq(S) /\ Len(r) = Len(s) + Len(t)
  OBVIOUS
<1>2. Len(s) \in Nat /\ Len(t) \in Nat
  OBVIOUS
<1>3. \A i \in 1 .. Len(s) : r[i] = s[i]
  BY <1>2
<1>4. \A i \in 1 .. Len(t) : r[Len(s) + i] = t[i]
  BY <1>2
<1> QED
  BY <1>1, <1>3, <1>4

(* The console's reply begins with its one status line.                    *)
LEMMA Replies ==
  ASSUME NEW n \in Nat \ {0}, NEW reply \in Reply(n)
  PROVE  /\ reply \in Seq(Line(n)) /\ Len(reply) >= 1
         /\ IsStatus(reply[1]) /\ reply[1].cmd = n
         /\ \A i \in 1 .. Len(reply) : IsStatus(reply[i]) => i = 1
<1>1. CASE reply = <<[cmd |-> n, kind |-> "status"]>>
  BY <1>1 DEF Line, IsStatus
<1>2. CASE reply # <<[cmd |-> n, kind |-> "status"]>>
  <2>1. PICK b \in Bodies :
          reply = <<[cmd |-> n, kind |-> "multi"]>>
                  \o [i \in 1 .. b |-> [cmd |-> n, kind |-> "line"]]
                  \o <<[cmd |-> n, kind |-> "end"]>>
    BY <1>2 DEF Reply
  <2> DEFINE first == <<[cmd |-> n, kind |-> "multi"]>>
             body  == [i \in 1 .. b |-> [cmd |-> n, kind |-> "line"]]
             last  == <<[cmd |-> n, kind |-> "end"]>>
  <2>2. b \in Nat
    BY SessionAssumption
  <2>3. /\ first \in Seq(Line(n)) /\ Len(first) = 1 /\ first[1].kind = "multi"
        /\ first[1].cmd = n
    BY DEF Line
  <2>4. body \in Seq(Line(n)) /\ Len(body) = b /\ \A i \in 1 .. b : body[i].kind = "line"
    <3>1. body \in [1 .. b -> Line(n)]
      BY DEF Line
    <3> QED
      BY <2>2, <3>1
  <2>5. last \in Seq(Line(n)) /\ Len(last) = 1 /\ last[1].kind = "end"
    BY DEF Line
  <2> HIDE DEF first, body, last
  <2>6. reply = first \o body \o last
    BY <2>1 DEF first, body, last
  <2>7. /\ reply \in Seq(Line(n)) /\ Len(reply) = b + 2
        /\ reply[1] = first[1]
        /\ \A i \in 1 .. b : reply[i + 1] = body[i]
        /\ reply[b + 2] = last[1]
    <3> DEFINE opened == first \o body
    <3>1. /\ opened \in Seq(Line(n)) /\ Len(opened) = b + 1 /\ opened[1] = first[1]
          /\ \A i \in 1 .. b : opened[i + 1] = body[i]
      <4>1. /\ opened \in Seq(Line(n)) /\ Len(opened) = Len(first) + Len(body)
            /\ \A i \in 1 .. Len(first) : opened[i] = first[i]
            /\ \A i \in 1 .. Len(body) : opened[Len(first) + i] = body[i]
        <5>1. opened = first \o body
          OBVIOUS
        <5>2. first \in Seq(Line(n)) /\ body \in Seq(Line(n))
          BY <2>3, <2>4
        <5> HIDE DEF opened
        <5> QED
          BY <5>1, <5>2, Joined
      <4>2. 1 \in 1 .. 1 /\ 1 + b = b + 1 /\ \A i \in 1 .. b : 1 + i = i + 1
        BY <2>2
      <4> HIDE DEF opened
      <4>3. Len(opened) = 1 + b /\ opened[1] = first[1]
        BY <4>1, <4>2, <2>3, <2>4
      <4>4. \A i \in 1 .. b : opened[1 + i] = body[i]
        BY <4>1, <2>3, <2>4
      <4> QED
        BY <4>1, <4>2, <4>3, <4>4
    <3>2. reply = opened \o last
      BY <2>6
    <3> HIDE DEF opened
    <3>3. /\ reply \in Seq(Line(n)) /\ Len(reply) = Len(opened) + Len(last)
          /\ \A i \in 1 .. Len(opened) : reply[i] = opened[i]
          /\ \A i \in 1 .. Len(last) : reply[Len(opened) + i] = last[i]
      <4>1. opened \in Seq(Line(n)) /\ last \in Seq(Line(n))
        BY <3>1, <2>5
      <4> QED
        BY <4>1, <3>2, Joined
    <3>4. /\ 1 \in 1 .. b + 1 /\ 1 \in 1 .. 1 /\ (b + 1) + 1 = b + 2
          /\ \A i \in 1 .. b : i + 1 \in 1 .. b + 1
      BY <2>2
    <3> QED
      BY <3>1, <3>3, <3>4, <2>2, <2>5
  <2>8. \A i \in 1 .. Len(reply) : i = 1 \/ i = b + 2 \/ (i - 1 \in 1 .. b /\ i = (i - 1) + 1)
    BY <2>2, <2>7
  <2>9. \A i \in 1 .. Len(reply) : i # 1 => reply[i].kind \in {"line", "end"}
    BY <2>4, <2>5, <2>7, <2>8
  <2> QED
    BY <2>2, <2>3, <2>7, <2>9 DEF IsStatus
<1> QED
  BY <1>1, <1>2

(* The console answers: the status line that was owed is on the stream.    *)
LEMMA AnswerKeeps ==
  ASSUME Inv, Answer
  PROVE  Inv'
<1>1. TypeOK /\ Held /\ Queued /\ Numbered /\ Owed
  BY DEF Inv
<1>2. /\ answered < sent /\ answered' = answered + 1
      /\ UNCHANGED <<holder, queue, phase, op, left, own, got, tried, sent, disposed,
                     abandoned, calls>>
  BY DEF Answer, lock, call
<1>3. PICK reply \in Reply(answered + 1) : stream' = stream \o reply
  BY DEF Answer
<1>4. sent \in Nat /\ answered \in 0 .. sent /\ stream \in Seq(Line(sent))
  BY <1>1 DEF TypeOK, Line
<1>5. /\ reply \in Seq(Line(answered + 1)) /\ Len(reply) >= 1
      /\ IsStatus(reply[1]) /\ reply[1].cmd = answered + 1
      /\ \A i \in 1 .. Len(reply) : IsStatus(reply[i]) => i = 1
  BY <1>3, <1>4, Replies
<1>6. Line(answered + 1) \subseteq Line(sent)
  BY <1>2, <1>4 DEF Line
<1>7. reply \in Seq(Line(sent))
  BY <1>5, <1>6
<1>8. /\ stream' \in Seq(Line(sent)) /\ Len(stream') = Len(stream) + Len(reply)
      /\ Len(stream) \in Nat /\ Len(reply) \in Nat
      /\ \A i \in 1 .. Len(stream) : stream'[i] = stream[i]
      /\ \A i \in 1 .. Len(reply) : stream'[Len(stream) + i] = reply[i]
  BY <1>3, <1>4, <1>7
<1>9. TypeOK'
  <2>1. stream' \in Seq([cmd : 1 .. sent', kind : {"status", "multi", "line", "end"}])
    BY <1>2, <1>8 DEF Line
  <2>2. answered' \in 0 .. sent'
    BY <1>2, <1>4
  <2> QED
    BY <1>1, <1>2, <2>1, <2>2 DEF TypeOK
<1>10. Held' /\ Queued' /\ Numbered' /\ (Replying' <=> Replying)
  BY <1>1, <1>2 DEF Held, Queued, Numbered, Replying
<1>11. Owed'
  <2> SUFFICES ASSUME ~abandoned
               PROVE  Replying /\ answered' = sent /\ OneStatus'
    BY <1>2, <1>10 DEF Owed
  <2>1. Replying /\ answered + 1 = sent /\ NoStatus
    BY <1>1, <1>2, <1>4 DEF Owed
  <2> DEFINE k == Len(stream) + 1
  <2>2. k \in 1 .. Len(stream') /\ stream'[k] = reply[1]
    BY <1>5, <1>8
  <2>3. ASSUME NEW j \in 1 .. Len(stream'), IsStatus(stream'[j])
        PROVE  j = k
    <3>1. CASE j \in 1 .. Len(stream)
      BY <2>1, <2>3, <3>1, <1>8 DEF NoStatus
    <3>2. CASE j \notin 1 .. Len(stream)
      <4>1. j - Len(stream) \in 1 .. Len(reply) /\ j = Len(stream) + (j - Len(stream))
        BY <3>2, <1>8
      <4>2. stream'[j] = reply[j - Len(stream)]
        BY <4>1, <1>8
      <4> QED
        BY <2>3, <4>1, <4>2, <1>5, <1>8
    <3> QED
      BY <3>1, <3>2
  <2>4. IsStatus(stream'[k]) /\ stream'[k].cmd = sent
    BY <2>1, <2>2, <1>5
  <2>5. OneStatus'
    BY <1>2, <2>2, <2>3, <2>4 DEF OneStatus, IsStatus
  <2> QED
    BY <1>2, <2>1, <2>5
<1> QED
  BY <1>9, <1>10, <1>11 DEF Inv

(* ReadResponseAsync takes a line.                                         *)
LEMMA ReadResponseKeeps ==
  ASSUME Inv, NEW c \in Callers, ReadResponse(c)
  PROVE  Inv'
<1>1. TypeOK /\ Held /\ Queued /\ Numbered /\ Owed
  BY DEF Inv
<1>2. /\ phase[c] = "reply" /\ ~disposed /\ stream # <<>> /\ stream' = Tail(stream)
      /\ UNCHANGED <<sent, answered, calls>>
  BY DEF ReadResponse
<1>3. sent \in Nat /\ answered \in 0 .. sent /\ stream \in Seq(Line(sent))
  BY <1>1 DEF TypeOK, Line
<1>4. /\ Head(stream) = stream[1] /\ stream[1] \in Line(sent) /\ 1 \in 1 .. Len(stream)
      /\ stream' \in Seq(Line(sent)) /\ Len(stream') = Len(stream) - 1
      /\ Len(stream) \in Nat
      /\ \A i \in 1 .. Len(stream) - 1 : stream'[i] = stream[i + 1]
  BY <1>2, <1>3, Rest
<1>5. /\ c = holder /\ phase[c] \in Active /\ Replying
      /\ own[c] # 0 /\ own[c] = sent /\ got[c] = 0 /\ tried[c] < Tries
  BY <1>1, <1>2 DEF Held, Numbered, Replying, Active
<1>6. CASE ~IsStatus(Head(stream))
  <2>1. /\ LineSkipped(c) /\ tried' = [tried EXCEPT ![c] = tried[c] + 1]
        /\ UNCHANGED <<op, left, own, got>>
    BY <1>6 DEF ReadResponse, LineSkipped
  <2>2. tried' \in [Callers -> 0 .. Tries]
    <3>1. tried \in [Callers -> 0 .. Tries] /\ tried[c] \in 0 .. Tries
      BY <1>1 DEF TypeOK
    <3>2. tried[c] + 1 \in 0 .. Tries
      BY <3>1, <1>5, SessionAssumption
    <3> QED
      BY <3>1, <3>2, <2>1
  <2>3. CASE tried[c] + 1 < Tries
    <3>1. UNCHANGED <<holder, queue, phase, disposed, abandoned>>
      BY <2>1, <2>3 DEF LineSkipped, lock
    <3>2. tried'[c] < Tries /\ \A d \in Callers : d # c => tried'[d] = tried[d]
      <4>1. tried \in [Callers -> 0 .. Tries]
        BY <1>1 DEF TypeOK
      <4> QED
        BY <4>1, <2>1, <2>3
    <3>3. stream' \in Seq([cmd : 1 .. sent', kind : {"status", "multi", "line", "end"}])
      BY <1>2, <1>4 DEF Line
    <3>4. TypeOK'
      BY <1>1, <1>2, <2>1, <2>2, <3>1, <3>3 DEF TypeOK
    <3>5. Held' /\ Queued' /\ Numbered' /\ (Replying' <=> Replying)
      BY <1>1, <1>2, <2>1, <3>1, <3>2 DEF Held, Queued, Numbered, Replying
    <3>6. NoStatus => NoStatus'
      BY <1>4 DEF NoStatus, IsStatus
    <3>7. ASSUME OneStatus PROVE OneStatus'
      <4>1. PICK i \in 1 .. Len(stream) :
              /\ IsStatus(stream[i]) /\ stream[i].cmd = sent
              /\ \A j \in 1 .. Len(stream) : IsStatus(stream[j]) => j = i
        BY <3>7 DEF OneStatus
      <4>2. i # 1
        BY <4>1, <1>4, <1>6
      <4>3. i - 1 \in 1 .. Len(stream') /\ i = (i - 1) + 1 /\ stream'[i - 1] = stream[i]
        BY <4>2, <1>4
      <4>4. \A j \in 1 .. Len(stream') : IsStatus(stream'[j]) => j = i - 1
        <5> SUFFICES ASSUME NEW j \in 1 .. Len(stream'), IsStatus(stream'[j])
                     PROVE  j = i - 1
          OBVIOUS
        <5>1. j + 1 \in 1 .. Len(stream) /\ stream'[j] = stream[j + 1]
          BY <1>4
        <5>2. j + 1 = i
          BY <4>1, <5>1
        <5> QED
          BY <5>2
      <4> QED
        BY <1>2, <4>1, <4>3, <4>4 DEF OneStatus, IsStatus
    <3>8. Owed'
      BY <1>1, <1>2, <3>1, <3>5, <3>6, <3>7 DEF Owed
    <3> QED
      BY <3>4, <3>5, <3>8 DEF Inv
  <2>4. CASE ~(tried[c] + 1 < Tries)
    <3>1. Ends(c)
      BY <2>1, <2>4 DEF LineSkipped
    <3>2. abandoned'
      BY <2>1, <3>1, <1>5 DEF Ends
    <3>3. got' \in [Callers -> 0 .. sent]
      BY <1>1, <2>1 DEF TypeOK
    <3> QED
      BY <1>2, <1>4, <1>5, <2>1, <2>2, <3>1, <3>2, <3>3, Ended
  <2> QED
    BY <2>3, <2>4
<1>7. CASE IsStatus(Head(stream))
  <2>1. /\ StatusTaken(c, stream[1]) /\ got' = [got EXCEPT ![c] = stream[1].cmd]
        /\ UNCHANGED <<op, own, tried>>
    BY <1>4, <1>7 DEF ReadResponse, StatusTaken
  <2>2. /\ got \in [Callers -> 0 .. sent] /\ tried \in [Callers -> 0 .. Tries]
        /\ left \in [Callers -> 0 .. Chunks]
    BY <1>1 DEF TypeOK
  <2>3. stream[1].cmd \in 1 .. sent
    BY <1>4 DEF Line
  <2>4. /\ got' \in [Callers -> 0 .. sent] /\ got'[c] = stream[1].cmd
        /\ \A d \in Callers : d # c => got'[d] = got[d]
    BY <2>1, <2>2, <2>3, <1>3
  <2>5. ~abandoned => answered = sent /\ NoStatus' /\ got'[c] = own[c]
    <3> SUFFICES ASSUME ~abandoned
                 PROVE  answered = sent /\ NoStatus' /\ got'[c] = own[c]
      OBVIOUS
    <3>1. ~NoStatus
      BY <1>4, <1>7 DEF NoStatus
    <3>2. answered = sent /\ OneStatus
      BY <1>1, <1>5, <3>1 DEF Owed
    <3>3. /\ stream[1].cmd = sent
          /\ \A j \in 1 .. Len(stream) : IsStatus(stream[j]) => j = 1
      BY <3>2, <1>4, <1>7 DEF OneStatus
    <3>4. NoStatus'
      <4> SUFFICES ASSUME NEW i \in 1 .. Len(stream'), IsStatus(stream'[i])
                   PROVE  FALSE
        BY DEF NoStatus, IsStatus
      <4>1. i + 1 \in 1 .. Len(stream) /\ stream'[i] = stream[i + 1]
        BY <1>4
      <4> QED
        BY <3>3, <4>1
    <3> QED
      BY <2>4, <3>2, <3>3, <3>4, <1>5
  <2>6. stream' \in Seq([cmd : 1 .. sent', kind : {"status", "multi", "line", "end"}])
    BY <1>2, <1>4 DEF Line
  <2>7. ASSUME NEW to \in {"send", "body"}, phase' = [phase EXCEPT ![c] = to],
               left' \in [Callers -> 0 .. Chunks],
               UNCHANGED <<holder, queue, disposed, abandoned>>
        PROVE  Inv'
    <3>1. /\ phase'[c] = to /\ \A d \in Callers : d # c => phase'[d] = phase[d]
          /\ phase' \in [Callers -> Phases]
      BY <1>1, <2>7 DEF TypeOK, Phases, Active
    <3>2. TypeOK'
      BY <1>1, <1>2, <2>1, <2>4, <2>6, <2>7, <3>1 DEF TypeOK, Phases, Active
    <3>3. Held'
      BY <1>1, <1>5, <2>7, <3>1 DEF Held, Active
    <3>4. Queued'
      <4>1. \A i \in 1 .. Len(queue) : queue[i] \in Callers
        BY <1>1 DEF TypeOK
      <4>2. \A i \in 1 .. Len(queue) : phase[queue[i]] = "waiting" /\ queue[i] # c
        BY <1>1, <1>2 DEF Queued
      <4> QED
        BY <1>1, <2>1, <2>4, <2>7, <3>1, <4>1, <4>2 DEF Queued
    <3>5. ~Replying'
      BY <1>1, <1>5, <3>1 DEF Replying, Held, Active
    <3>6. Numbered'
      <4> SUFFICES ASSUME NEW d \in Callers
                   PROVE  /\ phase'[d] # "reply"
                          /\ phase'[d] \in Active /\ own'[d] # 0 => own'[d] = sent'
                          /\ got'[d] # 0 => got'[d] = own'[d] \/ abandoned'
        BY DEF Numbered
      <4>1. CASE d = c
        BY <4>1, <1>2, <1>5, <2>1, <2>5, <2>7, <3>5 DEF Replying
      <4>2. CASE d # c
        BY <4>2, <1>1, <1>2, <2>1, <2>4, <2>7, <3>1, <3>5 DEF Replying, Numbered
      <4> QED
        BY <4>1, <4>2
    <3>7. Owed'
      BY <1>2, <2>5, <2>7, <3>5 DEF Owed, NoStatus
    <3> QED
      BY <3>2, <3>3, <3>4, <3>6, <3>7 DEF Inv
  <2>8. CASE op[c] = "lines" /\ stream[1].kind = "multi" /\ phase' = [phase EXCEPT ![c] = "body"]
             /\ UNCHANGED <<lock, left, disposed, abandoned>>
    BY <2>2, <2>7, <2>8 DEF lock
  <2>9. CASE /\ left[c] > 1 /\ left' = [left EXCEPT ![c] = left[c] - 1]
             /\ phase' = [phase EXCEPT ![c] = "send"]
             /\ UNCHANGED <<lock, disposed, abandoned>>
    <3>1. left' \in [Callers -> 0 .. Chunks]
      <4>1. left[c] - 1 \in 0 .. Chunks
        BY <2>2, <2>9, SessionAssumption
      <4> QED
        BY <2>2, <2>9, <4>1
    <3>2. UNCHANGED <<holder, queue, disposed, abandoned>>
      BY <2>9 DEF lock
    <3> QED
      BY <2>7, <2>9, <3>1, <3>2
  <2>10. CASE UNCHANGED left /\ Ends(c)
    <3>1. got'[c] # 0 => got'[c] = own[c] \/ abandoned
      BY <1>1, <2>5 DEF TypeOK
    <3>2. ~abandoned' => ~abandoned
      BY <2>10 DEF Ends
    <3>3. tried' \in [Callers -> 0 .. Tries]
      BY <2>1, <2>2
    <3> QED
      BY <1>2, <1>4, <1>5, <2>1, <2>4, <2>5, <2>10, <3>1, <3>2, <3>3, Ended
  <2> QED
    BY <2>1, <2>8, <2>9, <2>10 DEF StatusTaken
<1> QED
  BY <1>6, <1>7

(* ReadMultiLinesAsync takes a line.                                       *)
LEMMA ReadBodyKeeps ==
  ASSUME Inv, NEW c \in Callers, ReadBody(c)
  PROVE  Inv'
<1>1. TypeOK /\ Held /\ Queued /\ Numbered /\ Owed
  BY DEF Inv
<1>2. /\ phase[c] = "body" /\ ~disposed /\ stream # <<>> /\ stream' = Tail(stream)
      /\ UNCHANGED <<op, left, own, got, tried, sent, answered, calls>>
  BY DEF ReadBody
<1>3. sent \in Nat /\ answered \in 0 .. sent /\ stream \in Seq(Line(sent))
  BY <1>1 DEF TypeOK, Line
<1>4. /\ stream' \in Seq(Line(sent)) /\ Len(stream') = Len(stream) - 1 /\ Len(stream) \in Nat
      /\ \A i \in 1 .. Len(stream) - 1 : stream'[i] = stream[i + 1]
  BY <1>2, <1>3, Rest
<1>5. phase[c] \in Active /\ ~Replying
  BY <1>1, <1>2 DEF Held, Active, Replying
<1>6. ~abandoned => answered = sent /\ NoStatus
  BY <1>1, <1>5 DEF Owed
<1>7. NoStatus => NoStatus'
  BY <1>4 DEF NoStatus, IsStatus
<1>8. CASE UNCHANGED <<holder, queue, phase, disposed, abandoned>>
  <2>1. stream' \in Seq([cmd : 1 .. sent', kind : {"status", "multi", "line", "end"}])
    BY <1>2, <1>4 DEF Line
  <2>2. TypeOK'
    BY <1>1, <1>2, <1>8, <2>1 DEF TypeOK
  <2>3. Held' /\ Queued' /\ Numbered' /\ ~Replying'
    BY <1>1, <1>2, <1>5, <1>8 DEF Held, Queued, Numbered, Replying
  <2>4. Owed'
    BY <1>2, <1>6, <1>7, <1>8, <2>3 DEF Owed
  <2> QED
    BY <2>2, <2>3, <2>4 DEF Inv
<1>9. CASE Ends(c)
  <2>1. got' \in [Callers -> 0 .. sent] /\ tried' \in [Callers -> 0 .. Tries]
    BY <1>1, <1>2 DEF TypeOK
  <2>2. got'[c] # 0 => got'[c] = own[c] \/ abandoned
    BY <1>1, <1>2 DEF Numbered
  <2>3. ~abandoned' => ~abandoned
    BY <1>9 DEF Ends
  <2> QED
    BY <1>2, <1>4, <1>5, <1>6, <1>7, <1>9, <2>1, <2>2, <2>3, Ended
<1> QED
  BY <1>8, <1>9 DEF ReadBody, lock

(* A call gives up: with a status line to come, it abandons it.            *)
LEMMA GiveUpKeeps ==
  ASSUME Inv, NEW c \in Callers, GiveUp(c)
  PROVE  Inv'
<1>1. TypeOK /\ Held /\ Queued /\ Numbered /\ Owed
  BY DEF Inv
<1>2. /\ phase[c] \in Active /\ Ends(c)
      /\ UNCHANGED <<op, left, own, got, tried, sent, answered, stream, calls>>
  BY DEF GiveUp, Active, wire
<1>3. /\ got' \in [Callers -> 0 .. sent] /\ tried' \in [Callers -> 0 .. Tries]
      /\ stream' \in Seq(Line(sent))
  BY <1>1, <1>2 DEF TypeOK, Line
<1>4. got'[c] # 0 => got'[c] = own[c] \/ abandoned
  BY <1>1, <1>2 DEF Numbered
<1>5. ~abandoned' => answered = sent /\ NoStatus'
  <2> SUFFICES ASSUME ~abandoned' PROVE answered = sent /\ NoStatus'
    OBVIOUS
  <2>1. ~abandoned /\ ~(own[c] # 0 /\ got[c] = 0)
    BY <1>2 DEF Ends
  <2>2. phase[c] # "reply"
    BY <1>1, <2>1 DEF Numbered
  <2>3. ~Replying
    BY <1>1, <1>2, <2>2 DEF Held, Replying, Active
  <2> QED
    BY <1>1, <1>2, <2>1, <2>3 DEF Owed, NoStatus
<1> QED
  BY <1>2, <1>3, <1>4, <1>5, Ended

-----------------------------------------------------------------------------
LEMMA InitInv == Init => Inv
<1> SUFFICES ASSUME Init PROVE Inv
  OBVIOUS
<1> USE SessionAssumption
<1>1. TypeOK
  <2>1. /\ phase \in [Callers -> {"idle", "waiting", "send", "reply", "body"}]
        /\ op \in [Callers -> Operations] /\ left \in [Callers -> 0 .. Chunks]
        /\ tried \in [Callers -> 0 .. Tries] /\ calls \in 0 .. MaxCalls
    BY DEF Init, Operations
  <2>2. /\ sent = 0 /\ answered = 0 /\ 0 \in 0 .. 0 /\ stream = <<>> /\ queue = <<>>
        /\ own = [c \in Callers |-> 0] /\ got = [c \in Callers |-> 0]
    BY DEF Init
  <2>3. own \in [Callers -> 0 .. sent] /\ got \in [Callers -> 0 .. sent]
    BY <2>2
  <2>4. holder = NoOne /\ disposed = FALSE /\ abandoned = FALSE
    BY DEF Init
  <2>5. /\ sent \in Nat /\ answered \in 0 .. sent /\ queue \in Seq(Callers)
        /\ stream \in Seq([cmd : 1 .. sent, kind : {"status", "multi", "line", "end"}])
        /\ holder \in Callers \cup {NoOne} /\ {disposed, abandoned} \subseteq BOOLEAN
    BY <2>2, <2>4, Empty
  <2> HIDE SessionAssumption
  <2> QED
    BY <2>1, <2>3, <2>5 DEF TypeOK
<1>2. Held /\ Queued /\ Numbered /\ Owed
  BY DEF Init, Held, Queued, Numbered, Owed, Replying, NoStatus, Active
<1> QED
  BY <1>1, <1>2 DEF Inv

LEMMA NextInv == Inv /\ [Next]_vars => Inv'
<1> SUFFICES ASSUME Inv, [Next]_vars PROVE Inv'
  OBVIOUS
<1>1. ASSUME NEW c \in Callers, NEW o \in Operations, Begin(c, o) PROVE Inv'
  BY <1>1, BeginKeeps
<1>2. ASSUME NEW c \in Callers, Cancelled(c) PROVE Inv'
  BY <1>2, CancelledKeeps
<1>3. ASSUME NEW c \in Callers, Step(c) PROVE Inv'
  BY <1>3, SendKeeps, ReadResponseKeeps, ReadBodyKeeps, GiveUpKeeps DEF Step
<1>4. CASE Answer
  BY <1>4, AnswerKeeps
<1>5. CASE UNCHANGED vars
  BY <1>5 DEF Inv, TypeOK, Held, Queued, Numbered, Owed, Replying, NoStatus, OneStatus, IsStatus,
              vars, lock, call, wire
<1> QED
  BY <1>1, <1>2, <1>3, <1>4, <1>5 DEF Next

LEMMA Always == Spec => []Inv
<1> QED
  BY InitInv, NextInv, PTL DEF Spec

(* The types hold in every state of the session, for any callers.          *)
THEOREM Typing == Spec => []TypeOK
<1>1. Inv => TypeOK
  BY DEF Inv
<1> QED
  BY <1>1, Always, PTL

(* Two calls are never mixed on the wire, and a call takes the status line *)
(* of its own command unless an earlier call gave up on its own (ioLock,   *)
(* ReadResponseAsync).                                                     *)
THEOREM OwnReply == Spec => []Exclusive
<1>1. Inv => Exclusive
  BY DEF Inv, Numbered, Exclusive, Active
<1> QED
  BY <1>1, Always, PTL
================================================================================
