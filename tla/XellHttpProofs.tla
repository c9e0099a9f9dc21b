---------------------------- MODULE XellHttpProofs ----------------------------
(***************************************************************************)
(* What XellHttp's connection hands to TCP is the answer in its order, and *)
(* the server ends it only after the last byte, for every size of the      *)
(* ring, the send buffer and the answers (AnswersWhole); the handler       *)
(* finishes once (FinishedOnce).                                           *)
(***************************************************************************)
EXTENDS XellHttp, SequenceTheorems, TLAPS

Prefix(n) == [i \in 1 .. n |-> i]

(* Each byte is in one of three places: given to TCP, in the ring at its   *)
(* distance from the reading end, or not written yet.  The ring is never   *)
(* quite full, so that equal ends mean it is empty.                        *)
RingInv ==
  /\ given = Prefix(Len(given))
  /\ Used <= Ring - 1
  /\ Len(given) + Used = Made
  /\ Len(given) - acked <= SndBuf
  /\ \A k \in 0 .. Used - 1 : buf[Slot(rd + k)] = Len(given) + k + 1

(* Which phases go together.                                               *)
PhaseInv ==
  /\ answer = <<>> <=> client = "REQUEST"
  /\ answer = <<>> => ~handler /\ finishes = 0 /\ ~priv /\ server = "IDLE"
  /\ piece <= Len(answer) => server # "CLOSE"
  /\ client = "DATA" <=> server # "IDLE"
  /\ server = "CLOSE" => ~handler /\ ~priv /\ answer # <<>> /\ piece = Len(answer) + 1
  /\ server = "IDLE" => piece = 1 /\ given = <<>> /\ wr = rd
  /\ registered => http /\ end = "open" /\ tcp = "ESTABLISHED"
  /\ registered /\ answer # <<>> /\ server # "CLOSE" => handler
  /\ handler => registered /\ priv /\ finishes = 0
  /\ finishes <= 1
  /\ registered => retries < Tries
  /\ end \in {"complete", "dropped"} => ~priv /\ ~http /\ ~registered
  /\ end = "open" => http

Inv == TypeOK /\ RingInv /\ PhaseInv

USE SizesAssumption

(* Bytes in the ring from r to w, and a write position's distance.         *)
Held(r, w) == IF w >= r THEN w - r ELSE w + Ring - r
Holds(b, r, w, from) == \A k \in 0 .. Held(r, w) - 1 : b[Slot(r + k)] = from + k + 1
Behind(w, s) == IF s >= w THEN s - w ELSE s + Ring - w

LEMMA AvailableRoom ==
  ASSUME NEW u \in Nat, NEW need \in Nat, need >= 1, Available(u) >= need
  PROVE  u + need + Spare <= Ring
  BY DEF Available

LEMMA PieceArithmetic ==
  ASSUME NEW held \in Nat, NEW made \in Nat, NEW start \in Nat, NEW need \in Nat,
         NEW upto \in Nat, NEW u \in Nat,
         u = held + start - made, u + need + Spare <= Ring, upto <= start + need + Spare - 1
  PROVE  held + (upto - made) <= Ring - 1
  OBVIOUS

LEMMA FlightArithmetic ==
  ASSUME NEW before \in Nat, NEW after \in Nat, NEW acks \in Nat, acks <= after,
         after - before <= SndBuf - (before - acks)
  PROVE  acks \in 0 .. after /\ after - acks <= SndBuf
  OBVIOUS

LEMMA HeldBound ==
  ASSUME NEW r \in 0 .. Ring - 1, NEW w \in 0 .. Ring - 1
  PROVE  Held(r, w) \in 0 .. Ring - 1
  BY DEF Held

LEMMA Wrote ==
  ASSUME NEW r \in 0 .. Ring - 1, NEW w \in 0 .. Ring - 1, NEW n \in Nat,
         Held(r, w) + n <= Ring - 1
  PROVE  /\ Slot(w + n) \in 0 .. Ring - 1
         /\ Held(r, Slot(w + n)) = Held(r, w) + n
<1>1. CASE w + n >= Ring
  <2>1. Slot(w + n) = w + n - Ring
    BY <1>1 DEF Slot
  <2>. QED BY <1>1, <2>1 DEF Held
<1>2. CASE w + n < Ring
  <2>1. Slot(w + n) = w + n
    BY <1>2 DEF Slot
  <2>. QED BY <1>2, <2>1 DEF Held
<1>. QED BY <1>1, <1>2

LEMMA Distance ==
  ASSUME NEW r \in 0 .. Ring - 1, NEW w \in 0 .. Ring - 1, NEW k \in 0 .. Ring - 1
  PROVE  /\ Slot(r + k) \in 0 .. Ring - 1
         /\ k >= Held(r, w) => Behind(w, Slot(r + k)) = k - Held(r, w)
         /\ k < Held(r, w) => Behind(w, Slot(r + k)) = Ring - Held(r, w) + k
<1>1. CASE r + k >= Ring
  <2>1. Slot(r + k) = r + k - Ring
    BY <1>1 DEF Slot
  <2>. QED BY <1>1, <2>1 DEF Held, Behind
<1>2. CASE r + k < Ring
  <2>1. Slot(r + k) = r + k
    BY <1>2 DEF Slot
  <2>. QED BY <1>2, <2>1 DEF Held, Behind
<1>. QED BY <1>1, <1>2

LEMMA Read ==
  ASSUME NEW r \in 0 .. Ring - 1, NEW w \in 0 .. Ring - 1, NEW n \in Nat,
         n <= Held(r, w), r + n <= Ring
  PROVE  /\ Slot(r + n) \in 0 .. Ring - 1
         /\ Held(Slot(r + n), w) = Held(r, w) - n
         /\ \A k \in Nat : k + n < Ring => Slot(Slot(r + n) + k) = Slot(r + (k + n))
<1>1. CASE r + n >= Ring
  <2>1. Slot(r + n) = 0 /\ r + n = Ring
    BY <1>1 DEF Slot
  <2>. QED BY <1>1, <2>1 DEF Held, Slot
<1>2. CASE r + n < Ring
  <2>1. Slot(r + n) = r + n
    BY <1>2 DEF Slot
  <2>. QED BY <1>2, <2>1 DEF Held, Slot
<1>. QED BY <1>1, <1>2

(* The facts about an answer that a step uses.                             *)
LEMMA AnswerFacts ==
  ASSUME NEW a \in Answers
  PROVE  /\ a # <<>> /\ Len(a) \in Nat \ {0}
         /\ \A p \in 1 .. Len(a) :
              /\ a[p].need \in Nat /\ a[p].upto \in Nat /\ a[p].need >= 1
              /\ a[p].upto = Start(a, p + 1)
              /\ Start(a, p) < a[p].upto
              /\ a[p].upto <= Start(a, p) + a[p].need + Spare - 1
         /\ \A p \in 1 .. Len(a) + 1 : Start(a, p) \in Nat
         /\ \A q \in 1 .. Len(a) + 1 : \A p \in 1 .. q : Start(a, p) <= Start(a, q)
<1>1. a \in Seq([upto : Nat, need : Nat]) /\ a # <<>>
  BY AnswersAssumption
<1>2. Len(a) \in Nat \ {0}
  BY <1>1
<1>3. \A p \in 1 .. Len(a) : a[p] \in [upto : Nat, need : Nat]
  BY <1>1, ElementOfSeq, Zenon
<1>4. \A p \in 1 .. Len(a) : a[p].need \in Nat /\ a[p].upto \in Nat
  BY <1>3
<1>5. \A p \in 1 .. Len(a) + 1 : Start(a, p) \in Nat
  <2>1. TAKE p \in 1 .. Len(a) + 1
  <2>2. CASE p = 1
    BY <2>2 DEF Start
  <2>3. CASE p # 1
    BY <2>1, <2>3, <1>2, <1>4 DEF Start
  <2>. QED BY <2>2, <2>3
<1>6. \A p \in 1 .. Len(a) : a[p].upto = Start(a, p + 1)
  BY <1>2 DEF Start
<1>7. \A p \in 1 .. Len(a) :
        /\ a[p].need \in 1 .. Ring - Spare
        /\ a[p].upto \in Start(a, p) + 1 .. Start(a, p) + a[p].need + Spare - 1
  BY AnswersAssumption
<1>8. \A p \in 1 .. Len(a) :
        /\ a[p].need >= 1
        /\ Start(a, p) < a[p].upto
        /\ a[p].upto <= Start(a, p) + a[p].need + Spare - 1
  <2>1. TAKE p \in 1 .. Len(a)
  <2>2. Start(a, p) \in Nat
    BY <1>2, <1>5
  <2>. QED BY <2>1, <2>2, <1>4, <1>7
<1>9. \A q \in 1 .. Len(a) + 1 : \A p \in 1 .. q : Start(a, p) <= Start(a, q)
  BY AnswersAssumption
<1>. QED BY <1>1, <1>2, <1>4, <1>5, <1>6, <1>8, <1>9

(* A piece is written only where there is room for it, with a byte to      *)
(* spare (httpd_available_sendbuffer).                                     *)
LEMMA RoomForPieces ==
  ASSUME TypeOK, RingInv, answer # <<>>, NEW p \in Stops
  PROVE  /\ p \in piece .. Len(answer) + 1
         /\ Made \in Nat /\ Start(answer, p) \in Nat /\ Made <= Start(answer, p)
         /\ Used \in Nat /\ Used = Held(rd, wr)
         /\ Used + (Start(answer, p) - Made) <= Ring - 1
<1>1. answer \in Answers /\ piece \in 1 .. Len(answer) + 1
  BY DEF TypeOK
<1>2. Len(answer) \in Nat \ {0}
  BY <1>1, AnswerFacts
<1>3. p \in piece .. Len(answer) + 1 /\ \A q \in piece .. p - 1 : Fits(q)
  BY <1>1, <1>2 DEF Stops
<1>4. Made = Start(answer, piece) /\ Made \in Nat /\ Start(answer, p) \in Nat
  BY <1>1, <1>2, <1>3, AnswerFacts DEF Made
<1>5. \A q \in piece .. p : q \in 1 .. Len(answer) + 1 /\ Made <= Start(answer, q)
  BY <1>1, <1>2, <1>3, <1>4, AnswerFacts
<1>6. Used \in Nat /\ Used = Held(rd, wr) /\ Used <= Ring - 1
  BY HeldBound DEF Used, Held, TypeOK, RingInv
<1>7. CASE p = piece
  BY <1>2, <1>3, <1>4, <1>5, <1>6, <1>7
<1>8. CASE p # piece
  <2>1. PICK q \in piece .. p - 1 : q \in 1 .. Len(answer) /\ q + 1 = p
    BY <1>1, <1>2, <1>3, <1>8
  <2>2. PICK need \in Nat : need = answer[q].need
    BY <1>1, <2>1, AnswerFacts
  <2>3. need >= 1 /\ Start(answer, p) <= Start(answer, q) + need + Spare - 1
    BY <1>1, <2>1, <2>2, AnswerFacts
  <2>7. Start(answer, q) \in Nat /\ Made <= Start(answer, q)
    <3>1. q \in piece .. p
      BY <1>1, <1>3, <2>1
    <3>. QED BY <1>1, <1>5, <2>1, <3>1, AnswerFacts
  <2>4. PICK u \in Nat : u = Used + Start(answer, q) - Made
    BY <1>4, <1>6, <2>7
  <2>5. Available(u) >= need
    BY <1>3, <2>1, <2>2, <2>4 DEF Fits
  <2>6. u + need + Spare <= Ring
    BY <2>2, <2>3, <2>4, <2>5, AvailableRoom
  <2>8. Used + (Start(answer, p) - Made) <= Ring - 1
    BY <1>4, <1>6, <2>2, <2>3, <2>4, <2>6, <2>7, PieceArithmetic
  <2>. QED BY <1>2, <1>3, <1>4, <1>5, <1>6, <2>8
<1>. QED BY <1>7, <1>8

(* Writing puts the next bytes behind those in the ring and overwrites     *)
(* none of them (httpd_put_sendbuffer).                                    *)
LEMMA WritingKeeps ==
  ASSUME TypeOK, RingInv, answer # <<>>, NEW p \in Stops,
         NEW w, w = Slot(wr + Start(answer, p) - Made)
  PROVE  /\ w \in 0 .. Ring - 1
         /\ Filled(p) \in [0 .. Ring - 1 -> Nat]
         /\ Len(given) + Held(rd, w) = Start(answer, p)
         /\ Holds(Filled(p), rd, w, Len(given))
<1>0. /\ Made \in Nat /\ Start(answer, p) \in Nat /\ Made <= Start(answer, p)
      /\ Used \in Nat /\ Used = Held(rd, wr)
      /\ Used + (Start(answer, p) - Made) <= Ring - 1
  BY RoomForPieces
<1>1. PICK n \in Nat : n = Start(answer, p) - Made
  BY <1>0
<1>2. /\ rd \in 0 .. Ring - 1 /\ wr \in 0 .. Ring - 1 /\ buf \in [0 .. Ring - 1 -> Nat]
      /\ Len(given) \in Nat /\ Len(given) + Used = Made
  BY DEF TypeOK, RingInv
<1>3. PICK u \in Nat : u = Used /\ u = Held(rd, wr) /\ u + n <= Ring - 1
  BY <1>0, <1>1
<1>4. w = Slot(wr + n)
  BY <1>0, <1>1, <1>2
<1>5. w \in 0 .. Ring - 1 /\ Held(rd, w) = u + n
  BY <1>1, <1>2, <1>3, <1>4, Wrote
<1>6. Filled(p) = [s \in 0 .. Ring - 1 |-> IF Behind(wr, s) < n THEN Made + Behind(wr, s) + 1
                                                              ELSE buf[s]]
  BY <1>1 DEF Filled, Behind
<1>7. Filled(p) \in [0 .. Ring - 1 -> Nat]
  <2>1. \A s \in 0 .. Ring - 1 : Behind(wr, s) \in Nat /\ buf[s] \in Nat
    BY <1>2 DEF Behind
  <2>2. \A s \in 0 .. Ring - 1 : Made + Behind(wr, s) + 1 \in Nat
    BY <1>0, <2>1
  <2>. QED BY <1>6, <2>1, <2>2
<1>8. Holds(Filled(p), rd, w, Len(given))
  <2>. SUFFICES ASSUME NEW k \in 0 .. u + n - 1
                PROVE  Filled(p)[Slot(rd + k)] = Len(given) + k + 1
    BY <1>5 DEF Holds
  <2>1. k \in 0 .. Ring - 1
    BY <1>1, <1>3
  <2>2. PICK s \in 0 .. Ring - 1 : s = Slot(rd + k)
    BY <1>2, <2>1, Distance
  <2>3. Filled(p)[s] = IF Behind(wr, s) < n THEN Made + Behind(wr, s) + 1 ELSE buf[s]
    BY <1>6
  <2>4. CASE k < u
    <3>1. Behind(wr, s) = Ring - u + k
      <4>1. k < Held(rd, wr) => Behind(wr, s) = Ring - Held(rd, wr) + k
        BY <1>2, <2>1, <2>2, Distance
      <4>. QED BY <1>3, <2>4, <4>1
    <3>2. ~(Behind(wr, s) < n)
      BY <3>1, <1>1, <1>3, <2>1
    <3>3. k \in 0 .. Used - 1
      BY <1>3, <2>1, <2>4
    <3>4. buf[s] = Len(given) + k + 1
      BY <2>2, <3>3 DEF RingInv
    <3>. QED BY <2>2, <2>3, <3>2, <3>4
  <2>5. CASE k >= u
    <3>1. Behind(wr, s) = k - u
      <4>1. k >= Held(rd, wr) => Behind(wr, s) = k - Held(rd, wr)
        BY <1>2, <2>1, <2>2, Distance
      <4>. QED BY <1>3, <2>5, <4>1
    <3>2. Behind(wr, s) < n /\ Made + Behind(wr, s) + 1 = Len(given) + k + 1
      <4>1. Len(given) + u = Made
        BY <1>2, <1>3
      <4>2. k \in Nat /\ Len(given) \in Nat /\ k - u < n
        <5>1. k < u + n /\ k \in Nat
          BY <1>1, <1>3
        <5>. QED BY <5>1, <1>1, <1>2, <1>3
      <4>. QED BY <3>1, <4>1, <4>2, <1>0, <1>3
    <3>. QED BY <2>2, <2>3, <3>2
  <2>. QED BY <2>4, <2>5, <2>1, <1>3
<1>9. Len(given) + Held(rd, w) = Start(answer, p)
  <2>2. Made + n = Start(answer, p)
    BY <1>0, <1>1
  <2>3. Len(given) + u = Made
    BY <1>2, <1>3
  <2>1. Len(given) + u = Made /\ Made + n = Start(answer, p)
    BY <2>2, <2>3
  <2>. QED BY <2>1, <1>1, <1>2, <1>3, <1>5
<1>. QED BY <1>5, <1>7, <1>8, <1>9

(* Handing over gives TCP the next bytes and leaves the others in the ring *)
(* (send_data).                                                            *)
LEMMA HandOverKeeps ==
  ASSUME NEW b \in [0 .. Ring - 1 -> Nat], NEW w \in 0 .. Ring - 1,
         rd \in 0 .. Ring - 1, NEW f \in 0 .. SndBuf,
         given \in Seq(Nat), given = Prefix(Len(given)),
         Holds(b, rd, w, Len(given)),
         HandOver(b, w, f)
  PROVE  /\ given' \in Seq(Nat) /\ given' = Prefix(Len(given'))
         /\ Len(given) <= Len(given') /\ Len(given') - Len(given) <= SndBuf - f
         /\ rd' \in 0 .. Ring - 1
         /\ Len(given') + Held(rd', w) = Len(given) + Held(rd, w)
         /\ Holds(b, rd', w, Len(given'))
<1>. DEFINE run == IF w >= rd THEN w - rd ELSE Ring - rd
            room == SndBuf - f
            sent(n) == [i \in 1 .. n |-> b[rd + i - 1]]
<1>1. PICK most \in Nat :
        /\ most = IF room < run THEN room ELSE run
        /\ most <= run /\ most <= room
  BY SMTT(60)
<1>2. PICK n \in Accepted(most) : given' = given \o sent(n) /\ rd' = Slot(rd + n)
  BY <1>1 DEF HandOver
<1>3. n \in 0 .. most
  BY <1>1, <1>2 DEF Accepted
<1>4. n \in Nat /\ n <= SndBuf - f /\ rd + n <= Ring /\ n <= Held(rd, w)
  BY <1>1, <1>3 DEF Held
<1>. HIDE DEF run, room
<1>5. \A i \in 1 .. n : b[rd + i - 1] = Len(given) + i
  <2>. TAKE i \in 1 .. n
  <2>1. i - 1 \in 0 .. Held(rd, w) - 1 /\ rd + (i - 1) < Ring /\ rd + (i - 1) \in Nat
    BY <1>4 DEF Held
  <2>2. Slot(rd + (i - 1)) = rd + (i - 1)
    BY <2>1 DEF Slot
  <2>3. b[Slot(rd + (i - 1))] = Len(given) + (i - 1) + 1
    BY <2>1 DEF Holds
  <2>4. rd + i - 1 = rd + (i - 1) /\ Len(given) + (i - 1) + 1 = Len(given) + i
    OBVIOUS
  <2>. QED BY <2>2, <2>3, <2>4
<1>6. sent(n) = [i \in 1 .. n |-> Len(given) + i]
  BY <1>5
<1>7. sent(n) \in Seq(Nat) /\ Len(sent(n)) = n
  BY <1>4, <1>6
<1>8. \A i \in 1 .. n : sent(n)[i] = Len(given) + i
  BY <1>6
<1>. HIDE DEF sent
<1>9. /\ given' \in Seq(Nat) /\ Len(given') = Len(given) + n
      /\ \A i \in 1 .. Len(given) + n :
           given'[i] = IF i <= Len(given) THEN given[i] ELSE sent(n)[i - Len(given)]
  <2>1. /\ given \o sent(n) \in Seq(Nat) /\ Len(given \o sent(n)) = Len(given) + Len(sent(n))
        /\ \A i \in 1 .. Len(given) + Len(sent(n)) :
             (given \o sent(n))[i] = IF i <= Len(given) THEN given[i] ELSE sent(n)[i - Len(given)]
    BY <1>7, ConcatProperties, Zenon
  <2>. QED BY <1>2, <1>7, <2>1, Zenon
<1>10. Len(given) \in Nat /\ Len(given') \in Nat
  BY <1>9
<1>11. \A i \in 1 .. Len(given') : given'[i] = i
  <2>. TAKE i \in 1 .. Len(given')
  <2>1. CASE i <= Len(given)
    <3>1. i \in 1 .. Len(given) /\ given'[i] = given[i]
      BY <1>9, <1>10, <1>4, <2>1
    <3>2. Prefix(Len(given))[i] = i
      BY <3>1 DEF Prefix
    <3>. QED BY <3>1, <3>2
  <2>2. CASE i > Len(given)
    <3>1. i - Len(given) \in 1 .. n /\ Len(given) + (i - Len(given)) = i
      BY <1>4, <1>9, <1>10, <2>2
    <3>2. i \in 1 .. Len(given) + n /\ ~(i <= Len(given))
      BY <1>9, <1>10, <2>2
    <3>3. given'[i] = sent(n)[i - Len(given)]
      BY <1>9, <3>2
    <3>. QED BY <1>8, <3>1, <3>3
  <2>. QED BY <2>1, <2>2, <1>10
<1>12. given' = Prefix(Len(given'))
  <2>1. Prefix(Len(given')) \in Seq(Nat) /\ Len(Prefix(Len(given'))) = Len(given')
    BY <1>10 DEF Prefix
  <2>2. \A i \in 1 .. Len(given') : given'[i] = Prefix(Len(given'))[i]
    BY <1>11 DEF Prefix
  <2>. QED BY <2>1, <2>2, <1>9, SeqEqual, Zenon
<1>13. /\ rd' \in 0 .. Ring - 1
       /\ Held(rd', w) = Held(rd, w) - n
       /\ \A k \in Nat : k + n < Ring => Slot(rd' + k) = Slot(rd + (k + n))
  BY <1>2, <1>4, Read
<1>14. Held(rd, w) \in Nat /\ Held(rd, w) < Ring
  BY HeldBound
<1>15. Holds(b, rd', w, Len(given'))
  <2>. SUFFICES ASSUME NEW k \in 0 .. Held(rd, w) - n - 1
                PROVE  b[Slot(rd' + k)] = Len(given') + k + 1
    BY <1>13 DEF Holds
  <2>1. k \in Nat /\ k + n < Ring /\ k + n \in 0 .. Held(rd, w) - 1
    BY <1>4, <1>14
  <2>2. b[Slot(rd + (k + n))] = Len(given) + (k + n) + 1
    BY <2>1 DEF Holds
  <2>3. Slot(rd' + k) = Slot(rd + (k + n))
    BY <1>13, <2>1
  <2>4. Len(given) + (k + n) + 1 = Len(given') + k + 1
    BY <1>4, <1>9, <1>10, <2>1
  <2>. QED BY <2>2, <2>3, <2>4
<1>. QED BY <1>4, <1>9, <1>10, <1>12, <1>13, <1>14, <1>15

-----------------------------------------------------------------------------
(* The data half of the type predicate and the invariant.                  *)
DataType ==
  /\ answer \in Answers \cup {<<>>} /\ piece \in 1 .. Len(answer) + 1
  /\ buf \in [0 .. Ring - 1 -> Nat] /\ rd \in 0 .. Ring - 1 /\ wr \in 0 .. Ring - 1
  /\ given \in Seq(Nat) /\ acked \in 0 .. Len(given)

(* What a step that sends leaves, in terms of the ring it starts sending   *)
(* from.                                                                   *)
LEMMA SentFrom ==
  ASSUME TypeOK, RingInv, NEW f, f = Len(given) - acked', acked' \in acked .. Len(given),
         answer' = answer, piece' \in 1 .. Len(answer) + 1,
         buf' \in [0 .. Ring - 1 -> Nat], wr' \in 0 .. Ring - 1,
         Len(given) + Held(rd, wr') = Made',
         Holds(buf', rd, wr', Len(given)),
         HandOver(buf', wr', f)
  PROVE  DataType' /\ RingInv' /\ Len(given) <= Len(given')
<1>1. /\ Len(given) \in Nat /\ acked \in 0 .. Len(given) /\ rd \in 0 .. Ring - 1
      /\ given \in Seq(Nat) /\ given = Prefix(Len(given))
      /\ Len(given) - acked <= SndBuf /\ answer \in Answers \cup {<<>>}
  BY DEF TypeOK, RingInv
<1>2. f \in 0 .. SndBuf
  BY <1>1
<1>3. /\ given' \in Seq(Nat) /\ given' = Prefix(Len(given'))
      /\ Len(given) <= Len(given') /\ Len(given') - Len(given) <= SndBuf - f
      /\ rd' \in 0 .. Ring - 1
      /\ Len(given') + Held(rd', wr') = Len(given) + Held(rd, wr')
      /\ Holds(buf', rd', wr', Len(given'))
  BY <1>1, <1>2, HandOverKeeps
<1>4. Used' = Held(rd', wr') /\ Used' \in 0 .. Ring - 1
  BY <1>3, HeldBound DEF Used, Held
<1>5. Len(given') \in Nat
  BY <1>3
<1>6. acked' \in 0 .. Len(given') /\ Len(given') - acked' <= SndBuf
  <2>1. acked' \in Nat /\ acked' <= Len(given)
    BY <1>1
  <2>2. acked' <= Len(given')
    BY <2>1, <1>1, <1>3, <1>5
  <2>. QED BY <2>1, <2>2, <1>1, <1>3, <1>5, FlightArithmetic
<1>7. DataType'
  BY <1>1, <1>3, <1>6 DEF DataType
<1>8. \A k \in 0 .. Used' - 1 : buf'[Slot(rd' + k)] = Len(given') + k + 1
  BY <1>3, <1>4 DEF Holds
<1>9. Slot(0)' = Slot(0) /\ \A i \in Nat : Slot(i)' = Slot(i)
  BY DEF Slot
<1>10. RingInv'
  BY <1>3, <1>4, <1>6, <1>8, <1>9 DEF RingInv, Prefix
<1>. QED BY <1>3, <1>7, <1>10

LEMMA WriteKeeps ==
  ASSUME TypeOK, RingInv, NEW f, f = Len(given) - acked', acked' \in acked .. Len(given),
         answer' = answer, answer # <<>>, WriteAndSend(f)
  PROVE  DataType' /\ RingInv' /\ Len(given) <= Len(given')
<1>1. PICK p \in Stops :
        /\ piece' = p /\ buf' = Filled(p)
        /\ wr' = Slot(wr + Start(answer, p) - Made)
        /\ HandOver(buf', wr', f)
  BY DEF WriteAndSend
<1>2. /\ wr' \in 0 .. Ring - 1
      /\ buf' \in [0 .. Ring - 1 -> Nat]
      /\ Len(given) + Held(rd, wr') = Start(answer, p)
      /\ Holds(buf', rd, wr', Len(given))
  BY <1>1, WritingKeeps
<1>3. p \in 1 .. Len(answer) + 1
  <2>1. piece \in 1 .. Len(answer) + 1 /\ p \in piece .. Len(answer) + 1
    BY RoomForPieces DEF TypeOK
  <2>. QED BY <2>1
<1>4. Made' = Start(answer, p)
  BY <1>1 DEF Made, Start
<1>. QED BY <1>1, <1>2, <1>3, <1>4, SentFrom

LEMMA SendKeeps ==
  ASSUME TypeOK, RingInv, NEW f, f = Len(given) - acked', acked' \in acked .. Len(given),
         answer' = answer, SendOnly(f)
  PROVE  DataType' /\ RingInv' /\ Len(given) <= Len(given')
<1>1. buf' = buf /\ wr' = wr /\ piece' = piece /\ HandOver(buf', wr', f)
  BY DEF SendOnly
<1>2. /\ wr' \in 0 .. Ring - 1 /\ buf' \in [0 .. Ring - 1 -> Nat]
      /\ piece' \in 1 .. Len(answer) + 1
  BY <1>1 DEF TypeOK
<1>3. Used = Held(rd, wr')
  BY <1>1 DEF Used, Held
<1>4. Len(given) + Held(rd, wr') = Made'
  BY <1>1, <1>3 DEF RingInv, Made, Start
<1>5. Holds(buf', rd, wr', Len(given))
  BY <1>1, <1>3 DEF RingInv, Holds
<1>. QED BY <1>1, <1>2, <1>4, <1>5, SentFrom

LEMMA DataUnchanged ==
  ASSUME TypeOK, RingInv, acked' \in acked .. Len(given),
         UNCHANGED <<answer, ring, given>>
  PROVE  DataType' /\ RingInv'
<1>1. Used' = Used /\ Made' = Made /\ \A i : Slot(i)' = Slot(i)
  BY DEF Used, Made, Start, Slot, ring
<1>2. Len(given) \in Nat /\ acked \in Nat
  BY DEF TypeOK
<1>3. DataType'
  BY <1>2 DEF DataType, TypeOK, ring
<1>4. Len(given') - acked' <= SndBuf
  BY <1>2 DEF RingInv
<1>. QED BY <1>1, <1>3, <1>4 DEF RingInv, ring, Prefix

-----------------------------------------------------------------------------
LEMMA StartInv == Init => Inv
<1>. SUFFICES ASSUME Init PROVE Inv
  OBVIOUS
<1>1. TypeOK
  BY DEF Init, TypeOK
<1>2. Used = 0 /\ Made = 0 /\ Len(given) = 0
  BY DEF Init, Used, Made
<1>3. given = Prefix(Len(given))
  BY <1>2 DEF Init, Prefix
<1>4. RingInv
  BY <1>2, <1>3 DEF RingInv, Init
<1>5. PhaseInv
  BY <1>2 DEF PhaseInv, Init
<1>. QED BY <1>1, <1>4, <1>5 DEF Inv

(* The other half of the type predicate.                                   *)
ControlType ==
  /\ client \in {"REQUEST", "HEADER", "DATA"}
  /\ server \in {"IDLE", "BUSY", "CLOSE"}
  /\ retries \in 0 .. Tries
  /\ finishes \in Nat
  /\ {handler, priv, http, registered} \subseteq BOOLEAN
  /\ tcp \in {"ESTABLISHED", "FIN_WAIT", "CLOSED"}
  /\ end \in {"open", "complete", "dropped", "aborted", "reset"}

LEMMA TypeHalves == /\ TypeOK <=> DataType /\ ControlType
                    /\ TypeOK' <=> DataType' /\ ControlType'
  BY DEF TypeOK, DataType, ControlType

(* The control half of a step that sends: the answer's last piece is where *)
(* the handler leaves.                                                     *)
LEMMA WriteControl ==
  ASSUME Inv, NEW f, WriteAndSend(f), answer' = answer, answer # <<>>, retries' \in 0 .. Tries - 1,
         handler, client' = "DATA"
  PROVE  ControlType' /\ PhaseInv'
<1>1. PICK p \in Stops :
        /\ piece' = p
        /\ IF p > Len(answer)
             THEN /\ server' = "CLOSE"
                  /\ handler' = FALSE /\ priv' = FALSE /\ finishes' = finishes + 1
             ELSE /\ server' = "BUSY"
                  /\ UNCHANGED <<handler, priv, finishes>>
        /\ UNCHANGED <<http, registered, tcp, end>>
  BY DEF WriteAndSend
<1>2. p \in 1 .. Len(answer) + 1 /\ Len(answer) \in Nat
  <2>1. answer \in Answers /\ piece \in 1 .. Len(answer) + 1 /\ p \in piece .. Len(answer) + 1
    BY RoomForPieces DEF TypeOK, Inv
  <2>2. Len(answer) \in Nat
    BY <2>1, AnswerFacts
  <2>. QED BY <2>1, <2>2
<1>3. finishes = 0 /\ priv /\ registered /\ http /\ end = "open" /\ tcp = "ESTABLISHED"
  BY DEF Inv, PhaseInv
<1>4. CASE p > Len(answer)
  <2>1. /\ server' = "CLOSE" /\ piece' = Len(answer) + 1
        /\ handler' = FALSE /\ priv' = FALSE /\ finishes' = 1
        /\ UNCHANGED <<http, registered, tcp, end>>
    BY <1>1, <1>2, <1>3, <1>4
  <2>5. retries' \in 0 .. Tries
    OBVIOUS
  <2>2. ControlType'
    BY <2>1, <2>5, <1>3 DEF ControlType, Inv, TypeOK
  <2>3. answer' # <<>> /\ ~(piece' <= Len(answer'))
    BY <2>1, <1>2
  <2>4. PhaseInv'
    BY <2>1, <2>3, <1>3 DEF PhaseInv
  <2>. QED BY <2>2, <2>4
<1>5. CASE ~(p > Len(answer))
  <2>1. server' = "BUSY" /\ UNCHANGED <<handler, priv, finishes, http, registered, tcp, end>>
    BY <1>1, <1>5
  <2>. QED BY <2>1, <1>2, <1>3 DEF ControlType, PhaseInv, Inv, TypeOK
<1>. QED BY <1>4, <1>5

LEMMA CloseControl ==
  ASSUME Inv, NEW how, how \in {"complete", "dropped"}, registered, CloseConn(how),
         UNCHANGED <<answer, client>>, retries' \in 0 .. Tries
  PROVE  ControlType' /\ PhaseInv'
<1>1. /\ handler' = FALSE /\ registered' = FALSE /\ http' = FALSE /\ end' = how
      /\ tcp' \in {"FIN_WAIT", "ESTABLISHED"} /\ priv' = (priv /\ ~handler)
      /\ finishes' = IF handler THEN finishes + 1 ELSE finishes
      /\ server' = server /\ piece' = piece /\ wr' = wr /\ rd' = rd /\ given' = given
  BY DEF CloseConn, ring
<1>2. priv' = FALSE
  <2>1. CASE answer = <<>>
    BY <1>1, <2>1 DEF Inv, PhaseInv
  <2>2. CASE answer # <<>> /\ server # "CLOSE"
    BY <1>1, <2>2 DEF Inv, PhaseInv
  <2>3. CASE answer # <<>> /\ server = "CLOSE"
    BY <1>1, <2>3 DEF Inv, PhaseInv
  <2>. QED BY <2>1, <2>2, <2>3
<1>3. finishes' \in Nat /\ finishes' <= 1 /\ (answer = <<>> => finishes' = 0)
  BY <1>1 DEF Inv, PhaseInv, TypeOK
<1>. QED BY <1>1, <1>2, <1>3 DEF ControlType, PhaseInv, Inv, TypeOK

LEMMA ErrControl ==
  ASSUME Inv, NEW how, how \in {"aborted", "reset"}, ConnErr(how),
         UNCHANGED <<answer, client>>, retries' \in 0 .. Tries
  PROVE  ControlType' /\ PhaseInv'
<1>1. /\ tcp' = "CLOSED" /\ handler' = FALSE /\ registered' = FALSE /\ http' = FALSE
      /\ end' = IF end = "open" THEN how ELSE end
      /\ server' = server /\ piece' = piece /\ wr' = wr /\ rd' = rd /\ given' = given
      /\ priv' = priv /\ finishes' = finishes
  BY DEF ConnErr, ring
<1>. QED BY <1>1 DEF ControlType, PhaseInv, Inv, TypeOK

LEMMA SendDataKeeps ==
  ASSUME Inv, NEW f, f = Len(given) - acked', acked' \in acked .. Len(given),
         UNCHANGED <<answer, client>>, retries' \in 0 .. Tries - 1, registered,
         server # "IDLE", SendData(f)
  PROVE  Inv' /\ Len(given) <= Len(given') /\ end' = end
<1>1. TypeOK /\ RingInv /\ PhaseInv /\ answer # <<>> /\ client = "DATA"
  BY DEF Inv, PhaseInv
<1>2. CASE server = "CLOSE"
  <2>1. SendOnly(f) /\ UNCHANGED <<server, piece, memory, tcp, end>>
    BY <1>2 DEF SendData, SendOnly
  <2>2. DataType' /\ RingInv' /\ Len(given) <= Len(given')
    BY <1>1, <2>1, SendKeeps
  <2>3. ControlType'
    BY <1>1, <2>1 DEF ControlType, TypeOK, memory
  <2>4. PhaseInv'
    BY <1>1, <1>2, <2>1 DEF PhaseInv, memory
  <2>. QED BY <2>1, <2>2, <2>3, <2>4, TypeHalves DEF Inv
<1>3. CASE server # "CLOSE"
  <2>1. WriteAndSend(f) /\ handler
    BY <1>1, <1>3 DEF SendData, PhaseInv
  <2>4. end' = end
    BY <2>1 DEF WriteAndSend
  <2>2. DataType' /\ RingInv' /\ Len(given) <= Len(given')
    BY <1>1, <2>1, WriteKeeps
  <2>3. ControlType' /\ PhaseInv'
    BY <1>1, <2>1, WriteControl
  <2>. QED BY <2>2, <2>3, <2>4, TypeHalves DEF Inv
<1>. QED BY <1>2, <1>3

LEMMA StepInv == Inv /\ [Next]_vars => Inv'
<1>. SUFFICES ASSUME Inv, [Next]_vars PROVE Inv'
  OBVIOUS
<1>1. TypeOK /\ RingInv /\ PhaseInv
  BY DEF Inv
<1>2. Len(given) \in Nat /\ acked \in 0 .. Len(given) /\ retries \in 0 .. Tries
  BY <1>1 DEF TypeOK
<1>3. CASE ReceiveRequest
  <2>1. /\ registered /\ client = "REQUEST" /\ client' = "HEADER"
        /\ answer' \in Answers /\ handler' = TRUE /\ priv' = TRUE
        /\ UNCHANGED <<server, ring, retries, finishes, http, registered, tcp, given, acked, end>>
    BY <1>3 DEF ReceiveRequest
  <2>2. answer = <<>> /\ server = "IDLE" /\ piece = 1 /\ given = <<>> /\ wr = rd
    BY <1>1, <2>1 DEF PhaseInv
  <2>3. answer' # <<>> /\ Len(answer') \in Nat \ {0}
    BY <2>1, AnswerFacts
  <2>4. DataType'
    BY <1>1, <2>1, <2>2, <2>3 DEF DataType, TypeOK, ring
  <2>5. Made' = 0 /\ Made = 0
    BY <2>1, <2>2, <2>3 DEF Made, Start, ring
  <2>6. RingInv'
    <3>1. Used' = Used /\ \A i : Slot(i)' = Slot(i)
      BY <2>1 DEF Used, Slot, ring
    <3>. QED BY <1>1, <2>1, <2>5, <3>1 DEF RingInv, ring, Prefix
  <2>7. ControlType'
    BY <1>1, <2>1 DEF ControlType, TypeOK
  <2>8. PhaseInv'
    BY <1>1, <2>1, <2>2, <2>3 DEF PhaseInv, ring
  <2>. QED BY <2>4, <2>6, <2>7, <2>8, TypeHalves DEF Inv
<1>4. CASE StartResponse
  <2>1. /\ registered /\ client = "HEADER" /\ client' = "DATA"
        /\ WriteAndSend(Len(given) - acked) /\ UNCHANGED <<answer, retries, acked>>
    BY <1>4 DEF StartResponse
  <2>2. answer # <<>> /\ handler
    BY <1>1, <2>1 DEF PhaseInv
  <2>3. acked' \in acked .. Len(given) /\ Len(given) - acked = Len(given) - acked'
    BY <1>2, <2>1
  <2>4. DataType' /\ RingInv'
    BY <1>1, <2>1, <2>2, <2>3, WriteKeeps
  <2>5. retries' \in 0 .. Tries - 1
    BY <1>1, <1>2, <2>1 DEF PhaseInv
  <2>6. ControlType' /\ PhaseInv'
    BY <2>1, <2>2, <2>5, WriteControl
  <2>. QED BY <2>4, <2>6, TypeHalves DEF Inv
<1>5. CASE Progress
  <2>1. PICK m \in 1 .. Len(given) - acked : Acknowledged(m)
    BY <1>5 DEF Progress
  <2>2. acked' = acked + m /\ UNCHANGED <<answer, client>>
    BY <2>1 DEF Acknowledged
  <2>3. /\ acked' \in acked .. Len(given)
        /\ Len(given) - acked - m = Len(given) - acked'
    BY <1>2, <2>1, <2>2
  <2>4. CASE ~registered
    <3>1. UNCHANGED <<server, ring, retries, memory, tcp, given, end>>
      BY <2>1, <2>4 DEF Acknowledged
    <3>2. DataType' /\ RingInv'
      BY <1>1, <2>2, <2>3, <3>1, DataUnchanged
    <3>3. ControlType'
      BY <1>1, <3>1, <2>2 DEF ControlType, TypeOK, memory
    <3>4. PhaseInv'
      BY <1>1, <3>1, <2>2 DEF PhaseInv, memory, ring
    <3>. QED BY <3>2, <3>3, <3>4, TypeHalves DEF Inv
  <2>5. CASE registered /\ (wr # rd \/ server # "CLOSE")
    <3>1. retries' = 0 /\ SendData(Len(given) - acked - m)
      BY <2>1, <2>5 DEF Acknowledged
    <3>2. server # "IDLE"
      BY <1>1, <1>2, <2>1 DEF PhaseInv
    <3>3. retries' \in 0 .. Tries - 1
      BY <3>1
    <3>. QED BY <2>2, <2>3, <2>5, <3>1, <3>2, <3>3, SendDataKeeps
  <2>6. CASE registered /\ ~(wr # rd \/ server # "CLOSE")
    <3>1. retries' = 0 /\ CloseConn("complete")
      BY <2>1, <2>6 DEF Acknowledged
    <3>2. retries' \in 0 .. Tries
      BY <3>1
    <3>3. ControlType' /\ PhaseInv'
      BY <2>2, <2>6, <3>1, <3>2, CloseControl
    <3>4. UNCHANGED <<ring, given>>
      BY <3>1 DEF CloseConn
    <3>5. DataType' /\ RingInv'
      BY <1>1, <2>2, <2>3, <3>4, DataUnchanged
    <3>. QED BY <3>3, <3>5, TypeHalves DEF Inv
  <2>. QED BY <2>4, <2>5, <2>6
<1>6. CASE PollAborts
  <2>1. ConnErr("aborted") /\ UNCHANGED <<answer, client, acked>> /\ retries' \in 0 .. Tries
    BY <1>2, <1>6 DEF PollAborts
  <2>2. ControlType' /\ PhaseInv'
    BY <2>1, ErrControl
  <2>3. DataType' /\ RingInv'
    BY <1>1, <1>2, <2>1, DataUnchanged DEF ConnErr
  <2>. QED BY <2>2, <2>3, TypeHalves DEF Inv
<1>7. CASE PollSends
  <2>1. /\ registered /\ wr # rd /\ retries + 1 # Tries /\ retries' = retries + 1
        /\ SendData(Len(given) - acked) /\ UNCHANGED <<answer, client, acked>>
    BY <1>7 DEF PollSends
  <2>2. server # "IDLE"
    BY <1>1, <2>1 DEF PhaseInv
  <2>3. acked' \in acked .. Len(given) /\ Len(given) - acked = Len(given) - acked'
    BY <1>2, <2>1
  <2>4. retries' \in 0 .. Tries - 1
    <3>1. retries < Tries
      BY <1>1, <2>1 DEF PhaseInv
    <3>. QED BY <3>1, <1>2, <2>1
  <2>. QED BY <2>1, <2>2, <2>3, <2>4, SendDataKeeps
<1>8. CASE ClientCloses
  <2>1. registered /\ CloseConn("dropped") /\ UNCHANGED <<answer, client, retries, acked>>
    BY <1>8 DEF ClientCloses
  <2>2. ControlType' /\ PhaseInv'
    BY <1>2, <2>1, CloseControl
  <2>3. DataType' /\ RingInv'
    BY <1>1, <1>2, <2>1, DataUnchanged DEF CloseConn
  <2>. QED BY <2>2, <2>3, TypeHalves DEF Inv
<1>9. CASE Reset
  <2>1. ConnErr("reset") /\ UNCHANGED <<answer, client, retries, acked>>
    BY <1>9 DEF Reset
  <2>2. ControlType' /\ PhaseInv'
    BY <1>2, <2>1, ErrControl
  <2>3. DataType' /\ RingInv'
    BY <1>1, <1>2, <2>1, DataUnchanged DEF ConnErr
  <2>. QED BY <2>2, <2>3, TypeHalves DEF Inv
<1>10. CASE Closed
  <2>1. /\ tcp = "FIN_WAIT" /\ tcp' = "CLOSED"
        /\ UNCHANGED <<answer, client, server, ring, retries, memory, given, acked, end>>
    BY <1>10 DEF Closed
  <2>2. DataType' /\ RingInv'
    BY <1>1, <1>2, <2>1, DataUnchanged
  <2>3. ControlType'
    BY <1>1, <2>1 DEF ControlType, TypeOK, memory
  <2>4. PhaseInv'
    BY <1>1, <2>1 DEF PhaseInv, memory, ring
  <2>. QED BY <2>2, <2>3, <2>4, TypeHalves DEF Inv
<1>11. CASE UNCHANGED vars
  <2>1. UNCHANGED <<answer, client, server, ring, retries, memory, tcp, given, acked, end>>
    BY <1>11 DEF vars
  <2>2. DataType' /\ RingInv'
    BY <1>1, <1>2, <2>1, DataUnchanged
  <2>3. ControlType'
    BY <1>1, <2>1 DEF ControlType, TypeOK, memory
  <2>4. PhaseInv'
    BY <1>1, <2>1 DEF PhaseInv, memory, ring
  <2>. QED BY <2>2, <2>3, <2>4, TypeHalves DEF Inv
<1>. QED BY <1>3, <1>4, <1>5, <1>6, <1>7, <1>8, <1>9, <1>10, <1>11 DEF Next, Poll

(* Type correctness (httpd_init and the callbacks after it).               *)
THEOREM Typing == Spec => []TypeOK
<1>1. Inv => TypeOK
  BY DEF Inv
<1>. QED BY <1>1, StartInv, StepInv, PTL DEF Spec

(* The handler finishes once (close_conn, httpd_handle_server).            *)
THEOREM FinishesOnce == Spec => []FinishedOnce
<1>1. Inv => FinishedOnce
  BY DEF Inv, PhaseInv, FinishedOnce
<1>. QED BY <1>1, StartInv, StepInv, PTL DEF Spec

-----------------------------------------------------------------------------
(* A step that sends extends the stream.                                   *)
LEMMA SendsMore ==
  ASSUME TypeOK, RingInv, DataType', RingInv', answer' = answer, answer # <<>>,
         end' = end, end = "open", Len(given) <= Len(given')
  PROVE  A!Extend
<1>1. Len(given') + Used' = Made' /\ Len(given') \in Nat /\ Len(given) \in Nat
  BY DEF DataType, TypeOK, RingInv
<1>2. Used' \in Nat
  <2>1. rd' \in 0 .. Ring - 1 /\ wr' \in 0 .. Ring - 1
    BY DEF DataType
  <2>2. Used' = Held(rd', wr')
    BY DEF Used, Held
  <2>. QED BY <2>1, <2>2, HeldBound
<1>3. Made' <= Total /\ Total \in Nat /\ Made' \in Nat
  <2>1. answer \in Answers /\ piece' \in 1 .. Len(answer) + 1
    BY DEF TypeOK, DataType
  <2>2. Len(answer) \in Nat \ {0} /\ Total = Start(answer, Len(answer) + 1)
    BY <2>1, AnswerFacts DEF Total
  <2>3. Made' = Start(answer, piece')
    BY DEF Made, Start
  <2>. QED BY <2>1, <2>2, <2>3, AnswerFacts
<1>4. Len(given') \in Len(given) .. Total
  BY <1>1, <1>2, <1>3
<1>5. Total' = Total
  BY DEF Total
<1>6. given' = [i \in 1 .. Len(given') |-> i]
  BY DEF RingInv, Prefix
<1>. QED BY <1>4, <1>5, <1>6 DEF A!Extend

(* Nothing of the answer is in the ring when the server closes.            *)
LEMMA ClosesWhole ==
  ASSUME Inv, server = "CLOSE", wr = rd
  PROVE  Len(given) = Total /\ Total > 0
<1>1. answer \in Answers /\ piece = Len(answer) + 1 /\ Len(given) + Used = Made
  BY DEF Inv, TypeOK, RingInv, PhaseInv
<1>2. Used = 0
  BY DEF Used, Inv, TypeOK
<1>3. /\ Len(answer) \in Nat \ {0} /\ answer # <<>>
      /\ Total = Start(answer, Len(answer) + 1) /\ Made = Total
  BY <1>1, AnswerFacts DEF Made, Total
<1>4. Start(answer, Len(answer)) \in Nat /\ Start(answer, Len(answer)) < Total
  BY <1>1, <1>3, AnswerFacts
<1>. QED BY <1>1, <1>2, <1>3, <1>4 DEF Inv, TypeOK

LEMMA StepAnswer == Inv /\ Inv' /\ [Next]_vars => [A!Next]_(A!vars)
<1>. SUFFICES ASSUME Inv, Inv', [Next]_vars PROVE [A!Next]_(A!vars)
  OBVIOUS
<1>1. TypeOK /\ RingInv /\ PhaseInv /\ DataType' /\ RingInv'
  BY TypeHalves DEF Inv
<1>2. Len(given) \in Nat /\ acked \in 0 .. Len(given) /\ retries \in 0 .. Tries
  BY <1>1 DEF TypeOK
<1>. DEFINE Still == UNCHANGED <<given, answer, end>>
<1>3. Still => [A!Next]_(A!vars)
  BY DEF A!vars, Total
<1>4. A!Ask \/ A!Extend \/ A!Complete \/ A!Cut => [A!Next]_(A!vars)
  BY DEF A!Next
<1>5. CASE ReceiveRequest
  <2>1. /\ registered /\ client = "REQUEST" /\ answer' \in Answers /\ UNCHANGED <<given, end>>
    BY <1>5 DEF ReceiveRequest
  <2>2. Total = 0
    BY <1>1, <2>1 DEF PhaseInv, Total
  <2>3. Total' \in Nat \ {0}
    <3>1. answer' # <<>> /\ Len(answer') \in Nat \ {0} /\ Len(answer') \in 1 .. Len(answer')
      BY <2>1, AnswerFacts
    <3>2. Total' = answer'[Len(answer')].upto
      BY <3>1 DEF Total
    <3>3. /\ answer'[Len(answer')].upto \in Nat /\ Start(answer', Len(answer')) \in Nat
          /\ Start(answer', Len(answer')) < answer'[Len(answer')].upto
      BY <2>1, <3>1, AnswerFacts
    <3>. QED BY <3>2, <3>3
  <2>. QED BY <2>1, <2>2, <2>3, <1>4 DEF A!Ask
<1>6. CASE StartResponse
  <2>1. /\ registered /\ client = "HEADER" /\ WriteAndSend(Len(given) - acked)
        /\ UNCHANGED <<answer, acked>> /\ end' = end
    BY <1>6 DEF StartResponse, WriteAndSend
  <2>2. answer # <<>> /\ end = "open"
    BY <1>1, <2>1 DEF PhaseInv
  <2>3. acked' \in acked .. Len(given) /\ Len(given) - acked = Len(given) - acked'
    BY <1>2, <2>1
  <2>4. Len(given) <= Len(given')
    BY <1>1, <2>1, <2>2, <2>3, WriteKeeps
  <2>. QED BY <1>1, <1>4, <2>1, <2>2, <2>4, SendsMore
<1>7. CASE Progress
  <2>1. PICK m \in 1 .. Len(given) - acked : Acknowledged(m)
    BY <1>7 DEF Progress
  <2>2. acked' = acked + m /\ UNCHANGED <<answer, client>>
    BY <2>1 DEF Acknowledged
  <2>3. /\ acked' \in acked .. Len(given)
        /\ Len(given) - acked - m = Len(given) - acked'
    BY <1>2, <2>1, <2>2
  <2>4. CASE ~registered
    BY <1>3, <2>1, <2>2, <2>4 DEF Acknowledged
  <2>5. CASE registered /\ (wr # rd \/ server # "CLOSE")
    <3>1. retries' = 0 /\ SendData(Len(given) - acked - m)
      BY <2>1, <2>5 DEF Acknowledged
    <3>2. server # "IDLE"
      BY <1>1, <1>2, <2>1 DEF PhaseInv
    <3>3. retries' \in 0 .. Tries - 1
      BY <3>1
    <3>4. Len(given) <= Len(given') /\ end' = end
      BY <2>2, <2>3, <2>5, <3>1, <3>2, <3>3, SendDataKeeps
    <3>5. end = "open" /\ answer # <<>>
      BY <1>1, <2>5, <3>2 DEF PhaseInv
    <3>. QED BY <1>1, <1>4, <2>2, <2>5, <3>4, <3>5, SendsMore
  <2>6. CASE registered /\ ~(wr # rd \/ server # "CLOSE")
    <3>1. end = "open" /\ end' = "complete" /\ given' = given /\ Total' = Total
      BY <1>1, <2>1, <2>2, <2>6 DEF Acknowledged, CloseConn, PhaseInv, Total
    <3>2. Len(given) = Total /\ Total > 0
      BY <2>6, ClosesWhole
    <3>. QED BY <1>4, <3>1, <3>2 DEF A!Complete
  <2>. QED BY <2>4, <2>5, <2>6
<1>8. CASE PollAborts \/ Reset
  <2>1. given' = given /\ answer' = answer /\ (end # "open" => end' = end)
        /\ (end = "open" => end' \in {"aborted", "reset"})
    BY <1>8 DEF PollAborts, Reset, ConnErr
  <2>2. CASE end # "open"
    BY <2>1, <2>2, <1>3
  <2>3. CASE end = "open"
    BY <2>1, <2>3, <1>4 DEF A!Cut, Total
  <2>. QED BY <2>2, <2>3
<1>9. CASE PollSends
  <2>1. /\ registered /\ wr # rd /\ retries + 1 # Tries /\ retries' = retries + 1
        /\ SendData(Len(given) - acked) /\ UNCHANGED <<answer, client, acked>>
    BY <1>9 DEF PollSends
  <2>2. server # "IDLE"
    BY <1>1, <2>1 DEF PhaseInv
  <2>3. acked' \in acked .. Len(given) /\ Len(given) - acked = Len(given) - acked'
    BY <1>2, <2>1
  <2>4. retries' \in 0 .. Tries - 1
    <3>1. retries < Tries
      BY <1>1, <2>1 DEF PhaseInv
    <3>. QED BY <3>1, <1>2, <2>1
  <2>5. Len(given) <= Len(given') /\ end' = end
    BY <2>1, <2>2, <2>3, <2>4, SendDataKeeps
  <2>6. end = "open" /\ answer # <<>>
    BY <1>1, <2>1, <2>2 DEF PhaseInv
  <2>. QED BY <1>1, <1>4, <2>1, <2>5, <2>6, SendsMore
<1>10. CASE ClientCloses
  <2>1. end = "open" /\ end' = "dropped" /\ given' = given /\ answer' = answer
    BY <1>1, <1>10 DEF ClientCloses, CloseConn, PhaseInv
  <2>. QED BY <2>1, <1>4 DEF A!Cut, Total
<1>11. CASE Closed \/ UNCHANGED vars
  BY <1>3, <1>11 DEF Closed, vars
<1>. QED BY <1>5, <1>6, <1>7, <1>8, <1>9, <1>10, <1>11 DEF Next, Poll

(* The answer goes out whole and in order: every step of the connection is *)
(* a step of HttpAnswer or none (httpd_handle_server, send_data,           *)
(* http_sent, close_conn).                                                 *)
THEOREM Implements == Spec => AnswersWhole
<1>1. Init => A!Init
  BY DEF Init, A!Init, Total
<1>. QED BY <1>1, StartInv, StepInv, StepAnswer, PTL DEF Spec, AnswersWhole, A!Spec
================================================================================
