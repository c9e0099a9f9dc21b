---------------------------- MODULE XellDumpProofs ----------------------------
(***************************************************************************)
(* Proofs about XellDump, for any number of passes and paths and any       *)
(* number of late requests.  The screen and the pending reboot are moved   *)
(* by requests that may arrive long after the client has gone on, so the   *)
(* invariant says of each request under way what has been reached when it  *)
(* is sent (Permits), and that nothing the client does afterwards takes it *)
(* back: PlaceInv ties where the command is to what it has reached.        *)
(***************************************************************************)
EXTENDS XellDump, TLAPS

(* What must have been reached for a request to be sent.                   *)
Permits(kind) ==
  /\ kind \in {"complete", "done"} => verify /\ matched /\ packaged
  /\ kind = "unverified" => ~verify /\ packaged
  /\ kind = "failed"     => result = "failed"
  /\ kind = "reboot"     => verify /\ (same => matched /\ packaged)

LateInv == \A r \in late : Permits(r.kind)

PlaceInv ==
  /\ pc = "status" => ~pending /\ session = 0 /\ late = {} /\ screen = "waiting"
  /\ same => verify
  /\ pass > 0 => verify
  /\ pc = "pass" => verify
  /\ pc \in {"gone", "recover", "await"} => verify /\ ~same
  /\ pc \in {"reboot", "probe"} => verify /\ (same => packaged)
  /\ pc \in {"package", "complete", "done", "doneprobe", "leave"} => (verify => matched)
  /\ pc \in {"complete", "done", "doneprobe", "leave"} => packaged
  /\ pc \in {"done", "doneprobe", "leave"} => verify
  /\ packaged => (verify => matched)
  /\ packaged => pc \in {"complete", "done", "doneprobe", "reboot", "probe", "leave", "end"}
  /\ pc = "end" <=> result # "none"
  /\ packaged => result # "failed"

Inv == TypeOK /\ RebootGated /\ ScreenTrue /\ LateInv /\ PlaceInv

-----------------------------------------------------------------------------
LEMMA StartInv == Init => Inv
<1>. SUFFICES ASSUME Init PROVE Inv
  OBVIOUS
<1>1. TypeOK
  <2>1. {ready, pending} \subseteq BOOLEAN /\ {verify, same, matched, packaged} \subseteq BOOLEAN
    BY DEF Init, PayloadInit
  <2>2. pass \in 0 .. MaxPasses /\ try \in 1 .. Paths
    BY BoundsAssumption DEF Init
  <2>3. mode \in {"xell", "off", "dashboard"} /\ session \in Nat /\ screen \in Screens
    BY DEF Init, PayloadInit, Screens
  <2>. QED BY <2>1, <2>2, <2>3 DEF Init, TypeOK, Places
<1>2. RebootGated /\ ScreenTrue
  BY DEF Init, PayloadInit, RebootGated, ScreenTrue
<1>3. LateInv /\ PlaceInv
  BY DEF Init, PayloadInit, LateInv, PlaceInv
<1>. QED BY <1>1, <1>2, <1>3 DEF Inv

(* A handled request keeps the screen true and the reboot gated, if it was *)
(* right to send it.                                                       *)
LEMMA HandleKeeps ==
  ASSUME TypeOK, RebootGated, ScreenTrue, UNCHANGED <<verify, same, matched, packaged>>,
         result = "failed" => result' = "failed", result' = "failed" => ~packaged,
         NEW kind \in Kinds, Permits(kind)', Handle(kind)
  PROVE  /\ RebootGated' /\ ScreenTrue'
         /\ mode' \in {"xell", "off", "dashboard"} /\ session' \in Nat
         /\ screen' \in Screens /\ {ready', pending'} \subseteq BOOLEAN
<1>1. mode' = mode /\ session' = session /\ ready' = ready
  BY DEF Handle
<1>2. CASE kind \in {"dump", "verify"}
  <2>1. screen' \in {"active", "verifying"} /\ pending' = FALSE
    BY <1>2 DEF Handle
  <2>. QED BY <1>1, <2>1 DEF TypeOK, RebootGated, ScreenTrue, Screens
<1>3. CASE kind = "unverified"
  <2>1. screen' = "complete" /\ pending' = FALSE
    BY <1>3 DEF Handle, JobFinished
  <2>. QED BY <1>1, <1>3, <2>1 DEF TypeOK, RebootGated, ScreenTrue, Screens, Permits
<1>4. CASE kind \in {"complete", "done"}
  <2>1. screen' = "verified" /\ pending' = TRUE
    BY <1>4 DEF Handle, JobFinished
  <2>. QED BY <1>1, <1>4, <2>1 DEF TypeOK, RebootGated, ScreenTrue, Screens, Permits
<1>5. CASE kind = "failed"
  <2>1. screen' = "failed" /\ pending' = pending
    BY <1>5 DEF Handle
  <2>. QED BY <1>1, <1>5, <2>1 DEF TypeOK, RebootGated, ScreenTrue, Screens, Permits
<1>6. CASE kind = "reboot"
  <2>1. screen' = "rebooting" /\ pending' = TRUE
    BY <1>6 DEF Handle
  <2>. QED BY <1>1, <1>6, <2>1 DEF TypeOK, RebootGated, ScreenTrue, Screens, Permits
<1>. QED BY <1>2, <1>3, <1>4, <1>5, <1>6 DEF Kinds

(* So does a request the client sends, answered or not; and what is under  *)
(* way was right to send.                                                  *)
LEMMA SendKeeps ==
  ASSUME Inv, UNCHANGED <<verify, same, matched, packaged>>,
         result = "failed" => result' = "failed", result' = "failed" => ~packaged,
         NEW kind \in Kinds, Permits(kind)', Answered(kind) \/ Unanswered(kind)
  PROVE  /\ RebootGated' /\ ScreenTrue' /\ LateInv'
         /\ mode' \in {"xell", "off", "dashboard"} /\ session' \in Nat
         /\ screen' \in Screens /\ {ready', pending'} \subseteq BOOLEAN
         /\ late' \subseteq
              [kind : Kinds, pass : 0 .. MaxPasses, try : 1 .. Paths, last : BOOLEAN]
<1>1. \A r \in late : Permits(r.kind)'
  BY DEF Inv, LateInv, Permits
<1>2. CASE Answered(kind)
  BY <1>1, <1>2, HandleKeeps DEF Answered, Inv, TypeOK, LateInv
<1>3. CASE Unanswered(kind)
  <2>1. UNCHANGED payload /\ late' \subseteq late \cup {Request(kind)}
    BY <1>3 DEF Unanswered
  <2>2. Request(kind) \in
          [kind : Kinds, pass : 0 .. MaxPasses, try : 1 .. Paths, last : BOOLEAN]
    BY DEF Request, Inv, TypeOK
  <2>3. Request(kind).kind = kind
    BY DEF Request
  <2>4. LateInv'
    <3>1. SUFFICES ASSUME NEW r \in late' PROVE Permits(r.kind)'
      BY DEF LateInv
    <3>2. CASE r \in late
      BY <1>1, <3>2
    <3>3. CASE r = Request(kind)
      BY <2>3, <3>3
    <3>. QED BY <2>1, <3>2, <3>3
  <2>. QED BY <2>1, <2>2, <2>4 DEF payload, Inv, TypeOK, RebootGated, ScreenTrue
<1>. QED BY <1>2, <1>3

-----------------------------------------------------------------------------
(* The client's steps that send nothing leave the console as it is.        *)
LEMMA QuietKeeps ==
  ASSUME Inv, UNCHANGED <<payload, late>>,
         ReadStatus \/ ReadBegins \/ ReadFails \/ Referenced \/ Compared \/ NeverMatched
           \/ RebootProbed \/ WaitedForExit \/ Recovered \/ NotRecovered \/ Packaged
           \/ DoneProbed \/ Left
  PROVE  Inv'
<1>. USE DEF reads, payload
<1>0. 1 \in 1 .. Paths
  BY BoundsAssumption
<1>1. CASE ReadStatus
  <2>1. TypeOK'
    BY <1>0, <1>1, BoundsAssumption DEF ReadStatus, Inv, TypeOK, Places
  <2>2. RebootGated' /\ ScreenTrue' /\ LateInv'
    BY <1>1 DEF ReadStatus, Inv, RebootGated, ScreenTrue, LateInv, Permits, PlaceInv
  <2>3. PlaceInv'
    BY <1>1 DEF ReadStatus, Inv, PlaceInv, TypeOK
  <2>. QED BY <2>1, <2>2, <2>3 DEF Inv
<1>2. CASE ReadBegins
  <2>1. TypeOK'
    BY <1>0, <1>2, BoundsAssumption DEF ReadBegins, Inv, TypeOK, Places
  <2>2. RebootGated' /\ ScreenTrue' /\ LateInv'
    BY <1>2 DEF ReadBegins, Inv, RebootGated, ScreenTrue, LateInv, Permits, PlaceInv
  <2>3. PlaceInv'
    BY <1>2 DEF ReadBegins, Inv, PlaceInv, TypeOK
  <2>. QED BY <2>1, <2>2, <2>3 DEF Inv
<1>3. CASE ReadFails
  <2>1. TypeOK'
    BY <1>0, <1>3, BoundsAssumption DEF ReadFails, Inv, TypeOK, Places
  <2>2. RebootGated' /\ ScreenTrue' /\ LateInv'
    BY <1>3 DEF ReadFails, Inv, RebootGated, ScreenTrue, LateInv, Permits, PlaceInv
  <2>3. PlaceInv'
    BY <1>3 DEF ReadFails, Inv, PlaceInv, TypeOK
  <2>. QED BY <2>1, <2>2, <2>3 DEF Inv
<1>4. CASE Referenced
  <2>1. TypeOK'
    BY <1>0, <1>4, BoundsAssumption DEF Referenced, ReadEnds, Inv, TypeOK, Places
  <2>2. RebootGated' /\ ScreenTrue' /\ LateInv'
    BY <1>4 DEF Referenced, ReadEnds, Inv, RebootGated, ScreenTrue, LateInv, Permits, PlaceInv
  <2>3. PlaceInv'
    BY <1>4 DEF Referenced, ReadEnds, Inv, PlaceInv, TypeOK
  <2>. QED BY <2>1, <2>2, <2>3 DEF Inv
<1>5. CASE Compared
  <2>1. TypeOK'
    BY <1>0, <1>5, BoundsAssumption DEF Compared, ReadEnds, Inv, TypeOK, Places
  <2>2. RebootGated' /\ ScreenTrue' /\ LateInv'
    BY <1>5 DEF Compared, ReadEnds, Inv, RebootGated, ScreenTrue, LateInv, Permits, PlaceInv
  <2>3. PlaceInv'
    BY <1>5 DEF Compared, ReadEnds, Inv, PlaceInv, TypeOK
  <2>. QED BY <2>1, <2>2, <2>3 DEF Inv
<1>6. CASE NeverMatched
  <2>1. TypeOK'
    BY <1>0, <1>6, BoundsAssumption DEF NeverMatched, Inv, TypeOK, Places
  <2>2. RebootGated' /\ ScreenTrue' /\ LateInv'
    BY <1>6 DEF NeverMatched, Inv, RebootGated, ScreenTrue, LateInv, Permits, PlaceInv
  <2>3. PlaceInv'
    BY <1>6 DEF NeverMatched, Inv, PlaceInv, TypeOK
  <2>. QED BY <2>1, <2>2, <2>3 DEF Inv
<1>7. CASE RebootProbed
  <2>1. TypeOK'
    BY <1>0, <1>7, BoundsAssumption DEF RebootProbed, ProbeFails, ProbeFinds, FallBack, Report, Inv, TypeOK, Places
  <2>2. RebootGated' /\ ScreenTrue' /\ LateInv'
    BY <1>7 DEF RebootProbed, ProbeFails, ProbeFinds, FallBack, Report, Inv, RebootGated, ScreenTrue, LateInv, Permits, PlaceInv
  <2>3. PlaceInv'
    BY <1>7 DEF RebootProbed, ProbeFails, ProbeFinds, FallBack, Report, Inv, PlaceInv, TypeOK
  <2>. QED BY <2>1, <2>2, <2>3 DEF Inv
<1>8. CASE WaitedForExit
  <2>1. TypeOK'
    BY <1>0, <1>8, BoundsAssumption DEF WaitedForExit, ProbeFails, ProbeFinds, FallBack, Inv, TypeOK, Places
  <2>2. RebootGated' /\ ScreenTrue' /\ LateInv'
    BY <1>8 DEF WaitedForExit, ProbeFails, ProbeFinds, FallBack, Inv, RebootGated, ScreenTrue, LateInv, Permits, PlaceInv
  <2>3. PlaceInv'
    BY <1>8 DEF WaitedForExit, ProbeFails, ProbeFinds, FallBack, Inv, PlaceInv, TypeOK
  <2>. QED BY <2>1, <2>2, <2>3 DEF Inv
<1>9. CASE Recovered
  <2>1. TypeOK'
    BY <1>0, <1>9, BoundsAssumption DEF Recovered, Inv, TypeOK, Places
  <2>2. RebootGated' /\ ScreenTrue' /\ LateInv'
    BY <1>9 DEF Recovered, Inv, RebootGated, ScreenTrue, LateInv, Permits, PlaceInv
  <2>3. PlaceInv'
    BY <1>9 DEF Recovered, Inv, PlaceInv, TypeOK
  <2>. QED BY <2>1, <2>2, <2>3 DEF Inv
<1>10. CASE NotRecovered
  <2>1. TypeOK'
    BY <1>0, <1>10, BoundsAssumption DEF NotRecovered, Inv, TypeOK, Places
  <2>2. RebootGated' /\ ScreenTrue' /\ LateInv'
    BY <1>10 DEF NotRecovered, Inv, RebootGated, ScreenTrue, LateInv, Permits, PlaceInv
  <2>3. PlaceInv'
    BY <1>10 DEF NotRecovered, Inv, PlaceInv, TypeOK
  <2>. QED BY <2>1, <2>2, <2>3 DEF Inv
<1>11. CASE Packaged
  <2>1. TypeOK'
    BY <1>0, <1>11, BoundsAssumption DEF Packaged, Inv, TypeOK, Places
  <2>2. RebootGated' /\ ScreenTrue' /\ LateInv'
    BY <1>11 DEF Packaged, Inv, RebootGated, ScreenTrue, LateInv, Permits, PlaceInv
  <2>3. PlaceInv'
    BY <1>11 DEF Packaged, Inv, PlaceInv, TypeOK
  <2>. QED BY <2>1, <2>2, <2>3 DEF Inv
<1>12. CASE DoneProbed
  <2>1. TypeOK'
    BY <1>0, <1>12, BoundsAssumption DEF DoneProbed, ProbeFails, ProbeFinds, Inv, TypeOK, Places
  <2>2. RebootGated' /\ ScreenTrue' /\ LateInv'
    BY <1>12 DEF DoneProbed, ProbeFails, ProbeFinds, Inv, RebootGated, ScreenTrue, LateInv, Permits, PlaceInv
  <2>3. PlaceInv'
    BY <1>12 DEF DoneProbed, ProbeFails, ProbeFinds, Inv, PlaceInv, TypeOK
  <2>. QED BY <2>1, <2>2, <2>3 DEF Inv
<1>13. CASE Left
  <2>1. TypeOK'
    BY <1>0, <1>13, BoundsAssumption DEF Left, ProbeFails, ProbeFinds, Report, Inv, TypeOK, Places
  <2>2. RebootGated' /\ ScreenTrue' /\ LateInv'
    BY <1>13 DEF Left, ProbeFails, ProbeFinds, Report, Inv, RebootGated, ScreenTrue, LateInv, Permits, PlaceInv
  <2>3. PlaceInv'
    BY <1>13 DEF Left, ProbeFails, ProbeFinds, Report, Inv, PlaceInv, TypeOK
  <2>. QED BY <2>1, <2>2, <2>3 DEF Inv
<1>. QED BY <1>1, <1>2, <1>3, <1>4, <1>5, <1>6, <1>7, <1>8, <1>9, <1>10, <1>11, <1>12, <1>13

(* The steps that send a request.                                          *)
LEMMA SendingKeeps ==
  ASSUME Inv,
         DumpStarted \/ PassBegins \/ RequestReboot \/ JobCompleted \/ DoneRequested
           \/ NotifyFailure
  PROVE  Inv'
<1>1. CASE DumpStarted
  <2>1. RebootGated' /\ ScreenTrue' /\ LateInv' /\ TypeOK'
    <3>1. Permits("dump")' /\ "dump" \in Kinds
      BY DEF Permits, Kinds
    <3>. QED BY <1>1, <3>1, SendKeeps DEF DumpStarted, reads, Inv, TypeOK, Places, PlaceInv
  <2>2. PlaceInv'
    BY <1>1 DEF DumpStarted, Inv, PlaceInv, reads
  <2>. QED BY <2>1, <2>2 DEF Inv
<1>2. CASE PassBegins
  <2>1. RebootGated' /\ ScreenTrue' /\ LateInv' /\ TypeOK'
    <3>1. Permits("verify")' /\ "verify" \in Kinds
      BY DEF Permits, Kinds
    <3>2. pass' \in 0 .. MaxPasses /\ try' \in 1 .. Paths
      BY <1>2, BoundsAssumption DEF PassBegins, Inv, TypeOK
    <3>. QED BY <1>2, <3>1, <3>2, SendKeeps DEF PassBegins, Inv, TypeOK, Places, PlaceInv
  <2>2. PlaceInv'
    BY <1>2 DEF PassBegins, Inv, PlaceInv, TypeOK
  <2>. QED BY <2>1, <2>2 DEF Inv
<1>3. CASE RequestReboot
  <2>1. RebootGated' /\ ScreenTrue' /\ LateInv' /\ TypeOK'
    <3>1. Permits("reboot")' /\ "reboot" \in Kinds
      BY <1>3 DEF Permits, Kinds, RequestReboot, reads, Inv, PlaceInv
    <3>. QED BY <1>3, <3>1, SendKeeps DEF RequestReboot, reads, Inv, TypeOK, Places, PlaceInv
  <2>2. PlaceInv'
    BY <1>3 DEF RequestReboot, Inv, PlaceInv, reads
  <2>. QED BY <2>1, <2>2 DEF Inv
<1>4. CASE JobCompleted
  <2>1. RebootGated' /\ ScreenTrue' /\ LateInv' /\ TypeOK'
    <3>1. UNCHANGED <<verify, same, pass, reads, packaged>> /\ try' = 1 /\ packaged
      BY <1>4 DEF JobCompleted, Inv, PlaceInv
    <3>2. pc' \in Places
      BY <1>4 DEF JobCompleted, Report, Places
    <3>3. CASE verify
      <4>1. Permits("complete")' /\ "complete" \in Kinds
        BY <1>4, <3>1, <3>3 DEF Permits, Kinds, JobCompleted, reads, Inv, PlaceInv
      <4>2. UNCHANGED result
        BY <1>4, <3>3 DEF JobCompleted
      <4>3. Answered("complete") \/ Unanswered("complete")
        BY <1>4, <3>3 DEF JobCompleted
      <4>. QED BY <3>1, <3>2, <4>1, <4>2, <4>3, SendKeeps, BoundsAssumption
               DEF reads, Inv, TypeOK, PlaceInv
    <3>4. CASE ~verify
      <4>1. Permits("unverified")' /\ "unverified" \in Kinds
        BY <1>4, <3>1, <3>4 DEF Permits, Kinds, JobCompleted, reads, Inv, PlaceInv
      <4>2. result' \in {"left-in-xell", "completion-unavailable"} /\ result # "failed"
        BY <1>4, <3>1, <3>4 DEF JobCompleted, Report, Inv, PlaceInv
      <4>3. Answered("unverified") \/ Unanswered("unverified")
        BY <1>4, <3>4 DEF JobCompleted
      <4>. QED BY <3>1, <3>2, <4>1, <4>2, <4>3, SendKeeps, BoundsAssumption
               DEF reads, Inv, TypeOK, PlaceInv
    <3>. QED BY <3>3, <3>4
  <2>2. PlaceInv'
    BY <1>4 DEF JobCompleted, Report, Inv, PlaceInv, reads
  <2>. QED BY <2>1, <2>2 DEF Inv
<1>5. CASE DoneRequested
  <2>1. RebootGated' /\ ScreenTrue' /\ LateInv' /\ TypeOK'
    <3>1. Permits("done")' /\ "done" \in Kinds
      BY <1>5 DEF Permits, Kinds, DoneRequested, reads, Inv, PlaceInv
    <3>. QED BY <1>5, <3>1, SendKeeps DEF DoneRequested, reads, Inv, TypeOK, Places, PlaceInv
  <2>2. PlaceInv'
    BY <1>5 DEF DoneRequested, Inv, PlaceInv, reads
  <2>. QED BY <2>1, <2>2 DEF Inv
<1>6. CASE NotifyFailure
  <2>1. RebootGated' /\ ScreenTrue' /\ LateInv' /\ TypeOK'
    <3>1. Permits("failed")' /\ "failed" \in Kinds
      BY <1>6 DEF Permits, Kinds, NotifyFailure, Report
    <3>2. ~packaged
      BY <1>6 DEF NotifyFailure, Inv, PlaceInv
    <3>. QED BY <1>6, <3>1, <3>2, SendKeeps
             DEF NotifyFailure, Report, reads, Inv, TypeOK, Places, PlaceInv
  <2>2. PlaceInv'
    BY <1>6 DEF NotifyFailure, Report, Inv, PlaceInv, reads
  <2>. QED BY <2>1, <2>2 DEF Inv
<1>. QED BY <1>1, <1>2, <1>3, <1>4, <1>5, <1>6

(* The steps of the console, and a late request.                           *)
LEMMA ConsoleKeeps ==
  ASSUME Inv, Relaunched \/ (\E r \in late : Late(r)) \/ Leaves \/ Starts \/ Returns
  PROVE  Inv'
<1>1. CASE Relaunched
  BY <1>1 DEF Relaunched, Launch, reads, Inv, TypeOK, Places, RebootGated, ScreenTrue, LateInv,
              Permits, PlaceInv
<1>2. CASE \E r \in late : Late(r)
  <2>1. PICK r \in late : Late(r)
    BY <1>2
  <2>2. r.kind \in Kinds /\ Permits(r.kind)
    BY <2>1 DEF Inv, TypeOK, LateInv
  <2>3. UNCHANGED <<pc, verify, same, pass, try, readFrom, reference, verification, matched, packaged,
                    result>> /\ Handle(r.kind) /\ late' \subseteq late
    BY <2>1 DEF Late, reads
  <2>4. Permits(r.kind)' /\ (result' = "failed" => ~packaged)
    BY <2>2, <2>3 DEF Permits, Inv, PlaceInv
  <2>5. /\ RebootGated' /\ ScreenTrue'
        /\ mode' \in {"xell", "off", "dashboard"} /\ session' \in Nat
        /\ screen' \in Screens /\ {ready', pending'} \subseteq BOOLEAN
    BY <2>2, <2>3, <2>4, HandleKeeps DEF Inv
  <2>6. TypeOK'
    BY <2>3, <2>5 DEF Inv, TypeOK
  <2>7. LateInv'
    BY <2>3 DEF Inv, LateInv, Permits
  <2>8. PlaceInv'
    BY <2>1, <2>3 DEF Inv, PlaceInv
  <2>. QED BY <2>5, <2>6, <2>7, <2>8 DEF Inv
<1>3. CASE Leaves
  BY <1>3 DEF Leaves, AutoReboot, reads, Inv, TypeOK, RebootGated, ScreenTrue, LateInv, PlaceInv
<1>4. CASE Starts
  <2>. USE DEF Starts, MainLoop, client, reads
  <2>1. TypeOK'
    BY <1>4 DEF Inv, TypeOK, Screens
  <2>2. RebootGated' /\ ScreenTrue'
    BY <1>4 DEF Inv, RebootGated, ScreenTrue
  <2>3. LateInv'
    BY <1>4 DEF Inv, LateInv, Permits
  <2>4. PlaceInv'
    BY <1>4 DEF Inv, PlaceInv
  <2>. QED BY <2>1, <2>2, <2>3, <2>4 DEF Inv
<1>5. CASE Returns
  <2>. USE DEF Returns, Boot, client, reads
  <2>1. TypeOK'
    BY <1>5 DEF Inv, TypeOK, Screens
  <2>2. RebootGated' /\ ScreenTrue'
    BY <1>5 DEF Inv, RebootGated, ScreenTrue
  <2>3. LateInv'
    BY <1>5 DEF Inv, LateInv, Permits
  <2>4. PlaceInv'
    BY <1>5 DEF Inv, PlaceInv
  <2>. QED BY <2>1, <2>2, <2>3, <2>4 DEF Inv
<1>. QED BY <1>1, <1>2, <1>3, <1>4, <1>5

LEMMA StepInv == Inv /\ [Next]_vars => Inv'
<1>1. SUFFICES ASSUME Inv, [Next]_vars PROVE Inv'
  OBVIOUS
<1>2. CASE UNCHANGED vars
  BY <1>1, <1>2 DEF vars, client, payload, reads, Inv, TypeOK, RebootGated, ScreenTrue, LateInv,
                    Permits, PlaceInv
<1>3. CASE /\ UNCHANGED <<payload, late>>
           /\ ReadStatus \/ ReadBegins \/ ReadFails \/ Referenced \/ Compared \/ NeverMatched
                \/ RebootProbed \/ WaitedForExit \/ Recovered \/ NotRecovered \/ Packaged
                \/ DoneProbed \/ Left
  BY <1>1, <1>3, QuietKeeps
<1>4. CASE DumpStarted \/ PassBegins \/ RequestReboot \/ JobCompleted \/ DoneRequested
             \/ NotifyFailure
  BY <1>1, <1>4, SendingKeeps
<1>5. CASE Relaunched \/ (\E r \in late : Late(r)) \/ Leaves \/ Starts \/ Returns
  BY <1>1, <1>5, ConsoleKeeps
<1>. QED
  BY <1>1, <1>2, <1>3, <1>4, <1>5
  DEF Next, Client, ProbeFails, ProbeFinds, ReadStatus, ReadBegins, ReadFails, ReadEnds,
      Referenced, Compared, NeverMatched, RebootProbed, WaitedForExit, Recovered, NotRecovered,
      Packaged, DoneProbed, Left

-----------------------------------------------------------------------------
(* Every step of the command and of the payload keeps the state well       *)
(* formed; the pass never exceeds MaxVerificationDownloads.                *)
THEOREM Typing == Spec => []TypeOK
<1>1. Inv => TypeOK
  BY DEF Inv
<1>. QED BY <1>1, StartInv, StepInv, PTL DEF Spec

(* Auto reboot only happens after XeCLI has confirmed the dump             *)
(* (on_job_finished_ex, RunVerificationLoopAsync, FinalizeJobAsync).       *)
THEOREM Gated == Spec => []RebootGated
<1>1. Inv => RebootGated
  BY DEF Inv
<1>. QED BY <1>1, StartInv, StepInv, PTL DEF Spec

(* The payload's screen shows no result the command did not reach          *)
(* (response_xecli_sync_process_request, TryNotifyFailureAsync).           *)
THEOREM TrueScreen == Spec => []ScreenTrue
<1>1. Inv => ScreenTrue
  BY DEF Inv
<1>. QED BY <1>1, StartInv, StepInv, PTL DEF Spec
================================================================================
