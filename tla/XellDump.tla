------------------------------- MODULE XellDump -------------------------------
(***************************************************************************)
(* "rgh xell nand dump" (NandDumpCommand.ExecuteAsync) at work with the    *)
(* payload of XellPayload, over requests that may get no answer: the       *)
(* client then does not know whether the payload handled the request, and  *)
(* the payload may still handle it later, in the same session, after       *)
(* requests the client sent afterwards.                                    *)
(*                                                                         *)
(* The command reads the NAND, reads it again until the two reads are      *)
(* equal, packs the result and tells the payload how it ended.  What is    *)
(* read is abstracted to whether a second read equals the first.           *)
(***************************************************************************)
EXTENDS XellPayload, FiniteSets

CONSTANTS
  MaxPasses,  \* MaxVerificationDownloads
  Paths,      \* how many paths a read, a reboot or a completion is tried at
  MaxLate     \* bound: requests that may still be on their way

ASSUME BoundsAssumption ==
  MaxPasses \in Nat \ {0} /\ Paths \in Nat \ {0} /\ MaxLate \in Nat

VARIABLES
  pc,           \* where ExecuteAsync is
  verify,       \* neither --single nor --no-verify
  same,         \* preferSameSessionVerification
  pass,         \* the verification pass, 0 for the reference dump
  try,          \* which of a list of paths is tried
  readFrom,     \* the session a read began in
  reference,    \* the session of the reference dump
  verification, \* NandVerificationMode of the read that matched
  matched,      \* a second read was equal to the first
  packaged,     \* copy, manifest and archive are verified
  late,         \* the requests that may still reach the payload
  result        \* what the command reports of the console's state

reads == <<readFrom, reference, verification, matched>>
client == <<pc, verify, same, pass, try, reads, packaged, late, result>>
vars == <<payload, client>>

Init ==
  /\ PayloadInit
  /\ pc = "status"
  /\ verify \in BOOLEAN /\ same = FALSE
  /\ pass = 0 /\ try = 1
  /\ readFrom = 0 /\ reference = 0 /\ verification = "Skipped"
  /\ matched = FALSE /\ packaged = FALSE
  /\ late = {}
  /\ result = "none"

-----------------------------------------------------------------------------
Request(kind) == [kind |-> kind, pass |-> pass, try |-> try, last |-> packaged]

Answered(kind) == Handle(kind) /\ UNCHANGED late

(* The request is lost, or is on its way and the client gives up on it.    *)
Unanswered(kind) ==
  /\ \/ UNCHANGED late
     \/ /\ mode = "xell" /\ Cardinality(late) < MaxLate
        /\ late' = late \cup {Request(kind)}
  /\ UNCHANGED payload

(* A probe may miss XeLL, and never finds it when it is not there.         *)
ProbeFails == UNCHANGED payload
ProbeFinds == mode = "xell" /\ UNCHANGED payload

Report(what) == pc' = "end" /\ result' = what

(* TryReadCustomStatusAsync: whether this is the custom payload.           *)
ReadStatus ==
  /\ pc = "status" /\ pc' = "started"
  /\ same' \in {FALSE, verify /\ mode = "xell"}
  /\ UNCHANGED <<payload, verify, pass, try, reads, packaged, late, result>>

DumpStarted ==
  /\ pc = "started" /\ pc' = "open"
  /\ Answered("dump") \/ Unanswered("dump")
  /\ UNCHANGED <<verify, same, pass, try, reads, packaged, result>>

(* DownloadFromCandidatePathsAsync: one path after the other.              *)
ReadBegins ==
  /\ pc = "open" /\ mode = "xell"
  /\ pc' = "read" /\ readFrom' = session
  /\ UNCHANGED <<payload, verify, same, pass, try, reference, verification,
                 matched, packaged, late, result>>

ReadFails ==
  /\ pc \in {"open", "read"}
  /\ IF try < Paths THEN pc' = "open" /\ try' = try + 1
                    ELSE pc' = "notify" /\ UNCHANGED try
  /\ UNCHANGED <<payload, verify, same, pass, reads, packaged, late, result>>

(* A read takes minutes: it does not end in another session than it began  *)
(* in, nor before the main loop or a reboot that are due in seconds.       *)
ReadEnds == pc = "read" /\ mode = "xell" /\ session = readFrom /\ ready /\ ~pending

(* The reference dump is complete.                                         *)
Referenced ==
  /\ ReadEnds /\ pass = 0
  /\ reference' = session
  /\ pc' = IF verify THEN "pass" ELSE "package"
  /\ UNCHANGED <<payload, verify, same, pass, try, readFrom, verification,
                 matched, packaged, late, result>>

(* A second dump is complete and is compared with it.                      *)
Compared ==
  /\ ReadEnds /\ pass > 0
  /\ \/ matched' = TRUE /\ pc' = "package"
     \/ UNCHANGED matched /\ pc' = "pass"
  /\ UNCHANGED <<payload, verify, same, pass, try, readFrom, reference,
                 verification, packaged, late, result>>

PassBeginsOnceMore ==
  /\ pc = "pass" /\ pass <= MaxPasses
  /\ pass' = pass + 1 /\ try' = 1
  /\ Answered("verify") \/ Unanswered("verify")
  /\ pc' = IF same THEN "open" ELSE "reboot"
  /\ verification' = IF same THEN "SameSessionFallback" ELSE verification
  /\ UNCHANGED <<verify, same, readFrom, reference, matched, packaged, result>>

PassBeginsUncounted ==
  /\ pc = "pass" /\ pass < MaxPasses
  /\ try' = 1
  /\ Answered("verify") \/ Unanswered("verify")
  /\ pc' = IF same THEN "open" ELSE "reboot"
  /\ verification' = IF same THEN "SameSessionFallback" ELSE verification
  /\ UNCHANGED <<pass, verify, same, readFrom, reference, matched, packaged,
                 result>>

(* RunVerificationLoopAsync, one round of the loop.                        *)
PassBegins ==
  /\ pc = "pass" /\ pass < MaxPasses
  /\ pass' = pass + 1 /\ try' = 1
  /\ Answered("verify") \/ Unanswered("verify")
  /\ pc' = IF same THEN "open" ELSE "reboot"
  /\ verification' = IF same THEN "SameSessionFallback" ELSE verification
  /\ UNCHANGED <<verify, same, readFrom, reference, matched, packaged, result>>

NeverMatchedPackages ==
  /\ pc = "pass" /\ pass = MaxPasses
  /\ pc' = "package"
  /\ UNCHANGED <<payload, verify, same, pass, try, reads, packaged, late, result>>

(* After the last round the dumps did not match.                           *)
NeverMatched ==
  /\ pc = "pass" /\ pass = MaxPasses
  /\ pc' = "notify"
  /\ UNCHANGED <<payload, verify, same, pass, try, reads, packaged, late, result>>

(* TryRequestRebootAsync: for the second session, or as the last way to    *)
(* end the job.  XeLL is taken for gone when a probe misses it.            *)
RequestReboot ==
  /\ pc = "reboot"
  /\ \/ Answered("reboot") /\ pc' = IF packaged THEN "leave" ELSE "gone"
     \/ Unanswered("reboot") /\ pc' = "probe"
  /\ UNCHANGED <<verify, same, pass, try, reads, packaged, result>>

FallBack == pc' = "open" /\ try' = 1 /\ verification' = "SameSessionFallback"

RebootProbed ==
  /\ pc = "probe"
  /\ \/ /\ ProbeFails
        /\ pc' = IF packaged THEN "leave" ELSE "gone"
        /\ UNCHANGED <<try, verification, result>>
     \/ /\ ProbeFinds
        /\ \/ /\ try < Paths
              /\ pc' = "reboot" /\ try' = try + 1
              /\ UNCHANGED <<verification, result>>
           \/ /\ try = Paths /\ packaged
              /\ Report("completion-unavailable")
              /\ UNCHANGED <<try, verification>>
           \/ /\ try = Paths /\ ~packaged
              /\ FallBack
              /\ UNCHANGED result
  /\ UNCHANGED <<verify, same, pass, readFrom, reference, matched, packaged, late>>

(* TryWaitForXellToDisappearAsync: a miss, or XeLL ignored the reboot.     *)
WaitedForExit ==
  /\ pc = "gone"
  /\ \/ ProbeFails /\ pc' = "recover" /\ UNCHANGED <<try, verification>>
     \/ ProbeFinds /\ FallBack
  /\ UNCHANGED <<verify, same, pass, readFrom, reference, matched, packaged,
                 late, result>>

(* RecoverVerificationSessionAsync, AwaitBootedXellAsync: a XeLL is found, *)
(* or launched and found, or nothing is found in time.                     *)
Recovered ==
  /\ pc \in {"recover", "await"}
  /\ mode = "xell"
  /\ pc' = "open" /\ try' = 1 /\ verification' = "RebootCycle"
  /\ UNCHANGED <<payload, verify, same, pass, readFrom, reference, matched,
                 packaged, late, result>>

Relaunched ==
  /\ pc = "recover" /\ pc' = "await"
  /\ Launch
  /\ UNCHANGED <<verify, same, pass, try, reads, packaged, late, result>>

NotRecovered ==
  /\ pc \in {"recover", "await"} /\ pc' = "notify"
  /\ UNCHANGED <<payload, verify, same, pass, try, reads, packaged, late, result>>

(* The copy, the manifest and the archive.                                 *)
Packaged ==
  /\ pc = "package"
  /\ \/ pc' = "complete" /\ packaged' = TRUE
     \/ pc' = "notify" /\ UNCHANGED packaged
  /\ UNCHANGED <<payload, verify, same, pass, try, reads, late, result>>

(* FinalizeJobAsync, TryRequestCompletionRebootAsync.                      *)
JobCompleted ==
  /\ pc = "complete" /\ try' = 1
  /\ IF verify
       THEN /\ UNCHANGED result
            /\ \/ Answered("complete") /\ pc' = "leave"
               \/ Unanswered("complete") /\ pc' = "done"
       ELSE \/ Answered("unverified") /\ Report("left-in-xell")
            \/ Unanswered("unverified") /\ Report("completion-unavailable")
  /\ UNCHANGED <<verify, same, pass, reads, packaged>>

DoneRequested ==
  /\ pc = "done"
  /\ \/ Answered("done") /\ pc' = "leave"
     \/ Unanswered("done") /\ pc' = "doneprobe"
  /\ UNCHANGED <<verify, same, pass, try, reads, packaged, result>>

DoneProbed ==
  /\ pc = "doneprobe"
  /\ \/ ProbeFails /\ pc' = "leave" /\ UNCHANGED try
     \/ /\ ProbeFinds
        /\ IF try < Paths THEN pc' = "done" /\ try' = try + 1
                          ELSE pc' = "reboot" /\ try' = 1
  /\ UNCHANGED <<verify, same, pass, reads, packaged, late, result>>

(* FinalizeJobAsync waits for XeLL to go.                                  *)
Left ==
  /\ pc = "leave"
  /\ \/ ProbeFails /\ Report("xell-exited")
     \/ ProbeFinds /\ Report("reboot-pending")
  /\ UNCHANGED <<verify, same, pass, try, reads, packaged, late>>

(* TryNotifyFailureAsync.                                                  *)
NotifyFailure ==
  /\ pc = "notify"
  /\ Answered("failed") \/ Unanswered("failed")
  /\ Report("failed")
  /\ UNCHANGED <<verify, same, pass, try, reads, packaged>>

Client ==
  \/ ReadStatus \/ DumpStarted \/ ReadBegins \/ ReadFails \/ Referenced \/ Compared
  \/ PassBegins \/ NeverMatched \/ RequestReboot \/ RebootProbed \/ WaitedForExit
  \/ Recovered \/ Relaunched \/ NotRecovered \/ Packaged \/ JobCompleted
  \/ DoneRequested \/ DoneProbed \/ Left \/ NotifyFailure

-----------------------------------------------------------------------------
(* A request the client gave up on is handled after all.                   *)
Late(r) ==
  /\ Handle(r.kind)
  /\ late' = late \ {r}
  /\ UNCHANGED <<pc, verify, same, pass, try, reads, packaged, result>>

(* The payload's own steps; a reboot ends the connections of its session.  *)
Leaves ==
  /\ AutoReboot
  /\ late' = {}
  /\ UNCHANGED <<pc, verify, same, pass, try, reads, packaged, result>>

Starts == MainLoop /\ UNCHANGED client
Returns == Boot /\ UNCHANGED client

Next ==
  \/ Client
  \/ \E r \in late : Late(r)
  \/ Leaves \/ Starts \/ Returns

Spec == Init /\ [][Next]_vars

(* The command never waits without a timeout; the main loop runs on, and   *)
(* the SMC obeys in the end.                                               *)
FairSpec ==
  Spec /\ WF_vars(Client) /\ WF_vars(Leaves) /\ WF_vars(Starts) /\ WF_vars(Returns)
-----------------------------------------------------------------------------
Places == {"status", "started", "open", "read", "pass", "reboot", "probe", "gone", "recover",
           "await", "package", "complete", "done", "doneprobe", "leave", "notify", "end"}

TypeOK ==
  /\ mode \in {"xell", "off", "dashboard"} /\ session \in Nat
  /\ screen \in Screens /\ {ready, pending} \subseteq BOOLEAN
  /\ pc \in Places
  /\ {verify, same, matched, packaged} \subseteq BOOLEAN
  /\ pass \in 0 .. MaxPasses /\ try \in 1 .. Paths
  /\ readFrom \in Nat /\ reference \in Nat
  /\ verification \in {"Skipped", "RebootCycle", "SameSessionFallback"}
  /\ late \subseteq
       [kind : Kinds, pass : 0 .. MaxPasses, try : 1 .. Paths, last : BOOLEAN]
  /\ result \in {"none", "left-in-xell", "xell-exited", "reboot-pending",
                 "completion-unavailable", "failed"}

(* Auto reboot only happens after XeCLI has confirmed the dump and the     *)
(* archive: without verification, or with both reads in one session, the   *)
(* console neither leaves XeLL nor counts down to it before that, whatever *)
(* requests are lost or late (on_job_finished_ex, RunVerificationLoop).    *)
RebootGated ==
  (pending \/ session > 0) => verify /\ (same => matched /\ packaged)

(* The screen never shows a result the command did not reach: a verified   *)
(* dump was read twice with one content, a failed job did fail and is not  *)
(* about to be wiped by a reboot (unless a reboot was asked for to verify).*)
ScreenTrue ==
  /\ screen = "verified" => verify /\ matched /\ packaged
  /\ screen = "complete" => ~verify /\ packaged
  /\ screen = "failed"   => result = "failed" /\ (pending => verify /\ ~same)

(* The command ends, whatever the console does and the network loses.      *)
Ends == <>(pc = "end")

(* A screen that announces a reboot is followed by the reboot, or another  *)
(* request takes its place: it does not stay (should_issue_auto_reboot).   *)
Departs ==
  (mode = "xell" /\ screen \in Reboots) ~> (mode = "off" \/ screen \notin Reboots)

(* A dump reported as verified by a reboot cycle was read again in a later *)
(* session than the reference dump.                                        *)
CycleIsReal == matched /\ verification = "RebootCycle" => readFrom > reference
================================================================================
