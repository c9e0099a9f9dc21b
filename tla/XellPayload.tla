----------------------------- MODULE XellPayload -----------------------------
(***************************************************************************)
(* The console while XeCLI works with it: the payload's status screen and  *)
(* its automatic reboot (lv2/xecli_branding.c), the requests that move     *)
(* them (the handlers of lv2/httpd/httpd.c), and what the main loop        *)
(* (lv2/main.c) makes of them.  The texts, percentages and pass numbers on *)
(* the screen are left out, and so is the length of the countdown: a       *)
(* pending reboot is due at any time.                                      *)
(***************************************************************************)
EXTENDS Naturals

VARIABLES
  mode,     \* what the console runs: "xell", "off" (between two boots), "dashboard"
  session,  \* how often it has left XeLL
  ready,    \* the main loop has drawn the waiting screen (waiting_screen_ready)
  screen,   \* xecli_dump_state and xecli_state_name
  pending   \* xecli_auto_reboot_pending

payload == <<mode, session, ready, screen, pending>>

Screens == {"waiting", "active", "verifying", "verified", "complete", "failed", "rebooting"}
Reboots == {"verified", "rebooting"}  \* the screens that announce a reboot

(* What a client asks for: the stages of /XECLI_SYNC (two for "complete",  *)
(* with verified=1 and the reboot token or with verified=0), /XECLI_DONE   *)
(* and its aliases, and /REBOOT.  The progress requests change nothing     *)
(* that is modelled here.                                                  *)
Kinds == {"dump", "verify", "complete", "unverified", "failed", "done", "reboot"}

PayloadInit ==
  /\ mode = "xell" /\ session = 0
  /\ ready \in BOOLEAN
  /\ screen = "waiting" /\ pending = FALSE

JobFinishedIgnoresVerified(verified) ==
  /\ screen' = IF verified THEN "verified" ELSE "complete"
  /\ pending' = TRUE

JobFinishedUnscheduled(verified) ==
  /\ screen' = IF verified THEN "verified" ELSE "complete"
  /\ UNCHANGED pending

(* xecli_branding_on_job_finished_ex.                                      *)
JobFinished(verified) ==
  /\ screen' = IF verified THEN "verified" ELSE "complete"
  /\ pending' = verified

(* A request is handled (response_xecli_sync, _done and _reboot).  The     *)
(* failure screen leaves a pending reboot as it is.                        *)
Handle(kind) ==
  /\ mode = "xell"
  /\ UNCHANGED <<mode, session, ready>>
  /\ CASE kind = "dump"               -> screen' = "active" /\ pending' = FALSE
       [] kind = "verify"             -> screen' = "verifying" /\ pending' = FALSE
       [] kind = "unverified"         -> JobFinished(FALSE)
       [] kind \in {"complete", "done"} -> JobFinished(TRUE)
       [] kind = "failed"             -> screen' = "failed" /\ UNCHANGED pending
       [] kind = "reboot"             -> screen' = "rebooting" /\ pending' = TRUE

(* The main loop begins.  The web server has answered for 1.5 s by then,   *)
(* and what it was told is overwritten.                                    *)
MainLoop ==
  /\ mode = "xell" /\ ~ready
  /\ ready' = TRUE
  /\ screen' = "waiting" /\ pending' = FALSE
  /\ UNCHANGED <<mode, session>>

(* The reboot is due and the SMC obeys; until it does it is asked again.   *)
AutoReboot ==
  /\ mode = "xell" /\ ready /\ pending
  /\ mode' = "off" /\ session' = session + 1
  /\ UNCHANGED <<ready, screen, pending>>

(* The console comes back, in XeLL or in the dashboard.                    *)
Boot ==
  /\ mode = "off"
  /\ mode' \in {"xell", "dashboard"}
  /\ ready' = FALSE /\ screen' = "waiting" /\ pending' = FALSE
  /\ UNCHANGED session

(* XeCLI launches XeLL from the dashboard over XBDM.                       *)
Launch ==
  /\ mode = "dashboard"
  /\ mode' = "off"
  /\ UNCHANGED <<session, ready, screen, pending>>
================================================================================
