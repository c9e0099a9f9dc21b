------------------------------- MODULE FtpUpload -------------------------------
(***************************************************************************)
(* The staged upload of one file to the console                            *)
(* (Commands/FtpCommands.cs, UploadFileVerifiedAsync without resume):      *)
(* each attempt sends the file under a name of its own, checks its size,   *)
(* moves what is at the destination to a backup name, moves the staged     *)
(* file in, and undoes that if it cannot tell that it worked.  An attempt  *)
(* that ends in an I/O error is followed by another one.  The terminal     *)
(* makes one attempt only (UploadFileAtomicAsync).                         *)
(*                                                                         *)
(* A call to the server may fail before it takes effect, or after it with  *)
(* the reply lost.  "blind" says whether a look for a file may miss one    *)
(* that is there (RemoteFileExistsAsync answers false when all its ways of *)
(* asking fail); asking for a size may always fail.  The process can stop  *)
(* in any state: properties of all states say what it leaves behind.       *)
(***************************************************************************)
EXTENDS Naturals

CONSTANT Attempts  \* ReconnectAttempts

ASSUME AttemptsAssumption == Attempts \in Nat \ {0}

VARIABLES
  file,       \* what is on the server at each place
  attempt,    \* attempt
  pc,         \* the call the attempt is at
  move,       \* in MoveRemoteFileObservedAsync: to be asked, asked, asked again
  existed,    \* destinationExists
  backedUp,   \* originalIsBackedUp
  found,      \* what was at the destination when the attempt looked
  error,      \* lastError; "none" when there is none
  cancelled,  \* cancellationToken
  approved,   \* overwriteApproved
  limit,      \* attempts made: one, or ReconnectAttempts
  blind,      \* a look for a file may miss it
  others      \* others create the destination while it is absent

given == <<approved, limit, blind, others>>
vars == <<file, attempt, pc, move, existed, backedUp, found, error, cancelled, given>>

Contents == {"none", "part", "new", "old", "other"}
Role == {"upload", "backup"}
Dest == <<"dest", 0>>
Place == {Dest} \cup (Role \X (1 .. Attempts))

Staged == <<"upload", attempt>>
Backup == <<"backup", attempt>>

(* The three moves of CommitStagedRemoteFileAsync.                         *)
Move == [backup  |-> [from |-> Dest, to |-> Backup],
         commit  |-> [from |-> Staged, to |-> Dest],
         restore |-> [from |-> Backup, to |-> Dest]]
Moves == {"backup", "commit", "restore"}

Steps == {"connect", "upload", "size", "exists", "committed", "delete", "drop",
          "cleanup", "delay", "done"} \cup Moves

(* IsTransient: the I/O errors.  "broken" has no more to say, the next     *)
(* four are the messages of CommitStagedRemoteFileAsync.                   *)
Transient == {"broken", "unapproved", "restored", "noneLeft", "mayRemain"}
Errors == Transient \cup {"failed", "cancelled"}

Init ==
  /\ \E d \in {"none", "old"} : file = [p \in Place |-> IF p = Dest THEN d ELSE "none"]
  /\ attempt = 1
  /\ pc = "connect"
  /\ move = "ask"
  /\ existed = FALSE
  /\ backedUp = FALSE
  /\ found = "none"
  /\ error = "none"
  /\ cancelled = FALSE
  /\ approved \in BOOLEAN
  /\ limit \in {1, Attempts}
  /\ blind \in BOOLEAN
  /\ others \in BOOLEAN

-----------------------------------------------------------------------------
(* RemoteFileExistsAsync: the answers it can give.                         *)
Look(p) == IF file[p] = "none" THEN {FALSE} ELSE IF blind THEN BOOLEAN ELSE {TRUE}

(* TryDeleteRemoteFileAsync says nothing of it when it fails.              *)
TryDelete(p) == file' \in {file, [file EXCEPT ![p] = "none"]}

(* RNFR and RNTO; a name in use is refused.                                *)
Renamed(m) == [file EXCEPT ![m.from] = "none", ![m.to] = file[m.from]]

(* MoveFile of the FTP library first deletes what is at the new name.      *)
AfterMoveFile(m) ==
  IF file[m.from] = "none" THEN {file}
  ELSE {file, [file EXCEPT ![m.to] = "none"], Renamed(m)}

(* Mutant: a move is taken for done once there is something at its end.    *)
LooksDoneAtItsEnd(m) == TRUE \in Look(m.to)

(* FileMoveVerifiedAsync: looking at both names can show the move done,    *)
(* and can show it not done.                                               *)
LooksDone(m) == FALSE \in Look(m.from) /\ TRUE \in Look(m.to)
LooksUndone(m) == TRUE \in Look(m.from) \/ FALSE \in Look(m.to)

(* The exception passes the catch of UploadFileAtomicAsync.                *)
Fail(e) == error' = e /\ pc' = "cleanup"

(* Mutant: one attempt too many.                                           *)
RaiseOnceMore(e) ==
  /\ error' = e
  /\ pc' = IF attempt <= limit /\ e \in Transient THEN "delay" ELSE "done"

(* The exception reaches the catches of UploadFileVerifiedAsync.           *)
Raise(e) ==
  /\ error' = e
  /\ pc' = IF attempt < limit /\ e \in Transient THEN "delay" ELSE "done"

-----------------------------------------------------------------------------
Connect ==
  /\ pc = "connect"
  /\ \/ cancelled /\ Raise("cancelled")
     \/ ~cancelled /\ (Raise("broken") \/ Raise("failed"))
     \/ ~cancelled /\ pc' = "upload" /\ UNCHANGED error
  /\ UNCHANGED <<file, attempt, move, existed, backedUp, found, cancelled, given>>

Upload ==
  /\ pc = "upload"
  /\ \E c \in {"none", "part", "new"} : file' = [file EXCEPT ![Staged] = c]
  /\ \/ pc' = "size" /\ UNCHANGED error
     \/ Fail("broken") \/ Fail("failed") \/ (cancelled /\ Fail("cancelled"))
  /\ UNCHANGED <<attempt, move, existed, backedUp, found, cancelled, given>>

(* Mutant: the staged file is taken as it is.                              *)
CheckStagedUnsized ==
  /\ pc = "size"
  /\ pc' = "exists"
  /\ UNCHANGED <<error, file, attempt, move, existed, backedUp, found, cancelled, given>>

(* The size, and the hash where one is asked for.                          *)
CheckStaged ==
  /\ pc = "size"
  /\ \/ file[Staged] = "new" /\ pc' = "exists" /\ UNCHANGED error
     \/ Fail("broken") \/ Fail("failed") \/ (cancelled /\ Fail("cancelled"))
  /\ UNCHANGED <<file, attempt, move, existed, backedUp, found, cancelled, given>>

(* Mutant: the approval covers the removal too, no backup is made.         *)
LookForDestinationNoBackup ==
  /\ pc = "exists"
  /\ existed' \in Look(Dest)
  /\ IF existed' /\ ~approved THEN Fail("unapproved") ELSE pc' = "commit" /\ UNCHANGED error
  /\ move' = "ask"
  /\ backedUp' = FALSE
  /\ found' = file[Dest]
  /\ UNCHANGED <<file, attempt, cancelled, given>>

(* Mutant: nobody asks for the approval.                                   *)
LookForDestinationUnasked ==
  /\ pc = "exists"
  /\ existed' \in Look(Dest)
  /\ pc' = IF existed' THEN "backup" ELSE "commit"
  /\ move' = "ask"
  /\ backedUp' = FALSE
  /\ found' = file[Dest]
  /\ UNCHANGED <<file, attempt, error, cancelled, given>>

LookForDestination ==
  /\ pc = "exists"
  /\ \/ cancelled /\ Fail("cancelled") /\ UNCHANGED <<move, existed, backedUp, found>>
     \/ /\ ~cancelled
        /\ \E seen \in Look(Dest) :
             /\ existed' = seen
             /\ \/ seen /\ ~approved /\ Fail("unapproved")
                \/ seen /\ approved /\ pc' = "backup" /\ UNCHANGED error
                \/ ~seen /\ pc' = "commit" /\ UNCHANGED error
        /\ move' = "ask"
        /\ backedUp' = FALSE
        /\ found' = file[Dest]
  /\ UNCHANGED <<file, attempt, cancelled, given>>

(* MoveFile, which throws or returns whatever it did.                      *)
AskMove ==
  /\ pc \in Moves
  /\ move = "ask"
  /\ pc = "commit" => ~cancelled
  /\ file' \in AfterMoveFile(Move[pc])
  /\ move' = "asked"
  /\ UNCHANGED <<attempt, pc, existed, backedUp, found, error, cancelled, given>>

(* The second try of MoveFileVerifiedAsync, in the directory itself.       *)
AskMoveAgain ==
  /\ pc \in Moves
  /\ move = "asked"
  /\ LooksUndone(Move[pc])
  /\ file[Move[pc].from] # "none"
  /\ file[Move[pc].to] = "none"
  /\ file' = Renamed(Move[pc])
  /\ move' = "again"
  /\ UNCHANGED <<attempt, pc, existed, backedUp, found, error, cancelled, given>>

(* A move taken for done.                                                  *)
MoveSeen ==
  /\ pc \in Moves
  /\ move # "ask"
  /\ LooksDone(Move[pc])
  /\ move' = "ask"
  /\ \/ pc = "backup" /\ backedUp' = TRUE /\ pc' = "commit" /\ UNCHANGED error
     \/ pc = "commit" /\ pc' = "committed" /\ UNCHANGED <<backedUp, error>>
     \/ pc = "restore" /\ backedUp' = FALSE /\ Fail("restored")
  /\ UNCHANGED <<file, attempt, existed, found, cancelled, given>>

(* Mutant: a commit that is not seen goes on to the backup's deletion.     *)
MoveUnseenDrops ==
  /\ pc \in Moves
  /\ move # "ask"
  /\ LooksUndone(Move[pc])
  /\ move' = "ask"
  /\ \/ pc = "backup" /\ Fail("broken")
     \/ pc = "commit" /\ pc' = "drop" /\ UNCHANGED error
     \/ pc = "restore" /\ Fail("mayRemain")
  /\ UNCHANGED <<file, attempt, existed, backedUp, found, cancelled, given>>

(* A move not taken for done.  Only that of the commit is rolled back.     *)
MoveUnseen ==
  /\ pc \in Moves
  /\ move # "ask"
  /\ LooksUndone(Move[pc])
  /\ move' = "ask"
  /\ \/ pc = "backup" /\ Fail("broken")
     \/ pc = "commit" /\ pc' = "delete" /\ UNCHANGED error
     \/ pc = "restore" /\ Fail("mayRemain")
  /\ UNCHANGED <<file, attempt, existed, backedUp, found, cancelled, given>>

CancelCommit ==
  /\ pc = "commit"
  /\ move = "ask"
  /\ cancelled
  /\ pc' = "delete"
  /\ UNCHANGED <<file, attempt, move, existed, backedUp, found, error, cancelled, given>>

(* The size at the destination; that of another file may be the same.      *)
CheckCommitted ==
  /\ pc = "committed"
  /\ \/ file[Dest] \notin {"none", "part"} /\ pc' = "drop"
     \/ pc' = "delete"
  /\ UNCHANGED <<file, attempt, move, existed, backedUp, found, error, cancelled, given>>

(* Mutant: the rollback ends with the deletion.                            *)
DeleteDestinationOnly ==
  /\ pc = "delete"
  /\ TryDelete(Dest)
  /\ Fail(IF existed THEN "restored" ELSE "noneLeft")
  /\ UNCHANGED <<attempt, move, existed, backedUp, found, cancelled, given>>

(* The rollback: the destination is deleted, the backup moved back.        *)
DeleteDestination ==
  /\ pc = "delete"
  /\ TryDelete(Dest)
  /\ IF backedUp THEN pc' = "restore" /\ UNCHANGED error ELSE Fail("noneLeft")
  /\ UNCHANGED <<attempt, move, existed, backedUp, found, cancelled, given>>

DropBackup ==
  /\ pc = "drop"
  /\ IF backedUp THEN TryDelete(Backup) ELSE UNCHANGED file
  /\ error' = "none"
  /\ pc' = "done"
  /\ UNCHANGED <<attempt, move, existed, backedUp, found, cancelled, given>>

DeleteStaged ==
  /\ pc = "cleanup"
  /\ TryDelete(Staged)
  /\ Raise(error)
  /\ UNCHANGED <<attempt, move, existed, backedUp, found, cancelled, given>>

(* Mutant: a failed attempt does not count.                                *)
RetryUncounted ==
  /\ pc = "delay"
  /\ IF cancelled THEN error' = "cancelled" /\ pc' = "done" ELSE pc' = "connect" /\ UNCHANGED error
  /\ UNCHANGED <<file, attempt, move, existed, backedUp, found, cancelled, given>>

(* The wait between attempts, which a cancellation ends.                   *)
Retry ==
  /\ pc = "delay"
  /\ IF cancelled
     THEN error' = "cancelled" /\ pc' = "done" /\ UNCHANGED attempt
     ELSE attempt' = attempt + 1 /\ pc' = "connect" /\ UNCHANGED error
  /\ UNCHANGED <<file, move, existed, backedUp, found, cancelled, given>>

Cancel ==
  /\ pc # "done"
  /\ ~cancelled
  /\ cancelled' = TRUE
  /\ UNCHANGED <<file, attempt, pc, move, existed, backedUp, found, error, given>>

(* Someone else uploads a file of the same name.                           *)
OtherWrites ==
  /\ others
  /\ pc # "done"
  /\ file[Dest] = "none"
  /\ file' = [file EXCEPT ![Dest] = "other"]
  /\ UNCHANGED <<attempt, pc, move, existed, backedUp, found, error, cancelled, given>>

Step ==
  \/ Connect \/ Upload \/ CheckStaged \/ LookForDestination
  \/ AskMove \/ AskMoveAgain \/ MoveSeen \/ MoveUnseen
  \/ CancelCommit \/ CheckCommitted \/ DeleteDestination \/ DropBackup
  \/ DeleteStaged \/ Retry

Next == Step \/ Cancel \/ OtherWrites

Spec == Init /\ [][Next]_vars

(* The caller awaits the upload, and every call to the server has a        *)
(* timeout, so each step is taken.                                         *)
FairSpec == Spec /\ WF_vars(Step)

-----------------------------------------------------------------------------
GivenOK ==
  /\ approved \in BOOLEAN
  /\ limit \in 1 .. Attempts
  /\ blind \in BOOLEAN
  /\ others \in BOOLEAN

TypeOK ==
  /\ GivenOK
  /\ file \in [Place -> Contents]
  /\ attempt \in 1 .. limit
  /\ pc \in Steps
  /\ move \in {"ask", "asked", "again"}
  /\ existed \in BOOLEAN /\ backedUp \in BOOLEAN /\ cancelled \in BOOLEAN
  /\ found \in Contents
  /\ error \in Errors \cup {"none"}

(* However the upload goes, and wherever it stops, nobody finds a part of  *)
(* a file under the destination's name.                                    *)
NeverPartial == file[Dest] # "part"

(* When looks tell the truth, the file that was at the destination is      *)
(* still there or under a backup's name, unless the complete new one is    *)
(* there: through rollbacks that fail, later attempts and others' files    *)
(* (FtpCommands.cs:1745-1770).                                             *)
OriginalKept ==
  [][~blind /\ (\E p \in Place : file[p] = "old")
       => (\E p \in Place : file'[p] = "old") \/ file'[Dest] = "new"]_vars

(* When looks tell the truth, an upload that reports success has put the   *)
(* new file in place (FtpCommands.cs:1753-1758).                           *)
SuccessIsReal == ~blind /\ pc = "done" /\ error = "none" => file[Dest] = "new"

(* An upload that reports the destination restored has put back what it    *)
(* found there (FtpCommands.cs:1783).                                      *)
RestoredIsTrue == ~blind /\ pc = "done" /\ error = "restored" => file[Dest] = found

(* With truthful looks and nobody else writing.                            *)
Alone == ~blind /\ ~others

(* A single attempt that fails leaves the original under its name, or its  *)
(* message says under which name the original may be (FtpCommands.cs:1778).*)
Findable ==
  /\ limit = 1 /\ Alone
  /\ pc = "done" /\ error \notin {"none", "mayRemain"}
  /\ \E p \in Place : file[p] = "old"
  => file[Dest] = "old"

(* Without approval nothing at the destination is changed that is not of   *)
(* the upload's own making, through all attempts (FtpCommands.cs:1738).    *)
UnapprovedKept ==
  [][Alone /\ ~approved /\ file[Dest] \in {"old", "other"} => file'[Dest] = file[Dest]]_vars

(* An upload that reports that it left no file has left none.              *)
NoneLeftIsTrue == Alone /\ pc = "done" /\ error = "noneLeft" => file[Dest] = "none"

(* The upload ends, whatever fails and whoever writes beside it.           *)
Ends == <>(pc = "done")

(* With truthful looks and nobody else writing, the upload replaces the    *)
(* destination as FileReplacement says; other uploads are not looked at.   *)
Replacement == INSTANCE FileReplacement WITH
  dest <- IF Alone THEN file[Dest] ELSE "none",
  aside <- IF Alone THEN {file[<<"backup", a>>] : a \in 1 .. Attempts} \ {"none"} ELSE {},
  settled <- Alone /\ (pc = "drop" \/ (pc = "done" /\ error = "none"))

Replaces == Replacement!Spec
================================================================================
