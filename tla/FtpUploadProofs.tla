---------------------------- MODULE FtpUploadProofs ----------------------------
(***************************************************************************)
(* Theorems about the staged upload, for any number of attempts.           *)
(***************************************************************************)
EXTENDS FtpUpload, TLAPS

(* The state is well formed: TypeOK, with what it takes to be inductive.   *)
TypeInv ==
  /\ TypeOK
  /\ pc = "delay" => attempt < limit
  /\ pc \in {"cleanup", "delay"} => error # "none"

(* Where parts of files, and files that are not the upload's, never are.   *)
Whole ==
  /\ \A p \in Place : p[1] # "upload" => file[p] # "part"
  /\ \A a \in 1 .. Attempts : file[<<"upload", a>>] \notin {"old", "other"}
  /\ pc \in {"exists", "backup"} => file[Staged] = "new"
  /\ pc = "commit" => file[Staged] = "new" \/ (file[Staged] = "none" /\ file[Dest] = "new")

(* Backup names of later attempts are unused, this one's until it is due.  *)
Fresh ==
  /\ \A a \in 1 .. Attempts : a > attempt => file[<<"backup", a>>] = "none"
  /\ pc \in {"connect", "upload", "size", "exists"} => file[Backup] = "none"

(* What an attempt whose looks are truthful knows when it is at a step.    *)
Known ==
  /\ pc = "backup" =>
       /\ found # "none"
       /\ \/ file[Dest] = found /\ file[Backup] = "none"
          \/ move # "ask" /\ file[Backup] = found
  /\ pc \in {"commit", "committed", "delete"} =>
       /\ file[Dest] # "old"
       /\ backedUp => found # "none" /\ file[Backup] = found
  /\ pc = "restore" =>
       /\ found # "none"
       /\ \/ file[Backup] = found /\ file[Dest] # "old"
          \/ move # "ask" /\ file[Backup] = "none" /\ file[Dest] = found
  /\ pc \in {"committed", "drop"} => file[Dest] = "new"
  /\ pc \in {"cleanup", "done"} /\ error = "restored" => found # "none" /\ file[Dest] = found
  /\ pc = "done" /\ error = "none" => file[Dest] = "new"

IInv == TypeInv /\ Whole /\ Fresh /\ (~blind => Known)

(* With nobody else writing there are no others' files.                    *)
NoOthers == Alone => \A p \in Place : file[p] # "other"

-----------------------------------------------------------------------------
USE AttemptsAssumption

(* The places an attempt works on.                                         *)
LEMMA Places ==
  ASSUME attempt \in 1 .. Attempts
  PROVE  /\ Dest \in Place /\ Staged \in Place /\ Backup \in Place
         /\ Dest # Staged /\ Dest # Backup /\ Staged # Backup
         /\ Dest[1] # "upload" /\ Staged[1] = "upload" /\ Backup[1] # "upload"
BY DEF Dest, Staged, Backup, Place, Role

LEMMA Uploads ==
  ASSUME NEW a \in 1 .. Attempts
  PROVE  /\ <<"upload", a>> \in Place
         /\ <<"upload", a>> # Dest
         /\ <<"upload", a>> # Backup
         /\ <<"upload", a>> = Staged <=> a = attempt
BY DEF Dest, Staged, Backup, Place, Role

LEMMA Backups ==
  ASSUME NEW a \in 1 .. Attempts
  PROVE  /\ <<"backup", a>> \in Place
         /\ <<"backup", a>> # Dest
         /\ <<"backup", a>> # Staged
         /\ <<"backup", a>> = Backup <=> a = attempt
BY DEF Dest, Staged, Backup, Place, Role

LEMMA SamePlaces ==
  ASSUME attempt' = attempt
  PROVE  Staged' = Staged /\ Backup' = Backup /\ Dest' = Dest /\ Place' = Place
BY DEF Staged, Backup, Dest, Place

LEMMA MoveEnds ==
  /\ Move["backup"].from = Dest /\ Move["backup"].to = Backup
  /\ Move["commit"].from = Staged /\ Move["commit"].to = Dest
  /\ Move["restore"].from = Backup /\ Move["restore"].to = Dest
BY DEF Move

(* What the upload is given stays as it is.                                *)
LEMMA SameGiven ==
  [Next]_vars => /\ approved' = approved /\ limit' = limit
                 /\ blind' = blind /\ others' = others
BY DEF Next, Step, Connect, Upload, CheckStaged, LookForDestination, AskMove, AskMoveAgain,
       MoveSeen, MoveUnseen, CancelCommit, CheckCommitted, DeleteDestination, DropBackup,
       DeleteStaged, Retry, Cancel, OtherWrites, given, vars

LEMMA TypeInit == Init => TypeInv
<1>. SUFFICES ASSUME Init PROVE TypeInv
  OBVIOUS
<1>1. file \in [Place -> Contents]
  BY DEF Init, Contents
<1>2. existed \in BOOLEAN /\ backedUp \in BOOLEAN /\ cancelled \in BOOLEAN
  BY DEF Init
<1>3. /\ attempt \in 1 .. limit
      /\ pc = "connect" /\ pc \in Steps
      /\ move \in {"ask", "asked", "again"}
      /\ found \in Contents
      /\ error \in Errors \cup {"none"}
  BY DEF Init, Contents, Steps
<1>4. GivenOK
  BY DEF Init, GivenOK
<1>. QED BY <1>1, <1>2, <1>3, <1>4 DEF TypeInv, TypeOK

LEMMA TypeNext == TypeInv /\ [Next]_vars => TypeInv'
<1>. SUFFICES ASSUME TypeInv, [Next]_vars PROVE TypeInv'
  OBVIOUS
<1>. limit' = limit /\ limit \in 1 .. Attempts /\ attempt \in 1 .. Attempts
  BY SameGiven DEF TypeInv, TypeOK, GivenOK
<1>. GivenOK'
  BY SameGiven DEF TypeInv, TypeOK, GivenOK
<1>. USE Places DEF TypeInv, TypeOK
<1>1. CASE Connect
  BY <1>1 DEF Connect, Raise, Steps, Errors, Transient
<1>2. CASE Upload
  BY <1>2 DEF Upload, Fail, Steps, Errors, Contents, Transient
<1>3. CASE CheckStaged
  BY <1>3 DEF CheckStaged, Fail, Steps, Errors, Transient
<1>4. CASE LookForDestination
  <2>1. UNCHANGED <<file, attempt, cancelled>> /\ found' \in Contents
    BY <1>4 DEF LookForDestination
  <2>2. existed' \in BOOLEAN /\ backedUp' \in BOOLEAN /\ move' \in {"ask", "asked", "again"}
    BY <1>4 DEF LookForDestination, Look
  <2>3. /\ pc' \in {"cleanup", "backup", "commit"}
        /\ error' \in Errors \cup {"none"}
        /\ pc' = "cleanup" => error' # "none"
    BY <1>4 DEF LookForDestination, Fail, Errors, Transient
  <2>. QED BY <2>1, <2>2, <2>3 DEF Steps, Moves
<1>5. CASE AskMove \/ AskMoveAgain
  <2>. Move[pc].from \in Place /\ Move[pc].to \in Place
    BY <1>5, MoveEnds DEF AskMove, AskMoveAgain, Moves
  <2>. QED BY <1>5 DEF AskMove, AskMoveAgain, AfterMoveFile, Renamed, Moves, Contents
<1>6. CASE MoveSeen \/ MoveUnseen
  BY <1>6 DEF MoveSeen, MoveUnseen, Fail, Steps, Moves, Errors, Transient
<1>7. CASE CancelCommit
  BY <1>7 DEF CancelCommit, Steps
<1>8. CASE CheckCommitted
  BY <1>8 DEF CheckCommitted, Steps
<1>9. CASE DeleteDestination
  BY <1>9 DEF DeleteDestination, TryDelete, Fail, Steps, Moves, Errors, Transient, Contents
<1>10. CASE DropBackup
  BY <1>10 DEF DropBackup, TryDelete, Steps, Contents
<1>11. CASE DeleteStaged
  BY <1>11 DEF DeleteStaged, TryDelete, Raise, Steps, Contents, Errors
<1>12. CASE Retry
  BY <1>12 DEF Retry, Steps, Errors
<1>13. CASE Cancel
  BY <1>13 DEF Cancel
<1>14. CASE OtherWrites
  BY <1>14 DEF OtherWrites, Contents
<1>15. CASE UNCHANGED vars
  BY <1>15 DEF vars
<1>. QED
  BY <1>1, <1>2, <1>3, <1>4, <1>5, <1>6, <1>7, <1>8, <1>9, <1>10, <1>11, <1>12, <1>13,
     <1>14, <1>15 DEF Next, Step

(* The upload's state is well formed, and attempts are counted to their    *)
(* limit.                                                                  *)
THEOREM TypeCorrect == Spec => []TypeOK
<1>1. TypeInv => TypeOK
  BY DEF TypeInv
<1>. QED BY TypeInit, TypeNext, <1>1, PTL DEF Spec

-----------------------------------------------------------------------------
(* What a move can do to the files: nothing, clear its end, or both that   *)
(* and the renaming.                                                       *)
LEMMA MoveEffects ==
  ASSUME TypeInv, AskMove \/ AskMoveAgain, NEW from, NEW to,
         Move[pc].from = from, Move[pc].to = to
  PROVE  \/ file' = file
         \/ file[from] # "none" /\ move = "ask" /\ file' = [file EXCEPT ![to] = "none"]
         \/ /\ file[from] # "none"
            /\ move = "ask" \/ file[to] = "none"
            /\ file' = [file EXCEPT ![from] = "none", ![to] = file[from]]
BY DEF AskMove, AskMoveAgain, AfterMoveFile, Renamed

LEMMA WholeNext == TypeInv /\ TypeInv' /\ Whole /\ [Next]_vars => Whole'
<1>. SUFFICES ASSUME TypeInv, TypeInv', Whole, [Next]_vars PROVE Whole'
  OBVIOUS
<1>. /\ attempt \in 1 .. Attempts /\ attempt' \in 1 .. Attempts
     /\ file \in [Place -> Contents]
  BY DEF TypeInv, TypeOK, GivenOK
<1>. USE Places
<1>1. CASE Upload
  <2>. attempt' = attempt /\ pc' \in {"size", "cleanup"}
    BY <1>1 DEF Upload, Fail
  <2>. PICK c \in {"none", "part", "new"} : file' = [file EXCEPT ![Staged] = c]
    BY <1>1 DEF Upload
  <2>. QED BY SamePlaces, Uploads DEF Whole
<1>2. CASE CheckStaged
  BY <1>2, SamePlaces DEF CheckStaged, Fail, Whole
<1>3. CASE LookForDestination
  <2>. /\ attempt' = attempt /\ file' = file /\ pc = "exists"
       /\ pc' \in {"cleanup", "backup", "commit"}
    BY <1>3 DEF LookForDestination, Fail
  <2>. QED BY SamePlaces DEF Whole
<1>4. CASE AskMove \/ AskMoveAgain
  <2>. attempt' = attempt /\ pc' = pc /\ pc \in Moves
    BY <1>4 DEF AskMove, AskMoveAgain
  <2>1. CASE pc = "backup"
    <3>. /\ file'[Staged] = file[Staged]
         /\ \A p \in Place : file'[p] \in {file[p], "none", file[Dest]}
         /\ \A p \in Place \ {Dest, Backup} : file'[p] = file[p]
      BY <1>4, <2>1, MoveEffects, MoveEnds
    <3>. QED BY <2>1, SamePlaces, Uploads DEF Whole
  <2>2. CASE pc = "commit"
    <3>. \/ file' = file
         \/ file[Staged] = "new" /\ file' = [file EXCEPT ![Dest] = "none"]
         \/ file[Staged] = "new" /\ file' = [file EXCEPT ![Staged] = "none", ![Dest] = "new"]
      BY <1>4, <2>2, MoveEffects, MoveEnds DEF Whole
    <3>. QED BY <2>2, SamePlaces, Uploads DEF Whole
  <2>3. CASE pc = "restore"
    <3>. /\ \A p \in Place : file'[p] \in {file[p], "none", file[Backup]}
         /\ \A p \in Place \ {Dest, Backup} : file'[p] = file[p]
      BY <1>4, <2>3, MoveEffects, MoveEnds
    <3>. QED BY <2>3, SamePlaces, Uploads DEF Whole
  <2>. QED BY <2>1, <2>2, <2>3 DEF Moves
<1>5. CASE MoveSeen \/ MoveUnseen
  BY <1>5, SamePlaces DEF MoveSeen, MoveUnseen, Fail, Whole
<1>6. CASE DeleteDestination \/ DropBackup \/ DeleteStaged
  <2>. attempt' = attempt /\ pc' \notin {"exists", "backup", "commit"}
    BY <1>6 DEF DeleteDestination, DropBackup, DeleteStaged, Fail, Raise
  <2>. \A p \in Place : file'[p] \in {file[p], "none"}
    BY <1>6 DEF DeleteDestination, DropBackup, DeleteStaged, TryDelete
  <2>. QED BY SamePlaces, Uploads DEF Whole
<1>7. CASE Retry
  <2>. file' = file /\ pc' \in {"done", "connect"}
    BY <1>7 DEF Retry
  <2>. QED BY DEF Whole, Place, Dest
<1>8. CASE OtherWrites
  <2>. /\ attempt' = attempt /\ pc' = pc /\ file[Dest] = "none"
       /\ file' = [file EXCEPT ![Dest] = "other"]
    BY <1>8 DEF OtherWrites
  <2>. QED BY SamePlaces, Uploads DEF Whole
<1>9. CASE Connect \/ CancelCommit \/ CheckCommitted
  <2>. file' = file /\ attempt' = attempt /\ pc' \notin {"exists", "backup", "commit"}
    BY <1>9 DEF Connect, CancelCommit, CheckCommitted, Raise
  <2>. QED BY SamePlaces DEF Whole
<1>10. CASE Cancel \/ UNCHANGED vars
  BY <1>10, SamePlaces DEF Cancel, vars, Whole
<1>. QED
  BY <1>1, <1>2, <1>3, <1>4, <1>5, <1>6, <1>7, <1>8, <1>9, <1>10 DEF Next, Step

LEMMA WholeInit == Init => Whole
<1>. SUFFICES ASSUME Init PROVE Whole
  OBVIOUS
<1>1. Dest \in Place
  BY DEF Place
<1>2. file[Dest] \in {"none", "old"}
  BY <1>1 DEF Init
<1>3. \A p \in Place : p # Dest => file[p] = "none"
  BY DEF Init
<1>4. pc = "connect"
  BY DEF Init
<1>. QED BY <1>1, <1>2, <1>3, <1>4, Uploads, Places DEF Whole

(* Nobody ever finds a part of a file under the destination's name: not    *)
(* while a rollback fails, not when looks miss files, not after a crash.   *)
THEOREM NeverPartialTheorem == Spec => []NeverPartial
<1>1. TypeInv /\ Whole => NeverPartial
  <2>1. TypeInv => attempt \in 1 .. Attempts
    BY AttemptsAssumption DEF TypeInv, TypeOK, GivenOK
  <2>. QED BY <2>1, Places DEF Whole, NeverPartial
<1>. QED BY TypeInit, TypeNext, WholeInit, WholeNext, <1>1, PTL DEF Spec

-----------------------------------------------------------------------------
LEMMA FreshInit == Init => Fresh
<1>. SUFFICES ASSUME Init PROVE Fresh
  OBVIOUS
<1>1. \A p \in Place : p # Dest => file[p] = "none"
  BY DEF Init
<1>2. attempt \in 1 .. Attempts /\ Backup = <<"backup", attempt>>
  BY DEF Init, Backup
<1>. QED BY <1>1, <1>2, Backups DEF Fresh

LEMMA FreshNext == TypeInv /\ TypeInv' /\ Fresh /\ [Next]_vars => Fresh'
<1>. SUFFICES ASSUME TypeInv, TypeInv', Fresh, [Next]_vars PROVE Fresh'
  OBVIOUS
<1>. /\ attempt \in 1 .. Attempts /\ attempt' \in 1 .. Attempts
     /\ file \in [Place -> Contents]
  BY DEF TypeInv, TypeOK, GivenOK
<1>. USE Places
<1>1. CASE Upload
  <2>. attempt' = attempt /\ pc = "upload"
    BY <1>1 DEF Upload
  <2>. PICK c \in {"none", "part", "new"} : file' = [file EXCEPT ![Staged] = c]
    BY <1>1 DEF Upload
  <2>. QED BY SamePlaces, Backups DEF Fresh
<1>2. CASE AskMove \/ AskMoveAgain
  <2>. attempt' = attempt /\ pc' = pc /\ pc \in Moves
    BY <1>2 DEF AskMove, AskMoveAgain
  <2>. \A p \in Place \ {Dest, Staged, Backup} : file'[p] = file[p]
    BY <1>2, MoveEffects, MoveEnds DEF Moves
  <2>. QED BY SamePlaces, Backups DEF Fresh, Moves
<1>3. CASE DeleteDestination \/ DropBackup \/ DeleteStaged
  <2>. attempt' = attempt /\ pc' \notin {"connect", "upload", "size", "exists"}
    BY <1>3 DEF DeleteDestination, DropBackup, DeleteStaged, Fail, Raise
  <2>. \A p \in Place : file'[p] \in {file[p], "none"}
    BY <1>3 DEF DeleteDestination, DropBackup, DeleteStaged, TryDelete
  <2>. QED BY SamePlaces, Backups DEF Fresh
<1>4. CASE Retry
  <2>. file' = file /\ attempt' \in {attempt, attempt + 1}
    BY <1>4 DEF Retry
  <2>1. CASE attempt' = attempt
    BY <1>4, <2>1, SamePlaces DEF Retry, Fresh
  <2>2. CASE attempt' = attempt + 1
    <3>. Backup' = <<"backup", attempt'>>
      BY DEF Backup
    <3>. QED BY <2>2, Backups DEF Fresh
  <2>. QED BY <2>1, <2>2
<1>5. CASE OtherWrites
  <2>. attempt' = attempt /\ pc' = pc /\ file' = [file EXCEPT ![Dest] = "other"]
    BY <1>5 DEF OtherWrites
  <2>. QED BY SamePlaces, Backups DEF Fresh
<1>6. CASE \/ Connect \/ CheckStaged \/ LookForDestination \/ MoveSeen \/ MoveUnseen
           \/ CancelCommit \/ CheckCommitted
  <2>. file' = file /\ attempt' = attempt
    BY <1>6 DEF Connect, CheckStaged, LookForDestination, MoveSeen, MoveUnseen, CancelCommit,
                CheckCommitted
  <2>. pc' \in {"upload", "exists"} => pc \in {"connect", "size"}
    BY <1>6 DEF Connect, CheckStaged, LookForDestination, MoveSeen, MoveUnseen, CancelCommit,
                CheckCommitted, Fail, Raise
  <2>. pc' \notin {"connect", "size"}
    BY <1>6 DEF Connect, CheckStaged, LookForDestination, MoveSeen, MoveUnseen, CancelCommit,
                CheckCommitted, Fail, Raise
  <2>. QED BY SamePlaces DEF Fresh
<1>7. CASE Cancel \/ UNCHANGED vars
  BY <1>7, SamePlaces DEF Cancel, vars, Fresh
<1>. QED
  BY <1>1, <1>2, <1>3, <1>4, <1>5, <1>6, <1>7 DEF Next, Step

-----------------------------------------------------------------------------
(* When looks are truthful, a move is taken for done exactly if it is.     *)
LEMMA TrueVerdict ==
  ASSUME ~blind, NEW from, NEW to, Move[pc].from = from, Move[pc].to = to
  PROVE  /\ LooksDone(Move[pc]) <=> file[from] = "none" /\ file[to] # "none"
         /\ LooksUndone(Move[pc]) <=> ~(file[from] = "none" /\ file[to] # "none")
<1>. \A p : Look(p) = IF file[p] = "none" THEN {FALSE} ELSE {TRUE}
  BY DEF Look
<1>. QED BY DEF LooksDone, LooksUndone

LEMMA KnownInit == Init => Known
BY DEF Init, Known

LEMMA KnownNext ==
  ~blind /\ TypeInv /\ TypeInv' /\ Whole /\ Fresh /\ Known /\ [Next]_vars => Known'
<1>. SUFFICES ASSUME ~blind, TypeInv, TypeInv', Whole, Fresh, Known, [Next]_vars PROVE Known'
  OBVIOUS
<1>. /\ attempt \in 1 .. Attempts /\ attempt' \in 1 .. Attempts
     /\ file \in [Place -> Contents]
     /\ move \in {"ask", "asked", "again"}
  BY DEF TypeInv, TypeOK, GivenOK
<1>. USE Places
<1>1. CASE Connect \/ Upload \/ CheckStaged
  <2>. \/ pc' \in {"upload", "size", "exists", "delay"}
       \/ pc' \in {"cleanup", "done"} /\ error' \in {"broken", "failed", "cancelled"}
    BY <1>1 DEF Connect, Upload, CheckStaged, Fail, Raise
  <2>. QED BY DEF Known
<1>2. CASE LookForDestination
  <2>. attempt' = attempt /\ file' = file /\ pc = "exists"
    BY <1>2 DEF LookForDestination
  <2>1. CASE cancelled
    BY <1>2, <2>1 DEF LookForDestination, Fail, Known
  <2>2. CASE ~cancelled
    <3>. /\ found' = file[Dest] /\ backedUp' = FALSE
         /\ \/ pc' = "cleanup" /\ error' = "unapproved"
            \/ pc' = "backup" /\ file[Dest] # "none"
            \/ pc' = "commit" /\ file[Dest] = "none"
      BY <1>2, <2>2 DEF LookForDestination, Fail, Look
    <3>. QED BY SamePlaces DEF Known, Fresh
  <2>. QED BY <2>1, <2>2
<1>3. CASE AskMove \/ AskMoveAgain
  <2>. /\ attempt' = attempt /\ pc' = pc /\ pc \in Moves /\ found' = found
       /\ backedUp' = backedUp /\ move' # "ask"
    BY <1>3 DEF AskMove, AskMoveAgain
  <2>1. CASE pc = "backup"
    BY <1>3, <2>1, MoveEffects, MoveEnds, SamePlaces DEF Known
  <2>2. CASE pc = "commit"
    <3>. \/ file' = file
         \/ file' = [file EXCEPT ![Dest] = "none"]
         \/ file' = [file EXCEPT ![Staged] = "none", ![Dest] = "new"]
      BY <1>3, <2>2, MoveEffects, MoveEnds DEF Whole
    <3>. QED BY <2>2, SamePlaces DEF Known
  <2>3. CASE pc = "restore"
    BY <1>3, <2>3, MoveEffects, MoveEnds, SamePlaces DEF Known
  <2>. QED BY <2>1, <2>2, <2>3 DEF Moves
<1>4. CASE MoveSeen
  <2>. attempt' = attempt /\ file' = file /\ found' = found /\ move # "ask"
    BY <1>4 DEF MoveSeen
  <2>1. CASE pc = "backup"
    <3>. /\ pc' = "commit"
         /\ file[Dest] = "none" /\ file[Backup] # "none"
      BY <1>4, <2>1, TrueVerdict, MoveEnds DEF MoveSeen
    <3>. QED BY <2>1, SamePlaces DEF Known
  <2>2. CASE pc = "commit"
    <3>. /\ pc' = "committed" /\ backedUp' = backedUp
         /\ file[Staged] = "none"
      BY <1>4, <2>2, TrueVerdict, MoveEnds DEF MoveSeen
    <3>. QED BY <2>2, SamePlaces DEF Known, Whole
  <2>3. CASE pc = "restore"
    <3>. /\ pc' = "cleanup"
         /\ file[Backup] = "none"
      BY <1>4, <2>3, TrueVerdict, MoveEnds DEF MoveSeen, Fail
    <3>. QED BY <2>3, SamePlaces DEF Known
  <2>. QED BY <1>4, <2>1, <2>2, <2>3 DEF MoveSeen
<1>5. CASE MoveUnseen
  <2>. /\ attempt' = attempt /\ file' = file /\ found' = found /\ backedUp' = backedUp
       /\ \/ pc' = "cleanup" /\ error' \in {"broken", "mayRemain"}
          \/ pc = "commit" /\ pc' = "delete"
    BY <1>5 DEF MoveUnseen, Fail
  <2>. QED BY SamePlaces DEF Known
<1>6. CASE CancelCommit \/ CheckCommitted
  <2>. /\ attempt' = attempt /\ file' = file /\ found' = found /\ backedUp' = backedUp
       /\ \/ pc \in {"commit", "committed"} /\ pc' = "delete"
          \/ pc = "committed" /\ pc' = "drop"
    BY <1>6 DEF CancelCommit, CheckCommitted
  <2>. QED BY SamePlaces DEF Known
<1>7. CASE DeleteDestination
  <2>. /\ attempt' = attempt /\ pc = "delete" /\ found' = found /\ backedUp' = backedUp
       /\ file' \in {file, [file EXCEPT ![Dest] = "none"]}
       /\ \/ backedUp /\ pc' = "restore"
          \/ pc' = "cleanup" /\ error' = "noneLeft"
    BY <1>7 DEF DeleteDestination, TryDelete, Fail
  <2>. QED BY SamePlaces DEF Known
<1>8. CASE DropBackup
  <2>. /\ attempt' = attempt /\ pc = "drop" /\ pc' = "done" /\ error' = "none"
       /\ file' \in {file, [file EXCEPT ![Backup] = "none"]}
    BY <1>8 DEF DropBackup, TryDelete
  <2>. QED BY SamePlaces DEF Known
<1>9. CASE DeleteStaged
  <2>. /\ attempt' = attempt /\ pc = "cleanup" /\ pc' \in {"delay", "done"}
       /\ error' = error /\ found' = found
       /\ file' \in {file, [file EXCEPT ![Staged] = "none"]}
    BY <1>9 DEF DeleteStaged, TryDelete, Raise
  <2>. QED BY SamePlaces DEF Known, TypeInv
<1>10. CASE Retry
  BY <1>10 DEF Retry, Known
<1>11. CASE OtherWrites
  <2>. /\ attempt' = attempt /\ pc' = pc /\ found' = found /\ backedUp' = backedUp
       /\ error' = error /\ move' = move /\ pc # "done"
       /\ file[Dest] = "none" /\ file' = [file EXCEPT ![Dest] = "other"]
    BY <1>11 DEF OtherWrites
  <2>. QED BY SamePlaces DEF Known
<1>12. CASE Cancel \/ UNCHANGED vars
  BY <1>12, SamePlaces DEF Cancel, vars, Known
<1>. QED
  BY <1>1, <1>2, <1>3, <1>4, <1>5, <1>6, <1>7, <1>8, <1>9, <1>10, <1>11, <1>12 DEF Next, Step

LEMMA Invariance == Spec => []IInv
<1>1. Init => IInv
  BY TypeInit, WholeInit, FreshInit, KnownInit DEF IInv
<1>2. IInv /\ [Next]_vars => IInv'
  BY TypeNext, WholeNext, FreshNext, KnownNext, SameGiven DEF IInv
<1>. QED BY <1>1, <1>2, PTL DEF Spec

(* Where looks are truthful, success means that the new file is in place.  *)
THEOREM MessagesTheorem == Spec => []SuccessIsReal
<1>1. IInv => SuccessIsReal
  BY DEF IInv, Known, SuccessIsReal
<1>. QED BY <1>1, Invariance, PTL

(* Where looks are truthful, "restored" means that what the attempt found  *)
(* there is there again.                                                   *)
THEOREM RestoredTheorem == Spec => []RestoredIsTrue
<1>1. IInv => RestoredIsTrue
  BY DEF IInv, Known, RestoredIsTrue
<1>. QED BY <1>1, Invariance, PTL

-----------------------------------------------------------------------------
(* Each change of a file, with what IInv knows of what it overwrites.      *)
LEMMA Changes ==
  ASSUME ~blind, IInv, [Next]_vars
  PROVE  \/ file' = file
         \/ \E c \in {"none", "part", "new"} : file' = [file EXCEPT ![Staged] = c]
         \/ /\ pc = "backup" /\ file[Dest] # "none" /\ file[Backup] = "none"
            /\ file' = [file EXCEPT ![Dest] = "none", ![Backup] = file[Dest]]
         \/ /\ pc = "commit" /\ file[Dest] # "old"
            /\ file' = [file EXCEPT ![Staged] = "none", ![Dest] = "new"]
         \/ /\ pc = "restore" /\ file[Dest] # "old" /\ file[Backup] # "none"
            /\ file' = [file EXCEPT ![Backup] = "none", ![Dest] = file[Backup]]
         \/ /\ pc \in {"commit", "delete", "restore"} /\ file[Dest] # "old"
            /\ file' = [file EXCEPT ![Dest] = "none"]
         \/ /\ pc = "drop" /\ file[Dest] = "new"
            /\ file' = [file EXCEPT ![Backup] = "none"]
         \/ others /\ file[Dest] = "none" /\ file' = [file EXCEPT ![Dest] = "other"]
<1>. /\ attempt \in 1 .. Attempts
     /\ file \in [Place -> Contents]
  BY DEF IInv, TypeInv, TypeOK, GivenOK
<1>. TypeInv /\ Whole /\ Known
  BY DEF IInv
<1>. USE Places
<1>1. CASE Upload
  BY <1>1 DEF Upload
<1>2. CASE AskMove \/ AskMoveAgain
  <2>. pc \in Moves
    BY <1>2 DEF AskMove, AskMoveAgain
  <2>1. CASE pc = "backup"
    <3>1. CASE file[Dest] = found /\ file[Backup] = "none"
      <4>. [file EXCEPT ![Backup] = "none"] = file
        BY <3>1
      <4>. QED BY <1>2, <2>1, <3>1, MoveEffects, MoveEnds DEF Known
    <3>2. CASE move # "ask" /\ file[Backup] = found
      BY <1>2, <2>1, <3>2, MoveEffects, MoveEnds DEF Known
    <3>. QED BY <2>1, <3>1, <3>2 DEF Known
  <2>2. CASE pc = "commit"
    BY <1>2, <2>2, MoveEffects, MoveEnds DEF Known, Whole
  <2>3. CASE pc = "restore"
    <3>1. CASE file[Backup] = found /\ file[Dest] # "old"
      BY <1>2, <2>3, <3>1, MoveEffects, MoveEnds
    <3>2. CASE file[Backup] = "none"
      BY <1>2, <2>3, <3>2, MoveEffects, MoveEnds
    <3>. QED BY <2>3, <3>1, <3>2 DEF Known
  <2>. QED BY <2>1, <2>2, <2>3 DEF Moves
<1>3. CASE DeleteDestination
  BY <1>3 DEF DeleteDestination, TryDelete, Known
<1>4. CASE DropBackup
  BY <1>4 DEF DropBackup, TryDelete, Known
<1>5. CASE DeleteStaged
  BY <1>5 DEF DeleteStaged, TryDelete
<1>6. CASE OtherWrites
  BY <1>6 DEF OtherWrites
<1>7. CASE \/ Connect \/ CheckStaged \/ LookForDestination \/ MoveSeen \/ MoveUnseen
           \/ CancelCommit \/ CheckCommitted \/ Retry \/ Cancel \/ UNCHANGED vars
  BY <1>7 DEF Connect, CheckStaged, LookForDestination, MoveSeen, MoveUnseen, CancelCommit,
              CheckCommitted, Retry, Cancel, vars
<1>. QED
  BY <1>1, <1>2, <1>3, <1>4, <1>5, <1>6, <1>7 DEF Next, Step

(* The original is never lost before the new file is in place.             *)
THEOREM OriginalKeptTheorem == Spec => OriginalKept
<1>1. ASSUME ~blind, IInv, [Next]_vars, NEW p \in Place, file[p] = "old"
      PROVE  (\E q \in Place : file'[q] = "old") \/ file'[Dest] = "new"
  <2>. /\ attempt \in 1 .. Attempts
       /\ file \in [Place -> Contents]
       /\ file[Staged] # "old"
    BY <1>1, Uploads DEF IInv, TypeInv, TypeOK, GivenOK, Whole, Staged
  <2>. QED BY <1>1, Changes, Places
<1>2. IInv /\ [Next]_vars
        => [~blind /\ (\E p \in Place : file[p] = "old")
              => (\E p \in Place : file'[p] = "old") \/ file'[Dest] = "new"]_vars
  BY <1>1
<1>. QED BY Invariance, <1>2, PTL DEF Spec, OriginalKept

-----------------------------------------------------------------------------
(* The state FileReplacement sees.                                         *)
Aside == {file[<<"backup", a>>] : a \in 1 .. Attempts} \ {"none"}
Settled == pc = "drop" \/ (pc = "done" /\ error = "none")

LEMMA NoOthersNext == IInv /\ NoOthers /\ [Next]_vars => NoOthers'
<1>. SUFFICES ASSUME Alone, IInv, NoOthers, [Next]_vars PROVE NoOthers'
  BY SameGiven DEF NoOthers, Alone
<1>. /\ attempt \in 1 .. Attempts
     /\ file \in [Place -> Contents]
     /\ Place' = Place
  BY DEF IInv, TypeInv, TypeOK, GivenOK, Place, Dest
<1>. QED BY Changes, Places DEF NoOthers, Alone

LEMMA SameAside ==
  ASSUME \A a \in 1 .. Attempts : file'[<<"backup", a>>] = file[<<"backup", a>>]
  PROVE  Aside' = Aside
BY DEF Aside

LEMMA GrownAside ==
  ASSUME attempt \in 1 .. Attempts, file[Backup] = "none", NEW c, c # "none",
         \A a \in 1 .. Attempts :
           file'[<<"backup", a>>] = IF a = attempt THEN c ELSE file[<<"backup", a>>]
  PROVE  Aside' = Aside \cup {c}
BY DEF Aside, Backup

LEMMA ShrunkAside ==
  ASSUME attempt \in 1 .. Attempts,
         \A a \in 1 .. Attempts :
           file'[<<"backup", a>>] = IF a = attempt THEN "none" ELSE file[<<"backup", a>>]
  PROVE  Aside' \in {Aside, Aside \ {file[Backup]}}
<1>1. CASE \E a \in 1 .. Attempts : a # attempt /\ file[<<"backup", a>>] = file[Backup]
  BY <1>1 DEF Aside, Backup
<1>2. CASE \A a \in 1 .. Attempts : a # attempt => file[<<"backup", a>>] # file[Backup]
  BY <1>2 DEF Aside, Backup
<1>. QED BY <1>1, <1>2

(* The replacement is settled by CheckCommitted, and stays so.             *)
LEMMA Settling ==
  ASSUME IInv, [Next]_vars
  PROVE  \/ Settled' = Settled
         \/ ~Settled /\ Settled' /\ file' = file /\ pc = "committed"
<1>. USE DEF Settled
<1>. TypeInv
  BY DEF IInv
<1>1. CASE Connect
  BY <1>1 DEF Connect, Raise
<1>2. CASE Upload \/ CheckStaged \/ LookForDestination
  BY <1>2 DEF Upload, CheckStaged, LookForDestination, Fail
<1>3. CASE AskMove \/ AskMoveAgain
  BY <1>3 DEF AskMove, AskMoveAgain
<1>4. CASE MoveSeen \/ MoveUnseen
  BY <1>4 DEF MoveSeen, MoveUnseen, Fail
<1>5. CASE CancelCommit \/ CheckCommitted \/ DeleteDestination
  BY <1>5 DEF CancelCommit, CheckCommitted, DeleteDestination, Fail
<1>6. CASE DropBackup
  BY <1>6 DEF DropBackup
<1>7. CASE DeleteStaged
  BY <1>7 DEF DeleteStaged, Raise, TypeInv
<1>8. CASE Retry
  BY <1>8 DEF Retry
<1>9. CASE Cancel \/ OtherWrites \/ UNCHANGED vars
  BY <1>9 DEF Cancel, OtherWrites, vars
<1>. QED
  BY <1>1, <1>2, <1>3, <1>4, <1>5, <1>6, <1>7, <1>8, <1>9 DEF Next, Step

(* Each step of the upload is one of the replacement, or none.             *)
LEMMA StepReplaces ==
  ASSUME IInv, NoOthers, [Next]_vars
  PROVE  [Replacement!Next]_(Replacement!vars)
<1>. DEFINE dest == file[Dest]
<1>1. CASE ~Alone
  BY <1>1, SameGiven DEF Alone, Replacement!vars
<1>. SUFFICES ASSUME Alone PROVE [Replacement!Next]_(Replacement!vars)
  BY <1>1
<1>. ~blind /\ ~others /\ Alone'
  BY SameGiven DEF Alone
<1>. /\ attempt \in 1 .. Attempts
     /\ file \in [Place -> Contents]
  BY DEF IInv, TypeInv, TypeOK, GivenOK
<1>. Dest' = Dest /\ dest \in {"none", "old", "new"}
  BY Places DEF Dest, IInv, Whole, NoOthers, Contents
<1>. USE Places, Backups
<1>. USE DEF Replacement!Next, Replacement!vars
<1>. SUFFICES [ (~Settled /\ (\/ (Replacement!SetAside \/ Replacement!Publish
                                 \/ Replacement!Withdraw \/ Replacement!Restore)
                                 /\ Settled' = Settled
                              \/ Replacement!Settle /\ Settled'))
               \/ Replacement!Forget ]_(<<dest, Aside, Settled>>)
  BY DEF Settled, Aside
<1>2. CASE file' = file
  <2>. Aside' = Aside /\ dest' = dest
    BY <1>2, SameAside
  <2>1. CASE Settled' = Settled
    BY <2>1
  <2>2. CASE Settled' # Settled
    BY <2>2, Settling DEF IInv, Known, Replacement!Settle, Aside
  <2>. QED BY <2>1, <2>2
<1>3. CASE file' # file
  <2>. Settled' = Settled
    BY <1>3, Settling
  <2>1. CASE \E c \in {"none", "part", "new"} : file' = [file EXCEPT ![Staged] = c]
    <3>. Aside' = Aside /\ dest' = dest
      BY <2>1, SameAside
    <3>. QED OBVIOUS
  <2>2. CASE /\ pc = "backup" /\ file[Dest] # "none" /\ file[Backup] = "none"
             /\ file' = [file EXCEPT ![Dest] = "none", ![Backup] = file[Dest]]
    <3>. Aside' = Aside \cup {dest} /\ dest' = "none"
      BY <2>2, GrownAside
    <3>. QED BY <2>2 DEF Replacement!SetAside, Aside, Settled
  <2>3. CASE /\ pc = "commit" /\ file[Dest] # "old"
             /\ file' = [file EXCEPT ![Staged] = "none", ![Dest] = "new"]
    <3>. Aside' = Aside /\ dest' = "new"
      BY <2>3, SameAside
    <3>. QED BY <2>3 DEF Replacement!Publish, Aside, Settled
  <2>4. CASE /\ pc = "restore" /\ file[Dest] # "old" /\ file[Backup] # "none"
             /\ file' = [file EXCEPT ![Backup] = "none", ![Dest] = file[Backup]]
    <3>. Aside' \in {Aside, Aside \ {dest'}} /\ dest' \in Aside
      BY <2>4, ShrunkAside DEF Aside, Backup
    <3>. QED BY <2>4 DEF Replacement!Restore, Aside, Settled
  <2>5. CASE /\ pc \in {"commit", "delete", "restore"} /\ file[Dest] # "old"
             /\ file' = [file EXCEPT ![Dest] = "none"]
    <3>. Aside' = Aside /\ dest' = "none"
      BY <2>5, SameAside
    <3>. QED BY <2>5 DEF Replacement!Withdraw, Aside, Settled
  <2>6. CASE /\ pc = "drop" /\ file[Dest] = "new"
             /\ file' = [file EXCEPT ![Backup] = "none"]
    <3>. Aside' \subseteq Aside /\ dest' = dest
      BY <2>6, ShrunkAside
    <3>. QED BY <2>6 DEF Replacement!Forget, Aside, Settled
  <2>. QED BY <1>3, <2>1, <2>2, <2>3, <2>4, <2>5, <2>6, Changes
<1>. QED BY <1>2, <1>3

(* Where looks tell the truth and nobody else writes, the upload           *)
(* implements FileReplacement, with any number of attempts.                *)
THEOREM Refinement == Spec => Replaces
<1>1. Init => Replacement!Init /\ NoOthers
  <2>. SUFFICES ASSUME Init PROVE Replacement!Init /\ NoOthers
    OBVIOUS
  <2>1. /\ \A p \in Place : p # Dest => file[p] = "none"
        /\ Dest \in Place /\ file[Dest] \in {"none", "old"}
        /\ pc = "connect"
    BY DEF Init, Place
  <2>. QED BY <2>1, Backups DEF Replacement!Init, NoOthers
<1>2. IInv /\ NoOthers /\ [Next]_vars => [Replacement!Next]_(Replacement!vars)
  BY StepReplaces
<1>. QED
  BY Invariance, NoOthersNext, <1>1, <1>2, PTL DEF Spec, Replaces, Replacement!Spec

(* So it loses no file, as nothing does that implements FileReplacement:   *)
(* the new contents are in place for good, or the old ones are somewhere.  *)
THEOREM NothingLostTheorem == Spec => Replacement!NothingLost
<1>. DEFINE dest == IF Alone THEN file[Dest] ELSE "none"
            aside == IF Alone THEN {file[<<"backup", a>>] : a \in 1 .. Attempts} \ {"none"} ELSE {}
            settled == Alone /\ (pc = "drop" \/ (pc = "done" /\ error = "none"))
            Final == settled => dest = "new"
            Kept == /\ settled' => dest' = "new"
                    /\ ~settled' /\ "old" \in aside \cup {dest} => "old" \in aside' \cup {dest'}
            State == <<dest, aside, settled>>
<1>1. Replacement!Init => Final
  BY DEF Replacement!Init
<1>2. Final /\ [Replacement!Next]_State => Final'
  BY DEF Replacement!Next, Replacement!SetAside, Replacement!Publish, Replacement!Withdraw,
         Replacement!Restore, Replacement!Settle, Replacement!Forget
<1>3. Final /\ [Replacement!Next]_State => [Kept]_State
  <2>. USE DEF Replacement!Next, Replacement!SetAside, Replacement!Publish, Replacement!Withdraw,
               Replacement!Restore, Replacement!Settle, Replacement!Forget
  <2>. SUFFICES ASSUME Final, Replacement!Next PROVE Kept
    OBVIOUS
  <2>1. settled' => dest' = "new"
    OBVIOUS
  <2>2. ASSUME ~settled', "old" \in aside \cup {dest} PROVE "old" \in aside' \cup {dest'}
    BY <2>2
  <2>. QED BY <2>1, <2>2
<1>. QED
  BY <1>1, <1>2, <1>3, Refinement, PTL
  DEF Replaces, Replacement!Spec, Replacement!vars, Replacement!NothingLost

------------------------------------------------------------------------------
(* Nobody gets as far as the backup without approval.                      *)
Asked == pc = "backup" => approved

LEMMA AskedNext == Asked /\ [Next]_vars => Asked'
<1>. SUFFICES ASSUME Asked, [Next]_vars PROVE Asked'
  OBVIOUS
<1>. approved' = approved
  BY SameGiven
<1>1. CASE \/ Connect \/ Upload \/ CheckStaged \/ DeleteDestination
            \/ DropBackup \/ DeleteStaged \/ Retry
  BY <1>1 DEF Connect, Upload, CheckStaged, DeleteDestination, DropBackup, DeleteStaged, Retry,
              Raise, Fail, Asked
<1>2. CASE LookForDestination
  BY <1>2 DEF LookForDestination, Fail, Asked
<1>3. CASE MoveSeen \/ MoveUnseen \/ CancelCommit \/ CheckCommitted
  BY <1>3 DEF MoveSeen, MoveUnseen, CancelCommit, CheckCommitted, Fail, Asked
<1>4. CASE AskMove \/ AskMoveAgain \/ Cancel \/ OtherWrites \/ UNCHANGED vars
  BY <1>4 DEF AskMove, AskMoveAgain, Cancel, OtherWrites, vars, Asked
<1>. QED
  BY <1>1, <1>2, <1>3, <1>4 DEF Next, Step

(* Where the backup cannot be under way, no step touches the original.     *)
LEMMA KeptStep ==
  ASSUME ~blind, ~others, IInv, [Next]_vars, pc # "backup", file[Dest] = "old"
  PROVE  file'[Dest] = "old"
<1>. /\ attempt \in 1 .. Attempts
     /\ file \in [Place -> Contents]
  BY DEF IInv, TypeInv, TypeOK, GivenOK
<1>. QED BY Changes, Places

LEMMA UnapprovedStep ==
  ASSUME Alone, ~approved, IInv, NoOthers, Asked, [Next]_vars,
         file[Dest] \in {"old", "other"}
  PROVE  file'[Dest] = file[Dest]
<1>1. Dest \in Place
  BY DEF Dest, Place
<1>2. file[Dest] = "old"
  BY <1>1 DEF NoOthers
<1>. QED BY <1>2, KeptStep DEF Alone, Asked

(* Without approval, whatever fails and however often it is tried, a file  *)
(* that is there stays there.                                              *)
THEOREM UnapprovedTheorem == Spec => UnapprovedKept
<1>1. IInv /\ NoOthers /\ Asked /\ [Next]_vars
        => [Alone /\ ~approved /\ file[Dest] \in {"old", "other"}
              => file'[Dest] = file[Dest]]_vars
  BY UnapprovedStep
<1>2. Init => NoOthers /\ Asked
  <2>. SUFFICES ASSUME Init PROVE NoOthers /\ Asked
    OBVIOUS
  <2>1. \A p \in Place : file[p] # "other"
    BY DEF Init
  <2>. QED BY <2>1 DEF Init, NoOthers, Asked
<1>. QED
  BY Invariance, NoOthersNext, AskedNext, <1>1, <1>2, PTL DEF Spec, UnapprovedKept

------------------------------------------------------------------------------
(* Where the original of a single attempt can be: under a backup's name    *)
(* only while it is to come back, or when the message says so.             *)
Single ==
  Alone /\ limit = 1 =>
    /\ pc = "backup" /\ file[Backup] # "none" => file[Dest] = "none"
    /\ pc \in {"commit", "committed", "delete"} /\ ~backedUp => file[Backup] # "old"
    /\ pc \in {"cleanup", "done"} /\ error \notin {"none", "mayRemain"} => file[Backup] # "old"

LEMMA SingleNext == IInv /\ Single /\ [Next]_vars => Single'
<1>. SUFFICES ASSUME IInv, Single, [Next]_vars, Alone, limit = 1 PROVE Single'
  BY SameGiven DEF Single, Alone
<1>. /\ attempt \in 1 .. Attempts /\ attempt = 1
     /\ file \in [Place -> Contents]
     /\ ~blind /\ ~others
     /\ TypeInv /\ Whole /\ Fresh /\ Known
  BY SMT DEF IInv, TypeInv, TypeOK, GivenOK, Alone
<1>. pc # "delay"
  BY DEF TypeInv
<1>. Alone' /\ limit' = 1
  BY SameGiven DEF Alone
<1>. USE Places
<1>1. CASE Connect \/ CheckStaged
  <2>. /\ attempt' = attempt /\ file' = file /\ file[Backup] = "none"
       /\ pc' \in {"upload", "exists", "cleanup", "done", "delay"}
    BY <1>1 DEF Connect, CheckStaged, Fail, Raise, Fresh
  <2>. QED BY SamePlaces DEF Single
<1>2. CASE Upload
  <2>. /\ attempt' = attempt /\ file[Backup] = "none"
       /\ pc' \in {"size", "cleanup"}
    BY <1>2 DEF Upload, Fail, Fresh
  <2>. file'[Backup] = "none"
    BY <1>2 DEF Upload
  <2>. QED BY SamePlaces DEF Single
<1>3. CASE LookForDestination
  <2>. attempt' = attempt /\ file' = file /\ file[Backup] = "none"
    BY <1>3 DEF LookForDestination, Fresh
  <2>. QED BY SamePlaces DEF Single
<1>4. CASE AskMove \/ AskMoveAgain
  <2>. /\ attempt' = attempt /\ pc' = pc /\ pc \in Moves /\ backedUp' = backedUp
    BY <1>4 DEF AskMove, AskMoveAgain
  <2>1. CASE pc = "backup"
    <3>. file' = file \/ file'[Dest] = "none" \/ file'[Backup] = "none"
      BY <1>4, <2>1, MoveEffects, MoveEnds
    <3>. QED BY <2>1, SamePlaces DEF Single
  <2>2. CASE pc = "commit"
    <3>. file'[Backup] = file[Backup]
      BY <1>4, <2>2, MoveEffects, MoveEnds
    <3>. QED BY <2>2, SamePlaces DEF Single
  <2>3. CASE pc = "restore"
    BY <2>3, SamePlaces DEF Single
  <2>. QED BY <2>1, <2>2, <2>3 DEF Moves
<1>5. CASE MoveSeen
  <2>. attempt' = attempt /\ file' = file
    BY <1>5 DEF MoveSeen
  <2>1. CASE pc = "backup"
    <3>. pc' = "commit" /\ backedUp' = TRUE
      BY <1>5, <2>1 DEF MoveSeen
    <3>. QED BY SamePlaces DEF Single
  <2>2. CASE pc = "commit"
    <3>. pc' = "committed" /\ backedUp' = backedUp
      BY <1>5, <2>2 DEF MoveSeen
    <3>. QED BY <2>2, SamePlaces DEF Single
  <2>3. CASE pc = "restore"
    <3>. pc' = "cleanup" /\ file[Backup] = "none"
      BY <1>5, <2>3, TrueVerdict, MoveEnds DEF MoveSeen, Fail
    <3>. QED BY SamePlaces DEF Single
  <2>. QED BY <1>5, <2>1, <2>2, <2>3 DEF MoveSeen
<1>6. CASE MoveUnseen
  <2>. attempt' = attempt /\ file' = file /\ backedUp' = backedUp
    BY <1>6 DEF MoveUnseen
  <2>1. CASE pc = "backup"
    <3>. pc' = "cleanup" /\ ~(file[Dest] = "none" /\ file[Backup] # "none")
      BY <1>6, <2>1, TrueVerdict, MoveEnds DEF MoveUnseen, Fail
    <3>. file[Backup] = "none"
      BY <2>1 DEF Single
    <3>. QED BY SamePlaces DEF Single
  <2>2. CASE pc = "commit"
    <3>. pc' = "delete"
      BY <1>6, <2>2 DEF MoveUnseen
    <3>. QED BY <2>2, SamePlaces DEF Single
  <2>3. CASE pc = "restore"
    BY <1>6, <2>3, SamePlaces DEF MoveUnseen, Fail, Single
  <2>. QED BY <1>6, <2>1, <2>2, <2>3 DEF MoveUnseen
<1>7. CASE CancelCommit \/ CheckCommitted
  <2>. /\ attempt' = attempt /\ file' = file /\ backedUp' = backedUp
       /\ pc \in {"commit", "committed"} /\ pc' \in {"delete", "drop"}
    BY <1>7 DEF CancelCommit, CheckCommitted
  <2>. QED BY SamePlaces DEF Single
<1>8. CASE DeleteDestination
  <2>. /\ attempt' = attempt /\ pc = "delete" /\ file'[Backup] = file[Backup]
       /\ \/ backedUp /\ pc' = "restore"
          \/ ~backedUp /\ pc' = "cleanup"
    BY <1>8 DEF DeleteDestination, TryDelete, Fail, TypeInv, TypeOK
  <2>. QED BY SamePlaces DEF Single
<1>9. CASE DropBackup
  BY <1>9 DEF DropBackup, Single
<1>10. CASE DeleteStaged
  <2>. /\ attempt' = attempt /\ pc = "cleanup" /\ file'[Backup] = file[Backup]
       /\ pc' \in {"delay", "done"} /\ error' = error
    BY <1>10 DEF DeleteStaged, TryDelete, Raise
  <2>. QED BY SamePlaces DEF Single
<1>11. CASE Retry
  BY <1>11 DEF Retry
<1>12. CASE OtherWrites
  BY <1>12 DEF OtherWrites
<1>13. CASE Cancel \/ UNCHANGED vars
  BY <1>13, SamePlaces DEF Cancel, vars, Single
<1>. QED
  BY <1>1, <1>2, <1>3, <1>4, <1>5, <1>6, <1>7, <1>8, <1>9, <1>10, <1>11, <1>12, <1>13
     DEF Next, Step

(* After a single attempt that fails, the original is under its own name,  *)
(* or the message says where it may be.                                    *)
THEOREM FindableTheorem == Spec => []Findable
<1>1. Init => Single
  BY DEF Init, Single
<1>2. IInv /\ Single => Findable
  <2>. SUFFICES ASSUME IInv, Single, limit = 1, Alone, pc = "done",
                       error \notin {"none", "mayRemain"},
                       NEW p \in Place, file[p] = "old"
                PROVE  file[Dest] = "old"
    BY DEF Findable
  <2>1. attempt = 1 /\ attempt \in 1 .. Attempts
    BY SMT DEF IInv, TypeInv, TypeOK, GivenOK
  <2>2. file[Backup] # "old"
    BY DEF Single
  <2>3. \A a \in 1 .. Attempts : file[<<"upload", a>>] # "old"
    BY DEF IInv, Whole
  <2>4. \A a \in 1 .. Attempts : file[<<"backup", a>>] # "old"
    <3>. TAKE a \in 1 .. Attempts
    <3>1. CASE a = attempt
      BY <3>1, <2>2 DEF Backup
    <3>2. CASE a > attempt
      BY <3>2 DEF IInv, Fresh
    <3>. QED BY <2>1, <3>1, <3>2
  <2>. QED BY <2>3, <2>4 DEF Place, Role
<1>. QED
  BY Invariance, SingleNext, <1>1, <1>2, PTL DEF Spec
================================================================================
