# A TLA+ model of XeCLI

XeCLI (`src/`) is a Windows toolkit for Xbox 360 consoles. A command line and a terminal window talk
to a console over XBDM and FTP, a FATX library reads, changes and repairs local disks and images, and
XeCLI-XellFetch is a payload that runs on the console and hands out its NAND over HTTP.
Most of its code is front end, formats and layout. What is hard to get right, and what these modules
are about, is the code in which the *order of steps* decides: writes to a disk that may be cut short
anywhere, moves on a server whose replies may be lost, retries on top of what a failed attempt left,
rollbacks that may fail themselves, callers that share one stream of replies.

Seven parts are modelled: the FATX chain map editor, the FATX directory editor and mutation service
on top of it, the FATX chain map repair, the staged FTP upload, the payload's web server, the NAND dump
together with the payload's status screen and automatic reboot, and the XBDM connection.

Contents: [1 The system](#1-the-system) · [2 The modules](#2-the-modules) · [3 The runs](#3-the-runs) ·
[4 The proofs](#4-the-proofs) · [5 What the code does that its documents do not say](#5-what-the-code-does-that-its-documents-do-not-say) ·
[6 What is assumed and what is left out](#6-what-is-assumed-and-what-is-left-out) · [7 Plan](#7-plan)

Paths below are relative to `src/src/` unless they start with `wiki/`, which is `src/wiki/`, or `lv2/`,
which is `src/XeCLI-XellFetch/source/xell/source/lv2/`.

## 1 The system

### How the parts interact

```
 command line / terminal form (one process each; the terminal starts commands as processes)
   |              |                 |                     |
   | XBDM calls   | FTP calls       | fatman commands     | configuration, stores (files)
   v              v                 v                     v
 XbdmClient     FluentFTP client  FatxMutationService    AtomicFileWriter
   |  one TCP     |  control and    |  FatxDirectoryEditor
   |  connection  |  data           |  FatxAllocationTableEditor   FatxRepairService
   v              v                 v                               |
 console        console's server  FatxVolume: a disk or image  <----+

 NandDumpCommand, XellHelpers --- one HTTP request after the other ---> XellFetch payload
                                                      httpd.c (answers) and xecli_branding.c
                                                      (screen, reboot), polled by main.c's loop
```

Calls are C# `async` methods, awaited by their callers. There is no thread that shares the FATX state:
a volume is opened for one writer, and one operation is awaited before the next one starts. The FTP
server is shared with other clients and with the console itself. The terminal form runs many
activities of its own, interleaved at their awaits on one UI thread. The payload is C without threads:
its main loop polls lwIP, which calls the web server back, and then looks whether a reboot is due.

### Parts, their state and what makes them correct

| Part | State | Operations | What is hard | What makes it correct |
|---|---|---|---|---|
| Chain map editor, `Xbox360.Fatx/Writing/FatxAllocationTableEditor.cs` | the chain map on the disk | allocate a chain, append a cluster, free a chain, read a chain | every entry is written by an await of its own: an exception or a crash can come between any two; damaged images | chains stay disjoint and lead nowhere free; an allocation takes nothing that is in use; walks end |
| Directory editor and mutation service, `Xbox360.Fatx/Writing/FatxDirectoryEditor.cs`, `FatxMutationService.cs` | directory records and file clusters | put, mkdir, rm (recursive), mv | several dependent writes per operation; space runs out half way; clusters beyond the end of the stream | names unique, chains owned by one record, nothing leaks, no other path disturbed, every operation does what it was asked and ends |
| Repair, `Xbox360.Fatx/Repair/FatxRepairService.cs` | the chain map it read, and what it still has to zero | analyse, zero | decides once and writes one by one; can be cut short and started again | gives back all that belongs to nobody, touches nothing else |
| Staged upload, `Xbox360.Remote.Cli/Commands/FtpCommands.cs` | staged, backup and destination names on the server | upload, check, back up, move in, roll back, retry | calls that take effect without a reply; looks that miss files; cancellation; other writers; failures of the rollback | no partial file under the name, the original is never lost, and what the user is told is true |
| FTP download, same file 669-767 | local staged, backup and destination files | download, check, replace | the local replacement is delete, then move | the local file is old or new |
| FTP listing and recursive delete, same file 435-455, 1824-1850 | none | list with fallbacks, delete what was listed | a fallback may list another directory than the one asked for | deletes only what is below the path |
| XBDM connection, `Xbox360.Remote/XbdmClient.cs` | one TCP stream, a lock | requests with replies of a line, several lines or binary data | a call that times out leaves the rest of its reply in the stream; disposal while callers wait | a caller gets the reply to its own request |
| NAND dump, `Xbox360.Remote.Cli/Commands/NandDumpCommand.cs`, `XellHelpers.cs`, `XellWorkflowHelpers.cs` | the pass, the sessions the reads were taken in, how they were verified | read, reboot or stay, read again, compare, package, report to the payload | requests without an answer; a probe that misses; a console that reboots when it likes | no reboot before the result is safe, the report is true, it ends |
| Payload screen and reboot, `lv2/xecli_branding.c`, `lv2/main.c` | the screen's state, a pending reboot | start, result, failure, reboot requests; the main loop | requests that come late, twice, or before the main loop begins | the screen tells the truth, an announced reboot comes |
| Payload web server, `lv2/httpd/httpd.c` | a ring buffer and two state machines per connection | request, answer, poll, sent, close, abort | sends that TCP takes a part of or none; callbacks in any order | the client is sent the answer, whole and in order; memory is released once |
| Line reader, `Xbox360.Remote/XbdmProtocol.cs` | a buffer | read a line, read bytes | lines split between reads, buffer full | the bytes come out as they went in |
| Terminal session, `Xbox360.Remote.Cli/Commands/XeCliTerminalForm.cs` | session, flags, telemetry, output queue | connect, command, transfer, poll, reconnect, close | all of them interleave at awaits | results go to the session they belong to; one transfer at a time |
| Configuration and stores, `Xbox360.Remote.Cli/CliConfig.cs`, `AtomicFileWriter.cs`, the stores in `Commands/` | JSON files | load, change, save | two processes; unreadable files | no update is lost, no store is emptied |
| Transition verifier, `Xbox360.Remote.Cli/XbdmTransitionVerifier.cs` | what the polls saw | poll until another title or a reconnection is seen | one failed poll counts as a disconnect | success means a transition |

The remaining parts (XBDM and FATX command front ends, JRPC2, discovery, rich presence, batch runner,
command log, content packages, conversions, installer, Ghidra and IDA bridges, the XeTerminal
launcher, the payload's boot and hardware code) are listed with their sources in `PROJECT.json`. They are sequential front ends over the parts above, pure functions on formats, or
hardware code; section 6 says why each group is left out.

### Hazards

`PROJECT.json` lists 40 places where this code can go wrong in a way a test would hardly reach, each
with its line. Those of the modelled parts name the properties that cover them; where a property is
stated up to some case, or no property covers the hazard, a note says so. Smaller ones of parts that
are not modelled are left to section 7.

## 2 The modules

| Module | Models | Uses |
|---|---|---|
| `FatxAllocation` | the chain map editor | - |
| `FatxAllocationProofs` | its theorems | `FatxAllocation` |
| `FatxChain` | which clusters a chain of a chain map has, as a reader finds them | - |
| `FatxChainProofs` | what follows from that loop: the lemmas the proofs about chains rest on | `FatxChain` |
| `FatxMutation` | directory editor and mutation service | `FatxChain`; instance of `FatxAllocation` (`Editor`), sharing its variables |
| `FatxMutationInv` | its inductive invariants, part by part | `FatxMutation`, `FatxChainProofs`; instance of `FatxAllocationProofs` (`EP`) |
| `FatxMutationProofs` | its theorems | `FatxMutationInv` |
| `MCFatxMutation` | the symmetry of the names, for TLC | `FatxMutation` |
| `FatxRepair` | the repair | `FatxChain`; instance of `FatxAllocation` (`Editor`) |
| `FatxRepairProofs` | its theorems | `FatxRepair`, `FatxChainProofs` |
| `FileReplacement` | abstract: what replacing a file under its name promises | - |
| `FtpUpload` | the staged upload | instance of `FileReplacement` (`Replacement`), a refinement mapping |
| `FtpUploadProofs` | its theorems | `FtpUpload` |
| `HttpAnswer` | abstract: what a server promises of the bytes of an answer | - |
| `XellHttp` | one connection of the payload's web server | instance of `HttpAnswer` (`A`), a refinement mapping |
| `MCXellHttp` | the answers, for TLC | `XellHttp` |
| `XellHttpProofs` | its theorems | `XellHttp` |
| `XellPayload` | the payload's screen and automatic reboot, and the console's boots | - |
| `XellDump` | the NAND dump, at work with the payload | `XellPayload` |
| `XellDumpProofs` | its theorems | `XellDump` |
| `XbdmSession` | the XBDM connection and the callers that share it | - |
| `XbdmSessionProofs` | its theorems | `XbdmSession` |

### FatxAllocation

`fat` is the chain map on the disk: 0 for a free cluster, `END` for the last cluster of a chain, the
next cluster otherwise, and `BAD` for anything else (the chain map of a damaged image). The other
variables are the local variables of the one operation that may be in progress: `task` says which loop
it is in, `got` and `written` belong to `AllocateChainAsync`, `cur` and `visited` to the walks of
`GetChainAsync` and `FreeChainAsync`, `tail` is the cluster `AppendClusterAsync` will link.

One action is one write to the disk (`AllocateLink`, `AllocateEnd`, `AppendLink`, `FreeStep`), or one
step of a walk (`WalkNext`, `WalkEnd`). `Interrupt`, enabled whenever an operation is in progress, is
an exception, a cancellation or the end of the process: the locals go, the disk stays. `ThrowCorrupt`
is the code's own exception for a loop or an entry outside the chain map.

The callers are abstracted to `heads`, the first clusters they hold: they free or extend only a chain
they hold. `FatxMutation` is checked to keep this contract (`ContractKept`).

`torn` is a history variable: an allocation was cut after its first link. What it leaves (a link into
free space) is a hazard of the code that has no remedy but the repair, so the properties about well
formed chain maps speak of volumes on which it has not happened; the properties about damaged chain
maps (`UsedEntriesKept`, `OperationsEnd`, `TypeOK`) speak of every volume: `AnyImageSpec` starts from
the formatter's chain map or from any chain map at all.

### FatxMutation

The chain map variables are those of `FatxAllocation`, whose actions this module takes as they are.
`disk` is what each cluster holds: directory records, or a payload. `pc` is the write the service does
next once the editor is idle, `op` its local variables. Reads change nothing and there is one writer,
so the reads between two writes are evaluated at the second one.

* `PutFile` .. `WriteRecord` follow `PutFileAsync`: give back the old chain (48), allocate (54), fill
  cluster by cluster (55-60), find a slot (63), write the record (69).
* `CreateDirectory` joins the same path at the allocation.
* `WritableRecord`, `Editor!AppendLink`, `ClearAppended` are `GetWritableRecordOffsetAsync`: the record
  that is replaced, a free one, or a cluster linked to the directory *before* it is cleared (121-122).
* `Delete`, `DeleteChild`, `DeleteChain`, `MarkDeleted` are `DeleteAsync`; `op.stack` is its recursion.
* `Move`, `Rename`, `Unlink` are `MoveAsync`; an overwritten destination is deleted first (159), which
  uses the actions of `DeleteAsync`.
* `Interrupt` can come before every one of these writes.

Two ways of reading a directory are kept apart because the code has both: `Slots` is what the editor
sees (`OpenDirectoryAsync` reads every cluster of the chain) and `ShownSlots` what a reader is shown
(`FatxClusterChainStream` stops at the first cluster beyond the end of the stream). `LastCluster` is the
last one inside it: `FatxVolumeHeader.TotalClusters` may count more.

`state` is a history variable. It is `leaky` once an interruption may have left clusters no record
names, `hurt` once a record may name freed clusters, two records one chain, or a directory a cluster
that was not cleared (the operator `Breaks` names the places). The model follows a volume up to its
first damage: what the editor does on a damaged one is `AnyImageSpec` and `FatxRepair`.

### FatxRepair

`AnalyzeAsync` with `applyRepairs`, on any chain map and any small tree of records. `entries` is the
chain map it read; `invalid`, `todo` and `orphaned` are what its three loops still have to do; each
write is an action, in the order of the loops (ascending). The second loop frees a chain with the
editor's own `FreeStep`, which follows the chain as it is *now* and can throw (`FreeThrows`). `Crash` cuts
the run short; it can be started again, at once or after it finished.

### FileReplacement and FtpUpload

`FileReplacement` says what replacing a file under its own name promises, whoever does it: the name
shows the old contents, the complete new ones or nothing; what it showed is set aside first; what is
set aside is given up only when the new contents are in place for good.

`FtpUpload` is `UploadFileVerifiedAsync` without resume, around `UploadFileAtomicAsync`,
`CommitStagedRemoteFileAsync`, `MoveRemoteFileObservedAsync` and `MoveFileVerifiedAsync`. `file` maps each
name on the server to what is there: the destination, and a staged and a backup name per attempt (the
names carry a fresh identifier). `pc` is the call the attempt is at. A call can fail before it takes
effect, or after it with the reply lost: `AskMove` chooses what happened to the files, and only
`MoveSeen` and `MoveUnseen`, by looking at both names as the code does, decide what the upload believes.
`blind` says that a look may miss a file that is there (`RemoteFileExistsAsync` answers false when all
its ways of asking fail), `others` that somebody else creates the destination while it is absent.
`approved`, `limit`, `blind` and `others` are chosen at the start and never change. `found` remembers what
was at the destination when the attempt looked. The process may stop anywhere, so the properties of
all states say what it leaves behind.

The refinement maps `dest` to the file under the destination's name, `aside` to what is under backup
names, and `settled` to "the new size was seen under the name": everything before can be rolled back.
With looks that miss files, or with other writers, the upload does *not* implement `FileReplacement`
(it may take the backup for moved when it is not), so the mapping is constant in those runs and
weaker properties speak of them (`NeverPartial`, `OriginalKept`, `SuccessIsReal`, `RestoredIsTrue`).

### HttpAnswer and XellHttp

`HttpAnswer` says what is promised of the byte stream a server hands to TCP: the bytes of the answer in
order, none twice and none left out, and an end declared by the server only after the last one.

`XellHttp` is one connection of `lv2/httpd/httpd.c`. `client` and `server` are its two state machines
(`state_client`, `state_server`), `buf`, `rd` and `wr` the ring, `piece` how far the handler is; `http`,
`handler`, `priv` and `finishes` account for the memory; `given` is what `tcp_write` took and `acked` what
came back. An action is one callback of lwIP:

* `ReceiveRequest`, `StartResponse` are `http_recv` with the request line and with the empty line after
  the headers; `ClientCloses` is `http_recv` without data.
* `WriteAndSend` is `httpd_handle_server` followed by the rest of `send_data`: it fills the ring with as
  many whole pieces as `httpd_available_sendbuffer` allows, and hands over *one* run of bytes, up to the
  ring's end. `Accepted` is the loop of `tcp_do_send`, which halves the length while TCP has no memory.
* `Acknowledged` is `http_sent`, which goes on sending and, after the last byte, closes.
* `PollAborts`, `PollSends` are `http_poll`: it tries a stuck send again, four times, and aborts what has
  been closed. `Reset` is `conn_err`.

An answer is a sequence of pieces written whole; `MCXellHttp` has the three kinds of handlers there
are: pages (flash), single bytes (static text, fuses, key vault) and lines (index).

### XellPayload and XellDump

`XellPayload` has no behaviour of its own but `MainLoop`, `AutoReboot` and `Boot`; `Handle` is what a request
does to it. `screen` is the state `xecli_branding.c` shows, `pending` the scheduled reboot, `session` counts
the reboots. The countdown of about five seconds is abstracted to "at any time".

`XellDump` is `NandDumpCommand.ExecuteAsync` from the found XeLL to its end. `pc` is the place in it (the
list `Places`), `try` the path tried of the list of paths a helper has, `late` the requests the client gave
up on that the payload may still handle, in any order and after later ones, but not after a reboot,
which ends their connections. `Unanswered` is a request that is lost or becomes late. A probe
(`TryProbeXellAsync`) may miss a XeLL that is there and never finds one that is not. A read begins in a
session and succeeds only in the same one; whether it equals the reference is a choice.

### XbdmSession

`holder` and `queue` are `ioLock`, a `SemaphoreSlim` that wakes the longest waiting caller. A caller's
`phase` is where its call is; `own` numbers its last command and `got` is the command whose status line
it took. `stream` has the lines on their way, each tagged with the command it answers, which the
client cannot see: `ReadResponse` only looks at the line's kind. The operations are those with one line
(`SendCommandAsync`), with a body (`SendCommandMaybeLinesAsync`), chunked (`WriteMemoryAsync`), and the "bye"
of `DisposeAsync`. `GiveUp` is a timeout, a cancellation or an exception anywhere in a call: the lock is
released, what was under way stays on the stream. `abandoned` is a history variable: some call ended
before its command's status line was taken.

## 3 The runs

Each cfg gives constants to the module named; `tlc -workers 2 -config X.cfg M` runs it.

| Run | Module / cfg | Distinct states | Shows |
|---|---|---|---|
| `fatx_allocation` | `FatxAllocation` / `FatxAllocation.cfg` | 247,538 | On a formatted volume chains stay disjoint, lead nowhere free and never raise the corruption exceptions, whatever is interrupted outside an allocation. On *every* chain map of four clusters an allocation redirects nothing that is in use, and every operation ends. |
| `fatx_mutation` | `MCFatxMutation` / `FatxMutation.cfg` | 473,446 | The tree: chains exclusive, names unique, nothing leaks unless an operation is cut, moves keep their chain, the editor's contract is kept. |
| `fatx_contents` | `FatxMutation` / `FatxContents.cfg` | 122,642 | What a reader is shown: no path but the one asked for changes, puts and mkdirs take effect, operations end. |
| `fatx_repair` | `FatxRepair` / `FatxRepair.cfg` | 242,100 | The repair gives back all that belongs to nobody, touches no chain in use but the root directory's later clusters, and gets there however often it is cut. |
| `ftp_upload` | `FtpUpload` / `FtpUpload.cfg` | 132,987 | The upload: see below. |
| `xell_http` | `MCXellHttp` / `XellHttp.cfg` | 6,166 | What TCP is given is the answer, however sends are cut; the handler finishes once; a complete request is answered or its connection ends. |
| `xell_dump` | `XellDump` / `XellDump.cfg` | 91,145 | No reboot before the result is confirmed, a true screen, an end of the command and of every announced reboot, whatever is lost or late. |
| `xbdm_session` | `XbdmSession` / `XbdmSession.cfg` | 143,609 | A call has the connection to itself and gets its own reply unless an earlier one was abandoned; calls end. |
| `fatx_put_no_space`, `fatx_repair_root`, `ftp_none_left`, `xell_missed_exit` | | | One counterexample each, section 5. |

### Bounds, and why they are enough

* `FatxAllocation.cfg`: four clusters, chains of up to three asked for at a time. A chain of three and
  a chain beside it, an append to each, a loop of any length up to four, and a full volume all occur.
  The safety properties are proved for every number of clusters, so the run's part is liveness.
* `FatxMutation.cfg`: five clusters, the last of them beyond the end of the stream, one record per
  cluster, so that the second entry of a directory already extends it; files of zero to two clusters,
  two names, paths of up to two names. A put that replaces a longer file, a delete of a directory with
  a child, a move between directories that extends the target, an extension beyond the end of the
  stream, and running out of space at every allocation occur. Names are symmetric: nothing orders or
  chooses among them.
* `FatxContents.cfg`: two records per cluster and two payloads, so that a write to the wrong slot and a
  cluster's previous contents show; three clusters, all within the stream, in exchange. No symmetry:
  it checks liveness.
* `FatxRepair.cfg`: every chain map of three clusters, up to two records in the root directory and one
  in another directory, one crash. Every shape an orphaned chain can have on three clusters (with a
  head, a loop, leading into a live chain, into an invalid entry) occurs. A second crash meets a
  volume like that of the first, because the initial states are *all* chain maps. `LiveKept` and
  `AllReclaimed` are proved for every size.
* `FtpUpload.cfg`: three attempts, the code's `ReconnectAttempts` (FtpCommands.cs:18), or one, as
  the terminal makes. The safety properties are proved for any number.
* `XellHttp.cfg`: a ring of nine bytes of which three are held back (`SENDBUFFER_LEN` is 40960 and the
  spare 10), a send buffer of four (8 * 1476), the code's four polls, answers of twelve to eighteen
  bytes. Each answer goes around the ring's end, one of them twice; a piece that uses the spare, a
  full ring, a send cut to a half and to nothing, and an abort in the middle occur. The safety
  properties are proved for every size.
* `XellDump.cfg`: two verification passes instead of four, two paths instead of two to five, two late
  requests. A pass that fails and one that succeeds, a path that fails before one that works, a late
  request overtaken by another, and a reboot between two reads occur. The safety properties are
  proved for any number.
* `XbdmSession.cfg`: two callers and three calls, so that a call follows one that was abandoned while
  another waits; two tries for a status line instead of ten and bodies of zero and two lines, so that
  a left body is skipped, or is too long to be; two chunks. Proved for any number.

`CHECK_DEADLOCK FALSE` appears where the system really stops: an upload, a dump or a connection that has
ended, a disposed session, a volume that is `hurt`, which the model does not follow.

### Fairness

* `FatxAllocation` and `FatxMutation`: weak fairness of the steps of an operation in progress. The
  service awaits one disk access after the other; each completes or throws, and a throw is
  `Interrupt`, which ends the operation too. No fairness on starting operations.
* `FatxRepair`: the same, and weak fairness on starting it, for `Converges` says what happens when
  somebody runs the repair again and again. Crashes are bounded by `MaxCrashes`.
* `FtpUpload`: weak fairness of `Step`. The caller awaits the upload, and every call to the server has
  a timeout. None on `Cancel` and `OtherWrites`.
* `XellHttp`: bytes in flight are acknowledged, or TCP gives up on them after its retransmissions
  (`Reset`), and lwIP's slow timer calls `http_poll`. Nothing is assumed of the client: it need not send
  its request, close or reset.
* `XellDump`: the command goes on, because every request, probe and wait has a timeout; the main loop
  begins and looks for a due reboot for ever; the console obeys the request to reboot in the end, which
  the loop repeats, and comes back. None on late requests.
* `XbdmSession`: a call that holds the connection goes on or gives up, for every read has a timeout
  (`XbdmLineReader.ReadAsync`). None on the console's answers or on beginning calls.

### What the properties say

Beside one type invariant per module:

* `ChainsDisjoint`, `NoLinkIntoFreeSpace`, `NeverCorrupt`: together they are why freeing one file can
  never release a cluster of another, and why a chain never grows into the next allocation. The one
  exception, the link an allocation in progress wrote last, is stated as part of the property.
* `UsedEntriesKept`: holds on damaged images as well, where nothing else does.
* `ChainsExclusive`, `NamesUnique`, `NoLeak`: the same guarantees seen from the directory tree.
* `Undisturbed`: compares what *every* path shows before and after *every* write, interrupted
  operations included.
* `WritesTakeEffect`, `MoveKeepsChain`: the operations do their job.
* `ContractKept`: the composition. The service's steps are steps of `FatxAllocation`, so what is proved
  there for an abstract caller holds for this one.
* `AllReclaimed`, `Converges`: the repair gives back all that belongs to nobody, on every volume. What
  belongs to somebody, `Live`, is stated apart from what the code counts as referenced: the *whole* chain
  of the root directory, which every listing reads, and the chains of the records a reader is shown.
* `LiveKept`: the repair touches nothing of that, under the premise `Apart` that nothing else leads into a
  chain in use, and except for `RootTail`, the root directory's later clusters. Without the premise it does
  free clusters of files, and it does zero the root directory's later clusters: `RootKept` says it should
  not, on a healthy volume, and is violated (section 5).
* `NeverPartial`: in every state, with looks that miss files, with other writers, and wherever the
  process stops.
* `OriginalKept`: no step destroys the original before the complete new file is in place.
* `SuccessIsReal`, `RestoredIsTrue`, `Findable`: what the user is told is so. `Findable` speaks of a
  single attempt; over several the message can be lost (section 5).
* `UnapprovedKept`: without `--overwrite`, a file that is there is not changed, over all attempts, where looks tell
  the truth and nobody else writes.
* `Replaces`: every step of the upload is a step, or a stutter, of `FileReplacement`.
* `AnswersWhole`: every step of the server is a step, or a stutter, of `HttpAnswer`.
* `FinishedOnce`: memory and the handler's life, under every order of callbacks.
* `Answered`: the liveness of the server, up to the one state it does not get out of, `Stalled`.
* `RebootGated`: "Auto reboot only happens after XeCLI has confirmed the dump" (xecli_branding.c:1067),
  with requests that are lost and late. Where the second read is to be taken in another session a
  reboot is asked for before that, which the property allows.
* `ScreenTrue`: screen and command agree, a failed job is not wiped by a reboot.
* `Departs`: who reads "rebooting" on the screen does not wait in vain.
* `Exclusive`: the composition of lock and stream. Nothing in a reply says whose it is, so the property
  holds by counting lines, and says up to which event.
* `OperationsEnd`, `Ends`, `CallsEnd`: liveness. `CallsEnd` leaves out who waits for the lock when the
  connection is disposed of: nobody wakes it.

Every property of a passing run has a mutant in `PROJECT.json`: a plausible bug in the operator that
models the code, under which TLC finds that property violated.

## 4 The proofs

`tlapm M.tla` proves the theorems of module `M` for every value of the constants that satisfies the
named assumptions: `ClusterAssumption` (at least one cluster), `RootAssumption` (the root's cluster is one
of them), `EndAssumption` and `BadAssumption` (the marks are no clusters), `ChainAssumption` and
`AttemptsAssumption`; `VolumeAssumption` says the same of the volume in `FatxMutation` and `FatxRepair`, and
`FatxMutation` names the rest: the stream ends at or behind the root's cluster (`LastAssumption`), a
directory cluster holds a record (`SlotAssumption`), a free record has no name (`NameAssumption`), the
contents of a file are not taken for records (`PayloadAssumption`). They say what the formatter and the
header guarantee, no more; TLC evaluates them in the runs.

**Chains** (`FatxChainProofs`). `Reach` follows a chain by a function on the number of steps, as the
reader's loop does. That such a function *exists*, so that its values are what its definition says, is
proved by building it step by step (`Iterate`); the induction is on sets of numbers (`Least`, from the
library's well-founded minimum, and `Induct`), which needs no operator as a parameter. From then on the
other proofs see `Reach` as a least fixed point: `ReachIn` and `ReachClosed` (the chain holds its first
cluster, and where its entries lead), `ReachLeast` (it is within every set that does), and what follows
(`ReachPred`, `ReachSame`, `ReachFewer`, `ReachApart`). `ReachClosed` is the one with a thought: the loop
takes one step per cluster of the volume, and until nothing new is met each step meets a new one.
A chain map is `Acyclic` when every set of clusters has one that follows none of them; then every
cluster lies in a chain that starts at a cluster nothing leads to (`AcyclicRoots`), and an entry that is
made to lead nowhere, or to the end of a chain, closes no loop (`AcyclicChange`).

**Chain map editor** (`FatxAllocationProofs`).

* `TypeCorrect` and `UsedEntriesTheorem` hold from *any* chain map (`AnyImageSpec`). Types alone are not
  inductive: `TypeInv` adds how far each operation is (`Progress`), that the clusters
  `FindFreeClustersAsync` chose and that are not yet written are still free and distinct
  (`ChosenStillFree`), and that the chain being extended still ends where it did (`TailStillLast`). This is
  the formal content of "one writer": what was read before an await still holds after it.
* `DisjointTheorem`, `FreeSpaceTheorem`, `NeverCorruptTheorem` hold from a formatted volume. Disjointness
  is not inductive by itself, because a chain under construction and a chain half freed break the
  pattern. `Sound` says how: `Links` (no two entries alike, no link into free space but the last one
  written), `Heads` (held chains begin in use and have no predecessor), `NewChain` (what is built
  belongs to nobody yet and ends at the next cluster to write), `WalkPath` (a walk has come from a
  head: every cluster it saw is a head or succeeds one it saw, so with injective links it cannot
  return), `FreePath` (what is left of a chain being freed begins where the loop stands and nothing
  leads there). One step of the proof per action, one below it per part.

**Mutation service** (`FatxMutationInv`, `FatxMutationProofs`). `IInv` is `TypeInv`, which every state satisfies, and `Sem`,
which holds until the volume is `hurt`. `TypeInv` says the shape of an operation at each of its steps: which
editor task belongs to which step (`TaskOf`), which operation takes it and what it has by then (`StepOf`),
that the records it is about to write lie in directory clusters (`SlotOf`); with it goes the editor's own
`TypeInv`. `Sem` contains the editor's `Sound` (section above) and

* `ChainsHeld`: every record, save the one whose chain is just being given back or has been moved
  (`Loose`), holds a chain of its own, whose first cluster is one of the editor's `heads`. This is what
  makes the service keep the editor's contract, and through `Sound` and `ReachApart` what makes chains
  exclusive;
* `NamesApart`: names are unique in every directory a record or the operation holds, but for a cluster
  that is linked and not yet cleared (`Cleared`);
* `NewClusters`: the clusters of the new file are a chain nobody else holds, filled as far as the loop
  has come;
* `ParentHeld`: what the operation found at its start (its directory, that the name is not taken, where
  the record will go) still holds at every later write. This is the step where interleaved operations
  would break the code, and one writer does not;
* `Replaced`, `Freeing`, `Moving`: the record that is replaced, the chain that is given back from the
  front, and the record that moves with the directory it lies in; `Moving` says which move damages the
  volume and why the others do not.

There is one lemma per action (`PutFileSem` .. `MarkDeletedSem`, `AllocateLinkSem` .. `FreeStepSem`), over lemmas
that say what its step changes. The editor's part of `Sem` is not proved again: its steps are those of
`FatxAllocationProofs`. The theorems are `TypeCorrect`; `ContractTheorem` (up to the first damage each step
is one of `FatxAllocation`); `ExclusiveTheorem` and `UniqueTheorem`, which carry `ChainsHeld` and
`NamesApart` over to what paths lead to; and `MoveTheorem`.

`Sem` speaks of records and chains. `UndisturbedTheorem` and `WritesTheorem` are about paths, which an
operation reads at its start and never again: they need that the path still leads where it led. `Ways` says
it, and is the second half of the inductive invariant `WInv` (`IInv` is the first):

* `Calm` are the paths outside the operation: not below its targets, or, in a recursive deletion, not below
  the path on top of the stack. `CalmHeld`: what a calm path leads through are records that stay (`Held`).
* `InPlace`, `OldPlace`, `Aside`: the operation's directory is the one its target leads to by a calm path,
  the record that moves has the name of a target, and no target is above the directory of another.
* `Stack`: each frame of a deletion names a record under its path, the directory of every frame but the
  last is the one its path leads to, and what is left in it is still to be deleted or is the next frame.
* `Placed`: every record is in a directory in use, behind no cluster that is still to be cleared.

Two calm paths lead to different directories (`CalmApart`), so a slot the operation writes to has no calm name
(`SpotAside`). `SteadyPaths` draws the conclusion once for all steps, by induction on the length of a path: a
step that touches only such slots, and no entry or cluster of a chain another record holds, leaves every
calm path as it was. One lemma per kind of write brings a step under it (`SameSteady`, `MapSteady`,
`DataSteady`, `AppendSteady`, `FreeSteady`, `WrittenSteady`), and one per action shows `Ways` again (`PutFileWays` ..
`UnlinkWays`). `WritesTheorem` adds that the clusters written are exactly the chain, each once (`ChainWritten`).

`NoLeakTheorem` turns the question round: not whether what a record names is in use, but whether what is
in use is named by a record that a path leads to. A crash or a refusal halfway may leak, by design, so
the third invariant, `LInv`, adds `Tidy` to `WInv` only while the volume is `clean`:

* `Acyclic(fat)` and `Rooted`: no chain is a loop, and a cluster in use that nothing leads to is one of the
  editor's `heads`, or the chain that is being made or given back starts there. So every cluster in use
  lies in the chain of a head (`AcyclicRoots`).
* `Named`: a head stands in a record, or is the root's, or is about to be written into one. The step that
  could break it is a record written over another one, whose chain must have been given back before.
* `Ashore`: the clusters of directories lie on the disk, all but the one that is still to be cleared. Without
  it a record could be there and not be listed.
* `Sunk`: the directories can be ranked, by numbers up to `MaxDepth`, so that each ranks below those in it.
  They form a tree, so none hangs in a cycle out of every path's reach, and climbing from a directory
  ends at the root (`Reached`). The invariant asks for *some* ranking, which most steps keep as it is
  (`SunkKept`); at the beginning of an operation the lengths of the paths are one (`DepthRanks`), and with
  that one at hand a new directory can be ranked last, and what moves can be seen to move nowhere
  below itself.

`StillTidy` and `QuietTidy` dispose of the steps that write nothing, `MapTidy` of those that write one entry
of the chain map, `DiskTidy` and `RecordTidy` of those that write a cluster and a record; `PutFileTidy` ..
`MarkDeletedTidy` show each action to be of one of these kinds. `Tidy` was found with TLC, part by part, on the
bounds of the run `fatx_mutation`, before it was proved.

**Repair** (`FatxRepairProofs`). `TypeCorrect`, and `LiveKeptTheorem`: a repair, complete or cut short,
changes no entry of a live cluster but the root directory's later ones, where nothing else leads into a
live chain. The invariant's part `Away` says that every entry is as it was read or zeroed since, that no
live one but those is zeroed, and that the loop of `FreeChainAsync` stands outside the live clusters; it
stays there because the entries it follows are those that were read. It starts there because heads have
no predecessor, which the root directory's later clusters have (`HeadsAreNotLive`): they are zeroed one by
one in the last loop, or in the first. Neither theorem needs anything about how the analysis computes the
listed records. `AllReclaimedTheorem` says, with no premise about the volume, that a completed repair
leaves nothing allocated outside `Live`. No orphan may be missed, though `FreeChainAsync` follows a chain map
it is itself zeroing and stops where an earlier chain went
on. `AllHeld` says that every orphan is zeroed, in a list, or ahead of the loop on the chain that was
read; `ZeroedThrough` that a zeroed cluster led to a zeroed one or to where the loop is, so that with
`ReachLeast` all that is behind a zeroed cluster is zeroed too.

**Upload** (`FtpUploadProofs`).

* `TypeCorrect`, `NeverPartialTheorem`: from `Whole`, which says that a part of a file is only ever under
  a staged name, and that the staged file is complete from the size check on.
* `MessagesTheorem` and `RestoredTheorem` (success and restoration are true), `OriginalKeptTheorem`: from `Known`, what an
  attempt with truthful looks knows at each call, in particular that before the backup is dropped the
  destination is new, and that while `backedUp` the backup is what was found. `Fresh` says that backup
  names of later attempts are unused.
* `Refinement`: with truthful looks and nobody else writing, for any number of attempts, every step maps
  to a step of `FileReplacement` or to a stutter. It needs `NoOthers` besides `IInv`.
  `NothingLostTheorem` carries over what follows from `FileReplacement` alone: the old file is somewhere
  until the new one is final.
* `UnapprovedTheorem`: from `Asked`, that nobody gets as far as the backup without approval, and
  `Changes`, the lemma that says for every step which file it changes and what was known of it.
* `FindableTheorem`: `IInv` does not say where the original is after the last message. `Single` does, for
  a single attempt: under a backup's name only while it is to come back, or when the message says so.

**Web server** (`XellHttpProofs`, under `SizesAssumption` and `AnswersAssumption`). `Implements` is the refinement.
`RingInv` says that the ring's bytes between `rd` and `wr` are the answer's bytes that follow those
given (so that `given` followed by the ring is the answer up to where the handler is), and that the ring
is never full to the last byte, which is what `Spare` is for: a piece may be longer than what was asked
for, by less than the spare, and still `rd = wr` means empty. `PhaseInv` says which states of the two machines, the memory and the
registration go together; `FinishesOnce` is a part of it.

**NAND dump** (`XellDumpProofs`). `Gated` and `TrueScreen` need to know what may be late: a late "complete" was
sent by a command that had packaged a verified dump, and nothing the command does afterwards takes that
back. `LateInv` says so of every request on its way (`Permits`), `PlaceInv` what each place of the command
has reached; together they keep a request harmless however late it comes.

**XBDM connection** (`XbdmSessionProofs`). `OwnReply` rests on four facts: who is in a call holds the lock
(`Held`), the queue has each waiter once (`Queued`), the last command sent is that of the call in progress
(`Numbered`), and, while nothing was abandoned, the stream holds exactly the status line this call is
owed, or none (`Owed`).

**Only model-checked.** Liveness (`OperationsEnd`, `Converges`, `Ends`, `Answered`, `Departs`, `CallsEnd`), which is
out of the prover's reach. Every invariant and every action property of a passing run is stated by a
theorem.

## 5 What the code does that its documents do not say

Each is a run that TLC ends with a counterexample; the run checks what the quoted line says.

| Run | Code | What happens |
|---|---|---|
| `fatx_put_no_space` | FatxMutationService.cs:48 | An overwriting put frees the old chain before it knows that the new one fits. Refused for want of space, it leaves the old record over free clusters, which the next put shares. |
| `fatx_repair_root` | FatxRepairService.cs:22 | Only the first cluster of the root directory counts as referenced. On a healthy volume (`Healthy`: the root directory's chain ends in a terminal mark, shares no cluster, and nothing is orphaned) its later clusters are taken for orphans and their entries zeroed. TLC's trace: the chain map `<<2, 3, END>>`, no records, and the second cluster's entry is zeroed. |
| `ftp_none_left` | FtpCommands.cs:1773 | "No destination file was left in place" is said although the deletion failed and its result was ignored. |
| `xell_missed_exit` | XellHelpers.cs:160, 824 | A reboot request that got no answer and a probe that missed XeLL count as the reboot. The same session is read again and reported as verified by a reboot cycle. |

The following behaviours were met on the way; the properties are stated up to them. None has a run of
its own.

* `mv /a /A --overwrite` deletes the destination, which is the source, and writes the record back over
  freed clusters (FatxMutationService.cs:159). Without `--overwrite` a rename in case only is refused.
* A directory is extended by a cluster beyond the end of the stream before the write that fails
  (FatxDirectoryEditor.cs:121). From then on files put behind it are neither listed nor found, though
  the put succeeds.
* An orphaned chain that runs into a listed file's chain is freed to its end, the file's clusters
  included (FatxRepairService.cs:82).
* The error that names the backup of a failed upload is followed by another attempt; when that fails,
  the user is told its error only (FtpCommands.cs:656).
* After `close_conn` the next poll aborts the connection (httpd.c:1170), at most two seconds later: a
  client that has not acknowledged the end of the answer by then may not get it.
* `http_poll` does not retry for a handler that has finished (httpd.c:1175): when TCP had no memory for the
  last bytes and nothing is in flight, the connection stays as it is (`Stalled`). Idle connections are
  never closed either.
* An abort or a reset frees the connection's state and not the handler's `response_priv` (httpd.c:1139).
* What a client asks for in the 1.5 seconds before the main loop is overwritten by the waiting screen
  (main.c:262, 293).
* The failure screen leaves a pending reboot as it is (xecli_branding.c:1200): after a second read whose
  reboot request was lost or late, the console may leave it seconds later. `ScreenTrue` allows that.
* A late "dump" or "verify" request cancels the reboot that the completion scheduled. The command reports
  the job as accepted, also when it only missed a probe and nothing is scheduled.
* "Reboot endpoints act immediately" (XeCLI-XellFetch/README.md:72): they schedule it.
* Callers that wait for the lock of a disposed `XbdmClient` wait for ever, and a call that timed out before
  its status line gives that line to the next call.

## 6 What is assumed and what is left out

Modelled from how the code in `src/` uses it, marked external in `PROJECT.json`:

* the console's FTP server refuses to rename onto a name in use (`Renamed`);
* `MoveFile` of FluentFTP deletes what is at the new name before it renames (`AfterMoveFile`);
* other clients create the destination only while it is absent (`OtherWrites`);
* the console boots into XeLL or into the dashboard (`Boot`);
* the console's debug monitor answers one command after the other, with a status line and, behind
  status 202, a body that ends in "." (`Reply`, `Answer`);
* `SemaphoreSlim` wakes the longest waiting caller (`Release`).

Left out of the modelled parts:

* in `FatxMutation`: sizes, dates and attributes of records; the host file's reading (its failure is an
  interruption); directories moved below themselves, after which the code recurses without end (the
  model calls the volume `hurt` at that move; hazard at FatxMutationService.cs:129); the stale contents
  of a directory cluster that was linked but not cleared (`hurt` at that crash); moves that would push a
  tree below `MaxDepth`, a bound of the model;
* in `FatxRepair`: directories that cannot be read although their chain is whole (hazard at
  FatxRepairService.cs:121), clusters beyond the end of the stream, and cycles of directories, on which
  the code does not return;
* in `FtpUpload`: the resumed upload (627-654), which appends to the destination itself; uploads of
  several files, which are planned first and then run one by one; the working names themselves
  (`.xecli-<12 digits of a fresh GUID>.upload` and `.backup`), which are taken to be unused;
* in `XellHttp`: the address `/MEM`, whose answer never ends; a request body; data after the end of the
  request; a failure of `process_request` for want of memory, after which the next handler is asked;
  the static buffer of the status text, which all connections share; the read of `p->tot_len` after
  `pbuf_free` in `http_recv`, which can change the window TCP offers and nothing else here;
* in `XellDump`: how XeLL is found or booted first; the progress requests, which change texts only; stock
  XeLL, which has no status screen; the export of the key vault (`XellKvExportCommand.cs`), the same
  steps on a smaller file; the files written;
* in `XbdmSession`: the binary transfers (getfile, sendfile, screenshots), which hold the lock for their
  length; lines of a body that look like a status line; the limits on the size of a body, which end a
  call as `GiveUp` does.

Not modelled at all, by reason:

* *later* (section 7): line reader, FTP download, listing and recursive delete, terminal session and
  output queue, configuration and stores, transition verifier;
* *sequential front ends*: the XBDM, JRPC2, FATX and batch commands call one service after the other,
  and keep no state of their own between calls;
* *pure functions on formats*: content packages, profiles, conversions, FATX header and layout
  arithmetic, discovery's merging of answers, the log's redaction;
* *host tools*: installer, release, Ghidra, IDA, the launcher;
* *the rest of the XellFetch payload*: start-up, TFTP, mounting, USB, video and NAND access are hardware
  code, and libxenon with lwIP is vendored. That is most of the lines of C in the repository; lwIP is
  modelled as far as its callbacks go (`XellHttp`) and not as an implementation of TCP.

## 7 Plan

What would come next, in order of what the user has to lose.

1. **FtpDownload** over `FileReplacement`: `DownloadFileVerifiedAsync` and `CommitStagedLocalFile`, with
   the delete-then-move at FtpCommands.cs:743, and the download whose size is unknown (716).
2. **XbdmLineReader**: the buffer refines a byte queue; theorem for every buffer size.
3. **TerminalSession** with the output queue: connect, reconnect (XeCliTerminalForm.cs:6732), command,
   transfer, poll and close as actors, one action between two awaits, the session epoch as the thing
   stale results are told by.
4. **ConfigStore**: two processes, load, change, save (CliConfig.cs:113); unreadable stores, which load as
   empty (TargetProfileStore.cs:78).
5. The **transition verifier** (one failed poll counts as a disconnect, XbdmTransitionVerifier.cs:85) as a
   caller of `XbdmSession`, the **recursive delete** and the **resumed upload**.

`FileReplacement` would serve `FtpDownload` and `AtomicFileWriter` as well.
