----------------------------- MODULE FatxMutation -----------------------------
(***************************************************************************)
(* Files and directories of a FATX volume and the service that changes     *)
(* them (Xbox360.Fatx/Writing/FatxMutationService.cs on top of             *)
(* FatxDirectoryEditor.cs and of the chain map editor, FatxAllocation).    *)
(*                                                                         *)
(* A write to the disk is one step, so an exception, a cancellation or the *)
(* end of the process can come between any two writes of an operation.     *)
(* Reads change nothing and there is one writer: the reads between two     *)
(* writes are evaluated at the second one.  "pc" is what the service does  *)
(* as soon as the chain map editor is idle; "op" holds its local           *)
(* variables.                                                              *)
(*                                                                         *)
(* Names are compared without case by the code: a Name here is a name up   *)
(* to its case.  A record carries no size; a file is what its chain holds. *)
(***************************************************************************)
EXTENDS Naturals, Sequences, FiniteSets, FatxChain

CONSTANTS
  TotalClusters, RootCluster, END, BAD,  \* as in FatxAllocation
  MaxChain,         \* bound: clusters of the file a PutFileAsync writes
  LastCluster,      \* last cluster that lies inside the partition stream
  SlotsPerCluster,  \* directory records in one cluster
  Name,             \* names of files and directories
  NoName,           \* the name of a free record
  Payload,          \* what a cluster of a file can hold
  MaxDepth          \* bound: names in a path

ASSUME VolumeAssumption ==
  /\ TotalClusters \in Nat /\ TotalClusters >= 2
  /\ RootCluster \in 1 .. TotalClusters - 1
  /\ END \in Nat /\ END >= TotalClusters
  /\ BAD \in Nat /\ BAD >= TotalClusters /\ BAD # END
  /\ MaxChain \in Nat \ {0}  \* a directory takes one cluster
ASSUME LastAssumption == LastCluster \in RootCluster .. TotalClusters - 1
ASSUME SlotAssumption == SlotsPerCluster \in Nat \ {0}
ASSUME NameAssumption == NoName \notin Name
ASSUME PayloadAssumption ==
  Payload \cap [1 .. SlotsPerCluster -> [name : Name \cup {NoName}, dir : BOOLEAN,
                                        first : Nat]] = {}
ASSUME DepthAssumption == MaxDepth \in Nat \ {0}

VARIABLES
  fat, heads, task, got, written, tail, cur, visited, torn,  \* FatxAllocation
  disk,    \* contents of the clusters: records of a directory, or a Payload
  pc,      \* idle, or the step of the operation in progress
  op,      \* local variables of that operation
  state    \* history: clean, leaky or hurt (see Stop)

Editor == INSTANCE FatxAllocation

chainMap == <<fat, heads, task, got, written, tail, cur, visited, torn>>
service == <<disk, pc, op, state>>
vars == <<chainMap, service>>

Cluster == 1 .. TotalClusters - 1
Path == UNION {[1 .. n -> Name] : n \in 0 .. MaxDepth}
Parent(p) == SubSeq(p, 1, Len(p) - 1)
Last(p) == p[Len(p)]
IsPrefix(p, q) == Len(p) <= Len(q) /\ SubSeq(q, 1, Len(p)) = p

Record == [name : Name, dir : BOOLEAN, first : Cluster \cup {0}]
FreeRecord == [name |-> NoName, dir |-> FALSE, first |-> 0]
EmptyDirectory == [i \in 1 .. SlotsPerCluster |-> FreeRecord]
Slot == Cluster \X (1 .. SlotsPerCluster)
NoSlot == <<0, 0>>

\* Mutant: the offset of the record before it.
FirstSlotBefore(c) == <<c, 0>>

FirstSlot(c) == <<c, 1>>

-----------------------------------------------------------------------------
(* Reading.  A cluster beyond the end of the stream reads as nothing.      *)

OnDisk == 1 .. LastCluster

Chain(first) == Reach(fat, first, Cluster)

At(s) == disk[s[1]][s[2]]
WriteSlot(s, record) == disk' = [disk EXCEPT ![s[1]][s[2]] = record]

(* The records in a set of clusters; a cluster of a file holds none.       *)
SlotsIn(C) == {c \in C \cap OnDisk : disk[c] \notin Payload} \X (1 .. SlotsPerCluster)

(* FatxDirectoryEditor.OpenDirectoryAsync reads every cluster of the chain; *)
(* FatxDirectoryReader, on FatxClusterChainStream, stops at the first one   *)
(* that reads as nothing.                                                   *)
Slots(first) == SlotsIn(Chain(first))
ShownSlots(first) == SlotsIn(Reach(fat, first, OnDisk))

Entries(first) == {s \in Slots(first) : At(s) # FreeRecord}

\* Mutant: a record that names no cluster is taken to be free.
FreeSlotsNoCluster(first) == {s \in Slots(first) : At(s).first = 0}

FreeSlots(first) == {s \in Slots(first) : At(s) = FreeRecord}
FindEntry(first, name) == {s \in Slots(first) : At(s).name = name}

(* First cluster of the directory that FatxPathResolver finds under a name *)
(* in directory d, 0 if it finds none or the end of its chain is not found. *)
Child(d, name) ==
  LET found == {s \in ShownSlots(d) :
                  /\ At(s).name = name /\ At(s).dir
                  /\ \E c \in Chain(At(s).first) : Editor!IsTerminalValue(fat[c])}
  IN IF found = {} THEN 0 ELSE At(CHOOSE s \in found : TRUE).first

(* The same for a path, name by name.                                      *)
Directory(p) ==
  LET below[n \in 0 .. Len(p)] ==
        IF n = 0 THEN RootCluster ELSE Child(below[n - 1], p[n])
  IN below[Len(p)]

Lookup(p) == FindEntry(Directory(Parent(p)), Last(p))

-----------------------------------------------------------------------------
NoOp == [kind |-> "none", targets |-> {}, parent |-> 0, slot |-> NoSlot,
         record |-> FreeRecord, size |-> 0, content |-> EmptyDirectory,
         clusters |-> << >>, done |-> 0, from |-> NoSlot, stack |-> << >>,
         freed |-> FALSE]

Operation ==
  [kind : {"none", "put", "mkdir", "delete", "move"}, targets : SUBSET Path,
   parent : Cluster \cup {0}, slot : Slot \cup {NoSlot},
   record : Record \cup {FreeRecord}, size : 0 .. MaxChain,
   content : Payload \cup {EmptyDirectory}, clusters : Seq(Cluster), done : Nat,
   from : Slot \cup {NoSlot},
   stack : Seq([path : Seq(Name), slot : Slot, todo : SUBSET Name]),
   freed : BOOLEAN]

TypeOK ==
  /\ Editor!TypeOK
  /\ disk \in [Cluster -> Payload \cup [1 .. SlotsPerCluster -> Record \cup {FreeRecord}]]
  /\ pc \in {"idle", "alloc", "data", "slot", "zero", "record", "unlink",
             "delete", "mark", "rename"}
  /\ op \in Operation
  /\ op.done <= Len(op.clusters)
  /\ state \in {"clean", "leaky", "hurt"}

(* FatxFormatter zeroes the cluster of the root directory.                 *)
Init ==
  /\ Editor!Init
  /\ disk = [c \in Cluster |-> EmptyDirectory]
  /\ pc = "idle"
  /\ op = NoOp
  /\ state = "clean"

(* What an operation that stops half way leaves behind.                    *)
(* Clusters that no record names:                                          *)
Leaks ==
  \/ task = "link" \/ pc = "zero"
  \/ op.clusters # << >> /\ (task = "alloc" /\ tail = 0 => written > 0)

(* A record whose chain is given back, wholly or in part; a chain two      *)
(* records name; a directory with a cluster that was not cleared; a torn   *)
(* allocation:                                                             *)
Breaks ==
  \/ op.freed /\ ~(task = "free" /\ visited = {})
  \/ pc = "unlink"
  \/ pc = "zero" /\ op.slot[1] \in OnDisk
  \/ task = "alloc" /\ written > 0

Stop ==
  /\ pc' = "idle"
  /\ op' = NoOp
  /\ state' = IF Breaks THEN "hurt"
              ELSE IF Leaks /\ state = "clean" THEN "leaky" ELSE state

Done ==
  /\ pc' = "idle"
  /\ op' = NoOp
  /\ UNCHANGED state


-----------------------------------------------------------------------------
(* The model follows a volume up to its first damage: what the operations  *)
(* do on a damaged one is FatxAllocation!DamagedInit and FatxRepair.       *)
Ready == pc = "idle" /\ state # "hurt"

(* PutFileAsync: give back the chain of the file that is there, only then  *)
(* read the host file, allocate and fill a new chain, and write the        *)
(* record.                                                                 *)
PutFile(p, size, content) ==
  LET parent == Directory(Parent(p))
      existing == Lookup(p)
      new == [NoOp EXCEPT !.kind = "put", !.targets = {p}, !.parent = parent,
                          !.size = size, !.content = content,
                          !.record = [name |-> Last(p), dir |-> FALSE, first |-> 0]]
  IN /\ Ready
     /\ parent # 0
     /\ \/ /\ existing = {}
           /\ op' = new
           /\ UNCHANGED chainMap
        \/ \E s \in existing :
             /\ ~At(s).dir
             /\ IF At(s).first = 0
                THEN /\ op' = [new EXCEPT !.slot = s]
                     /\ UNCHANGED chainMap
                ELSE /\ op' = [new EXCEPT !.slot = s, !.freed = TRUE]
                     /\ Editor!BeginFree(At(s).first)
     /\ pc' = "alloc"
     /\ UNCHANGED <<disk, state>>

(* CreateDirectoryAsync: one cluster, cleared, then the record.            *)
CreateDirectory(p) ==
  /\ Ready
  /\ Directory(Parent(p)) # 0
  /\ Lookup(p) = {}
  /\ pc' = "alloc"
  /\ op' = [NoOp EXCEPT !.kind = "mkdir", !.targets = {p},
                        !.parent = Directory(Parent(p)),
                        !.size = 1, !.content = EmptyDirectory,
                        !.record = [name |-> Last(p), dir |-> TRUE, first |-> 0]]
  /\ UNCHANGED <<chainMap, disk, state>>

Allocate ==
  /\ pc = "alloc"
  /\ task = "idle"
  /\ \/ /\ op.size = 0
        /\ pc' = "slot"
        /\ UNCHANGED <<chainMap, op, state>>
     \/ /\ op.size > 0
        /\ Editor!AllocateChain(op.size)
        /\ pc' = "data"
        /\ op' = [op EXCEPT !.clusters = got', !.record.first = got'[1]]
        /\ UNCHANGED state
     \/ /\ op.size > Cardinality(Editor!FreeClusters)
        /\ Stop
        /\ UNCHANGED chainMap
  /\ UNCHANGED disk

\* Mutant: the last, partly filled cluster of a file is not written.
WriteDataFullOnly ==
  LET c == op.clusters[op.done + 1]
  IN /\ pc = "data"
     /\ task = "idle"
     /\ disk' = IF op.done + 1 = Len(op.clusters) \/ c \notin OnDisk THEN disk
                ELSE [disk EXCEPT ![c] = op.content]
     /\ op' = [op EXCEPT !.done = op.done + 1]
     /\ pc' = IF op.done + 1 = Len(op.clusters) THEN "slot" ELSE pc
     /\ UNCHANGED <<chainMap, state>>

(* WriteClusterAsync of one cluster; the stream refuses to write beyond    *)
(* its end.                                                                *)
WriteData ==
  LET c == op.clusters[op.done + 1]
  IN /\ pc = "data"
     /\ task = "idle"
     /\ IF c \notin OnDisk
        THEN /\ Stop
             /\ UNCHANGED disk
        ELSE /\ disk' = [disk EXCEPT ![c] = op.content]
             /\ op' = [op EXCEPT !.done = op.done + 1]
             /\ pc' = IF op.done + 1 = Len(op.clusters) THEN "slot" ELSE pc
             /\ UNCHANGED state
     /\ UNCHANGED chainMap

\* Mutant: the record of the file that is replaced is not reused.
WritableRecordAlwaysNew ==
  /\ pc = "slot"
  /\ task = "idle"
  /\ IF FreeSlots(op.parent) = {}
     THEN /\ Editor!BeginAppend(op.parent)
          /\ UNCHANGED <<pc, op>>
     ELSE /\ \E s \in FreeSlots(op.parent) : op' = [op EXCEPT !.slot = s]
          /\ pc' = "record"
          /\ UNCHANGED chainMap
  /\ UNCHANGED <<disk, state>>

(* GetWritableRecordOffsetAsync: the record of the file replaced, a free   *)
(* record, or the first one of a cluster appended to the directory.        *)
(* Which free record is taken makes no difference here.                    *)
WritableRecord ==
  /\ pc = "slot"
  /\ task = "idle"
  /\ \/ /\ op.slot # NoSlot
        /\ pc' = "record"
        /\ UNCHANGED <<chainMap, op>>
     \/ /\ op.slot = NoSlot
        /\ \E s \in FreeSlots(op.parent) : op' = [op EXCEPT !.slot = s]
        /\ pc' = "record"
        /\ UNCHANGED chainMap
     \/ /\ op.slot = NoSlot
        /\ FreeSlots(op.parent) = {}
        /\ Editor!BeginAppend(op.parent)
        /\ UNCHANGED <<pc, op>>
  /\ UNCHANGED <<disk, state>>

(* The cluster is part of the directory before it is cleared.              *)
ClearAppended ==
  /\ pc = "zero"
  /\ task = "idle"
  /\ IF op.slot[1] \notin OnDisk
     THEN /\ Stop
          /\ UNCHANGED disk
     ELSE /\ disk' = [disk EXCEPT ![op.slot[1]] = EmptyDirectory]
          /\ pc' = "record"
          /\ UNCHANGED <<op, state>>
  /\ UNCHANGED chainMap

(* WriteEntryAsync.  A move to another directory has the old record left.  *)
WriteRecord ==
  /\ pc = "record"
  /\ task = "idle"
  /\ WriteSlot(op.slot, op.record)
  /\ IF op.kind = "move"
     THEN /\ pc' = "unlink"
          /\ UNCHANGED <<op, state>>
     ELSE Done
  /\ UNCHANGED chainMap

(* DeleteAsync.  A frame of the recursion is the path, its record and the  *)
(* children that are still to be deleted.                                  *)
Frame(p, s) ==
  [path |-> p, slot |-> s,
   todo |-> IF At(s).dir THEN {At(e).name : e \in Entries(At(s).first)} ELSE {}]

Delete(p, recursive) ==
  /\ Ready
  /\ Directory(Parent(p)) # 0
  /\ \E s \in Lookup(p) :
       /\ At(s).dir => Directory(p) # 0
       /\ Frame(p, s).todo # {} => recursive
       /\ op' = [NoOp EXCEPT !.kind = "delete", !.targets = {p},
                             !.stack = <<Frame(p, s)>>]
  /\ pc' = "delete"
  /\ UNCHANGED <<chainMap, disk, state>>

Top == op.stack[Len(op.stack)]

\* Mutant: the children are listed again for each of them.
DeleteChildAgain ==
  /\ pc = "delete"
  /\ task = "idle"
  /\ \E n \in Top.todo :
       LET p == Append(Top.path, n)
       IN IF \E s \in Lookup(p) : At(s).dir => Directory(p) # 0
          THEN /\ \E s \in Lookup(p) : op' = [op EXCEPT !.stack = Append(@, Frame(p, s))]
               /\ UNCHANGED <<pc, state>>
          ELSE UNCHANGED <<pc, op, state>>
  /\ UNCHANGED <<chainMap, disk>>

DeleteChild ==
  /\ pc = "delete"
  /\ task = "idle"
  /\ \E n \in Top.todo :
       LET p == Append(Top.path, n)
           frame == [Top EXCEPT !.todo = @ \ {n}]
       IN IF \E s \in Lookup(p) : At(s).dir => Directory(p) # 0
          THEN /\ \E s \in Lookup(p) :
                    op' = [op EXCEPT !.stack = Append(Append(Parent(@), frame), Frame(p, s))]
               /\ UNCHANGED <<pc, state>>
          ELSE Stop
  /\ UNCHANGED <<chainMap, disk>>

\* Mutant: the chain of a directory is not given back.
DeleteChainFilesOnly ==
  /\ pc = "delete"
  /\ task = "idle"
  /\ Top.todo = {}
  /\ pc' = "mark"
  /\ IF At(Top.slot).first = 0 \/ At(Top.slot).dir
     THEN UNCHANGED <<chainMap, op>>
     ELSE /\ Editor!BeginFree(At(Top.slot).first)
          /\ op' = [op EXCEPT !.freed = TRUE]
  /\ UNCHANGED <<disk, state>>

DeleteChain ==
  /\ pc = "delete"
  /\ task = "idle"
  /\ Top.todo = {}
  /\ pc' = "mark"
  /\ IF At(Top.slot).first = 0
     THEN UNCHANGED <<chainMap, op>>
     ELSE /\ Editor!BeginFree(At(Top.slot).first)
          /\ op' = [op EXCEPT !.freed = TRUE]
  /\ UNCHANGED <<disk, state>>

MarkDeleted ==
  /\ pc = "mark"
  /\ task = "idle"
  /\ WriteSlot(Top.slot, FreeRecord)
  /\ IF Len(op.stack) = 1 /\ op.kind = "delete"
     THEN Done
     ELSE /\ pc' = IF Len(op.stack) = 1 THEN "rename" ELSE "delete"
          /\ op' = [op EXCEPT !.stack = Parent(@), !.freed = FALSE]
          /\ UNCHANGED state
  /\ UNCHANGED chainMap

(* MoveAsync.  The file at the destination is deleted first, even when it  *)
(* is the one that moves, and a directory may go below itself.             *)
Move(p, q, overwrite) ==
  LET parent == Directory(Parent(q))
  IN /\ Ready
     /\ Directory(Parent(p)) # 0
     /\ parent # 0
     /\ \E s \in Lookup(p) :
          LET new == [NoOp EXCEPT !.kind = "move", !.targets = {p, q}, !.parent = parent,
                                  !.from = s, !.record = [At(s) EXCEPT !.name = Last(q)]]
          IN \* bound: what moves stays within MaxDepth
             /\ At(s).dir => Len(q) <= Len(p) \/ Entries(At(s).first) = {}
             /\ \/ /\ Lookup(q) = {}
                   /\ op' = new
                   /\ pc' = "rename"
                \/ \E d \in Lookup(q) :
                     /\ overwrite
                     /\ ~At(d).dir
                     /\ op' = [new EXCEPT !.stack = <<Frame(q, d)>>]
                     /\ pc' = "delete"
             /\ state' = IF (p = q /\ At(s).first # 0) \/ (At(s).dir /\ IsPrefix(p, q))
                         THEN "hurt" ELSE state
     /\ UNCHANGED <<chainMap, disk>>

Rename ==
  /\ pc = "rename"
  /\ task = "idle"
  /\ IF \E d \in {Parent(p) : p \in op.targets} : \A p \in op.targets : Parent(p) = d
     THEN /\ WriteSlot(op.from, op.record)
          /\ Done
     ELSE /\ pc' = "slot"
          /\ UNCHANGED <<disk, op, state>>
  /\ UNCHANGED chainMap

\* Mutant: the source record of a move stays.
UnlinkForgotten ==
  /\ pc = "unlink"
  /\ task = "idle"
  /\ Done
  /\ UNCHANGED <<chainMap, disk>>

Unlink ==
  /\ pc = "unlink"
  /\ task = "idle"
  /\ WriteSlot(op.from, FreeRecord)
  /\ Done
  /\ UNCHANGED chainMap

-----------------------------------------------------------------------------
(* The chain map editor at work for the service, and its exception when    *)
(* there is no free cluster left.  Its other exceptions are unreachable    *)
(* here (FatxAllocation: NeverCorrupt).                                    *)
EditorStep ==
  /\ \/ /\ \/ Editor!AllocateLink \/ Editor!AllocateEnd
           \/ Editor!WalkNext \/ Editor!FreeStep
           \/ Editor!WalkEnd /\ Editor!FreeClusters # {}
        /\ UNCHANGED <<pc, op, state>>
     \/ /\ Editor!AppendLink
        /\ pc' = "zero"
        /\ op' = [op EXCEPT !.slot = FirstSlot(got[1])]
        /\ UNCHANGED state
     \/ /\ Editor!WalkEnd /\ Editor!FreeClusters = {}
        /\ Stop
  /\ UNCHANGED disk

(* An I/O exception or the end of the process.                             *)
Interrupt ==
  /\ pc # "idle"
  /\ IF task = "idle" THEN UNCHANGED chainMap ELSE Editor!Interrupt
  /\ Stop
  /\ UNCHANGED disk

ServiceStep ==
  \/ Allocate \/ WriteData \/ WritableRecord \/ ClearAppended \/ WriteRecord
  \/ DeleteChild \/ DeleteChain \/ MarkDeleted
  \/ Rename \/ Unlink

Next ==
  \/ \E p \in Path \ {<< >>} :
       \/ \E size \in 0 .. MaxChain, content \in Payload : PutFile(p, size, content)
       \/ CreateDirectory(p)
       \/ \E recursive \in BOOLEAN : Delete(p, recursive)
       \/ \E q \in Path \ {<< >>}, overwrite \in BOOLEAN : Move(p, q, overwrite)
  \/ ServiceStep
  \/ EditorStep
  \/ Interrupt

Spec == Init /\ [][Next]_vars

(* The awaits of an operation in progress complete, or throw.              *)
FairSpec == Spec /\ WF_vars(ServiceStep \/ EditorStep)

-----------------------------------------------------------------------------
Directories == {Directory(p) : p \in Path} \ {0}
LiveSlots == UNION {Entries(d) : d \in Directories}
Quiet == pc = "idle" /\ state # "hurt"

(* Between operations no two records share a cluster, and none leads into  *)
(* free space or into the root directory: what one path gives back or      *)
(* overwrites next is its own (FatxMutationService.cs:48, 118, 123).       *)
ChainsExclusive ==
  Quiet =>
    \A s \in LiveSlots :
      LET C == Chain(At(s).first)
      IN /\ \A c \in C : fat[c] # Editor!FREE
         /\ C \cap Chain(RootCluster) = {}
         /\ \A t \in LiveSlots \ {s} : C \cap Chain(At(t).first) = {}

(* A path names at most one record, so that FindEntry, which takes the     *)
(* first match, hides nothing (FatxDirectoryEditor.cs:101-105).            *)
NamesUnique ==
  Quiet => \A d \in Directories, n \in Name : Cardinality(FindEntry(d, n)) <= 1

(* While every operation completed or was refused before it wrote, each    *)
(* cluster in use belongs to a record or to the root directory: nothing    *)
(* leaks (FatxMutationService.cs:46-49, 113-124, 159).                     *)
NoLeak ==
  state = "clean" /\ pc = "idle" =>
    {c \in Cluster : fat[c] # Editor!FREE}
      = Chain(RootCluster) \cup UNION {Chain(At(s).first) : s \in LiveSlots}

(* What a reader finds at a path: a directory, or a file and what its      *)
(* clusters hold.                                                          *)
Value(p) ==
  {[dir |-> At(s).dir,
    data |-> [c \in IF At(s).dir THEN {} ELSE Chain(At(s).first) |-> disk[c]]]
   : s \in {t \in ShownSlots(Directory(Parent(p))) : At(t).name = Last(p)}}

(* No step of an operation, completed, refused or cut short, changes what  *)
(* a path it was not asked to change shows.                                *)
Undisturbed ==
  [][state' # "hurt" =>
       \A p \in Path \ {<< >>} :
         (\A t \in op.targets : ~IsPrefix(t, p)) => Value(p)' = Value(p)]_<<fat, disk>>

(* A put that completes leaves a file of the asked size and content, and a *)
(* new directory shows nothing the cluster held before                     *)
(* (FatxMutationService.cs:55-69, 83-86).                                  *)
WritesTakeEffect ==
  [][WriteRecord /\ op.kind # "move" =>
       \A p \in op.targets, first \in {op.record.first} :
         /\ \E s \in Lookup(p)' : At(s)' = op.record
         /\ Cardinality(Chain(first)') = op.size
         /\ \A c \in Chain(first)' : disk'[c] = op.content]_vars

(* A move leaves the clusters of what it moves alone, and at its end the   *)
(* chain has one record, under the new name (FatxMutationService.cs:173-181). *)
MoveKeepsChain ==
  [][op.kind = "move" /\ state # "hurt" =>
       /\ \A c \in Chain(op.record.first) : fat'[c] = fat[c] /\ disk'[c] = disk[c]
       /\ Unlink => {s \in LiveSlots' : At(s)'.first = op.record.first /\ op.record.first # 0}
                      \subseteq {op.slot}]_vars

(* The service keeps to what FatxAllocation assumes of its callers: up to  *)
(* the first damage each of its steps is a step of that specification.     *)
ContractKept == [][state' # "hurt" => [Editor!Next]_chainMap]_vars

(* An operation ends, however deep the tree it deletes.                    *)
OperationsEnd == pc # "idle" ~> pc = "idle"

-----------------------------------------------------------------------------
(* Replace an existing FATX file at the target path                        *)
(* (wiki/CLI-Help.md:1477): a put that is refused for want of space leaves *)
(* no record over clusters that are free.                                  *)
RefusedPutKeepsFile ==
  [][Allocate /\ pc' = "idle" =>
       \A s \in LiveSlots : At(s).first = 0 \/ fat[At(s).first] # Editor!FREE]_vars
=============================================================================
