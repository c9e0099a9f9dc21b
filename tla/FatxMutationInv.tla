---------------------------- MODULE FatxMutationInv ----------------------------
(***************************************************************************)
(* The inductive invariants of FatxMutation: what its safety properties    *)
(* rest on, part by part.  FatxMutationProofs shows that the program keeps *)
(* them, and what follows from them.                                       *)
(*                                                                         *)
(*   TypeInv  every state: the shape of an operation at each of its steps  *)
(*   IInv     up to the first damage: what the records say of the chains   *)
(*   WInv     where paths lead, and which of them an operation is about    *)
(*   LInv     up to the first leak: which heads, and so which chains,      *)
(*            records name                                                 *)
(***************************************************************************)
EXTENDS FatxMutation, FatxChainProofs

(* What FatxAllocationProofs shows of the chain map editor.                *)
EP == INSTANCE FatxAllocationProofs

-----------------------------------------------------------------------------
(* What holds in every state, damaged or not: the shape of an operation at *)
(* each of its steps.                                                      *)

DirSlot == {s \in Slot : disk[s[1]] \notin Payload}

\* What the editor does, and for which step of the service.
TaskOf ==
  /\ pc = "idle" => task = "idle"
  /\ task = "alloc" /\ tail = 0 => pc = "data"
  /\ task \in {"walk", "link"} \/ (task = "alloc" /\ tail # 0) => pc = "slot" /\ op.slot = NoSlot
  /\ task = "free" => pc \in {"alloc", "mark"} /\ op.freed

\* Which operation takes which step, and what it has by then.
StepOf ==
  /\ pc \in {"alloc", "data"} => op.kind \in {"put", "mkdir"}
  /\ pc \in {"slot", "zero", "record"} => op.kind \in {"put", "mkdir", "move"}
  /\ pc \in {"rename", "unlink"} => op.kind = "move"
  /\ pc \in {"delete", "mark"} => op.kind \in {"delete", "move"} /\ op.stack # << >>
  /\ op.freed => op.kind = "put" \/ pc = "mark"
  /\ op.kind \in {"put", "mkdir", "move"} => op.parent # 0 /\ op.record # FreeRecord
  /\ op.kind = "put" => op.content \in Payload
  /\ op.kind = "mkdir" => op.content = EmptyDirectory /\ op.size = 1
  /\ op.kind \in {"put", "mkdir"} => op.record.dir = (op.kind = "mkdir") /\ op.stack = << >>
  /\ pc = "alloc" => op.clusters = << >> /\ op.done = 0
  /\ pc = "data" => op.done < Len(op.clusters)

\* The records it is about to write lie in clusters of directories.
SlotOf ==
  /\ op.kind = "move" => op.from \in DirSlot
  /\ op.slot # NoSlot /\ pc # "zero" => op.slot \in DirSlot
  /\ pc \in {"record", "unlink"} => op.slot # NoSlot
  /\ pc = "zero" => op.slot \in Slot /\ op.slot[2] = 1
  /\ \A i \in DOMAIN op.stack : op.stack[i].slot \in DirSlot
  /\ op.kind = "move" => Len(op.stack) <= 1 /\ \A i \in DOMAIN op.stack : op.stack[i].todo = {}

TypeInv ==
  /\ TypeOK
  /\ EP!TypeInv
  /\ TaskOf /\ StepOf
  /\ op.kind = "none" <=> pc = "idle"
  /\ pc = "idle" => op = NoOp
  /\ state = "hurt" => op.kind \in {"none", "move"}
  /\ SlotOf

-----------------------------------------------------------------------------
(* The volume and the operation in progress, up to the first damage.       *)

Records == {s \in DirSlot : At(s) # FreeRecord}

\* The record whose chain is not, or no longer, its own.
Loose ==
  IF pc = "unlink" THEN {op.from}
  ELSE IF op.freed /\ ~(task = "free" /\ visited = {})
  THEN {IF op.kind = "put" THEN op.slot ELSE Top.slot}
  ELSE {}

Held == Records \ Loose

(* A record holds a chain of its own, which is not that of the root.       *)
ChainsHeld ==
  /\ RootCluster \in heads
  /\ \A s \in Held :
       /\ At(s).first = 0 \/ At(s).first \in heads \ {RootCluster}
       /\ At(s).dir => At(s).first # 0
       /\ \A t \in Held : At(s).first = At(t).first => At(s).first = 0 \/ s = t

(* The first cluster of a directory, as far as the records tell.           *)
DirHead(d) == d \in heads /\ \A s \in Held : At(s).first = d => At(s).dir

Changes == op.kind \in {"put", "mkdir", "move"}

Dirs ==
  {RootCluster} \cup {At(s).first : s \in {t \in Held : At(t).dir}}
    \cup (IF Changes THEN {op.parent} ELSE {})

\* The slots of a directory, less a cluster that is still to be cleared.
Cleared(d) == {s \in Slots(d) : pc = "zero" => s[1] # op.slot[1]}

NamesApart ==
  \A d \in Dirs : \A s, t \in Held \cap Cleared(d) : At(s).name = At(t).name => s = t

(* The new file or directory: its clusters form a chain no record names.   *)
NewClusters ==
  /\ task = "alloc" => \A i \in 1 .. written : fat[got[i]] = got[i + 1]
  /\ task = "alloc" /\ tail = 0 => got = op.clusters /\ op.done = 0
  /\ op.kind \in {"put", "mkdir"} =>
       /\ op.record.first = IF op.clusters = << >> THEN 0 ELSE op.clusters[1]
       /\ op.kind = "mkdir" /\ pc # "alloc" => Len(op.clusters) = 1
       /\ Len(op.clusters) = IF pc = "alloc" THEN 0 ELSE op.size
       /\ \A i, j \in DOMAIN op.clusters : op.clusters[i] = op.clusters[j] => i = j
       /\ \A i \in 1 .. op.done : disk[op.clusters[i]] = op.content
       /\ op.clusters # << >> => op.record.first # op.parent
       /\ pc \notin {"alloc", "data"} => op.done = Len(op.clusters)
  /\ op.kind \in {"put", "mkdir"} /\ op.clusters # << >> /\ ~(task = "alloc" /\ tail = 0) =>
       /\ op.record.first \in heads \ {RootCluster}
       /\ \A s \in Held : At(s).first # op.record.first
       /\ \A i \in DOMAIN op.clusters :
            fat[op.clusters[i]] = IF i = Len(op.clusters) THEN END ELSE op.clusters[i + 1]

(* The directory the operation works in.                                   *)
ParentHeld ==
  /\ Changes => DirHead(op.parent)
  /\ task = "walk" => visited \cup {cur} \subseteq Chain(op.parent)
  /\ tail # 0 => tail \in Chain(op.parent)
  /\ Changes /\ op.slot # NoSlot /\ pc # "zero" => op.slot \in Slots(op.parent)
  /\ pc = "zero" => op.slot[1] \in Chain(op.parent)
  /\ Changes => \A s \in Records \cap Cleared(op.parent) :
       At(s).name = op.record.name =>
         s = op.slot \/ (pc \in {"delete", "mark"} /\ s = Top.slot)

(* The record a put found at its path.                                     *)
Replaced ==
  /\ op.kind = "put" /\ op.slot # NoSlot /\ pc \in {"alloc", "data", "slot"} =>
       /\ op.slot \in Records
       /\ At(op.slot).name = op.record.name /\ ~At(op.slot).dir
  /\ op.kind \in {"mkdir", "move"} /\ pc \in {"alloc", "data", "slot", "delete", "mark", "rename"} =>
       op.slot = NoSlot
  /\ pc = "record" /\ At(op.slot) # FreeRecord =>
       op.kind = "put" /\ At(op.slot).name = op.record.name /\ ~At(op.slot).dir
  /\ (pc = "record" \/ op.kind = "put") /\ op.slot # NoSlot /\ ~op.freed /\ pc # "zero" =>
       At(op.slot).first = 0
  /\ op.kind = "put" /\ op.freed => op.slot \in Records
  /\ op.kind = "put" /\ pc = "zero" => ~op.freed

(* A chain is given back from the front.                                   *)
Freeing ==
  /\ pc = "delete" => task = "idle" /\ ~op.freed
  /\ pc = "mark" /\ ~op.freed => At(Top.slot).first = 0
  /\ task = "free" =>
       IF visited = {}
       THEN LET s == IF op.kind = "put" THEN op.slot ELSE Top.slot
            IN s \in Records /\ At(s).first = cur
       ELSE cur \notin heads

(* The record that moves, and the directory it lies in.                    *)
SameParent == \A p, q \in op.targets : Parent(p) = Parent(q)

Moving ==
  op.kind = "move" =>
    /\ IF op.from \in Records
       THEN At(op.from).first = op.record.first /\ At(op.from).dir = op.record.dir
       ELSE pc = "rename" /\ op.record.first = 0 /\ ~op.record.dir
    /\ op.record.dir => op.record.first # 0
    /\ \E d \in heads \ {op.record.first} :
         DirHead(d) /\ op.from[1] \in Chain(d)
    /\ op.parent # op.record.first
    /\ SameParent => op.from \in Slots(op.parent) /\ pc \in {"delete", "mark", "rename"}
    /\ op.targets # {}
    /\ pc = "rename" => op.from \in Records \/ SameParent
    /\ pc = "zero" => op.from[1] # op.slot[1]
    /\ pc \in {"delete", "mark"} =>
         /\ Top.slot \in Records \cap Slots(op.parent)
         /\ At(Top.slot).name = op.record.name /\ ~At(Top.slot).dir
         /\ Top.slot = op.from => op.record.first = 0 /\ ~op.record.dir /\ SameParent
    /\ pc = "unlink" => At(op.slot) = op.record /\ op.slot # op.from

Sem ==
  /\ ~torn /\ EP!Sound
  /\ ChainsHeld
  /\ NamesApart
  /\ NewClusters
  /\ ParentHeld
  /\ Replaced
  /\ Freeing
  /\ Moving

IInv == TypeInv /\ (state # "hurt" => Sem)

-----------------------------------------------------------------------------
(* What an operation may change: the paths below its own.  A recursive     *)
(* deletion works below the path on top of its stack.                      *)

Aims == IF op.kind = "delete" THEN {Top.path} ELSE op.targets
Calm(p) == \A t \in Aims : ~IsPrefix(t, p)

(* Slot s holds, or may come to hold, the record that path t names n.      *)
Spot(s, n, t) == t # << >> /\ n = Last(t) /\ s[1] \in Chain(Directory(Parent(t)))

Aside ==
  \A t \in op.targets : t \in Seq(Name) /\ t # << >> /\ \A u \in op.targets : ~IsPrefix(u, Parent(t))

(* The new record goes where the path of the operation says.               *)
InPlace ==
  Changes => \E t \in op.targets :
               /\ Directory(Parent(t)) = op.parent /\ Last(t) = op.record.name
               /\ op.kind # "move" => op.targets = {t}

OldPlace ==
  op.kind = "move" => \E t \in op.targets :
                        /\ op.from[1] \in Chain(Directory(Parent(t)))
                        /\ op.from \in Records => At(op.from).name = Last(t)

(* A frame of a deletion names a record.  What is left in its directory is *)
(* still to be deleted, or is being deleted by the next frame.             *)
FrameAt(f) ==
  /\ f.path # << >> /\ \E t \in op.targets : IsPrefix(t, f.path)
  /\ f.slot \in Records /\ f.slot \in Slots(Directory(Parent(f.path)))
  /\ At(f.slot).name = Last(f.path)

Emptied(f) ==
  At(f.slot).dir =>
    \A s \in Records \cap Slots(At(f.slot).first) :
      \/ At(s).name \in f.todo
      \/ \E i \in DOMAIN op.stack : op.stack[i].slot = s /\ Parent(op.stack[i].path) = f.path

Stack ==
  op.kind = "delete" =>
    /\ \A i \in DOMAIN op.stack : FrameAt(op.stack[i]) /\ Emptied(op.stack[i])
    /\ \A i, j \in DOMAIN op.stack : i < j =>
         /\ Len(op.stack[i].path) < Len(op.stack[j].path)
         /\ At(op.stack[i].slot).dir
    /\ \A i \in DOMAIN op.stack :
         /\ At(op.stack[i].slot).dir
         /\ pc = "delete" \/ op.stack[i].path # Top.path
         => Directory(op.stack[i].path) = At(op.stack[i].slot).first
    /\ pc = "mark" => Top.todo = {}

(* Records lie in the directories in use.                                  *)
Placed == \A s \in Records : \E d \in Dirs : s \in Cleared(d)

(* What a path leads through, outside the operation, is there to stay.     *)
Stays(p) ==
  \E s \in Held : /\ s \in ShownSlots(Directory(Parent(p))) /\ At(s).name = Last(p)
                  /\ At(s).dir /\ At(s).first = Directory(p)

CalmHeld ==
  \A p \in Seq(Name) : p # << >> /\ Calm(p) /\ Directory(p) # 0 => Stays(p)

Ways == Aside /\ InPlace /\ OldPlace /\ Stack /\ Placed /\ CalmHeld

(* The paths of an undamaged volume.                                       *)
WInv == IInv /\ (state # "hurt" => Ways)

-----------------------------------------------------------------------------
(* A volume nothing has leaked from: every cluster in use lies in the      *)
(* chain of a head that a record names, and every directory has a path.    *)

\* A chain starts at a head, or is being made or given back.
Rooted ==
  \A c \in Cluster : fat[c] # 0 /\ Source(fat, c) =>
    \/ c \in heads
    \/ task = "alloc" /\ written > 0 /\ c = got[1]
    \/ task = "link" /\ c = got[1]
    \/ task = "free" /\ c = cur

\* The head of a chain stands in a record, or is about to.
Named ==
  \A h \in heads :
    \/ h = RootCluster
    \/ \E s \in Held : At(s).first = h
    \/ op.kind \in {"put", "mkdir"} /\ h = op.record.first

\* Every cluster of a directory can be read.
Ashore ==
  /\ \A d \in Dirs : \A c \in Chain(d) : c \in OnDisk \/ (pc = "zero" /\ c = op.slot[1])
  /\ \A i \in 1 .. op.done : op.clusters[i] \in OnDisk

(* The directories can be ranked so that each ranks below those in it:     *)
(* they form a tree, whose branches are no longer than a path.             *)
Ranked(g) ==
  /\ \A d \in Dirs : \A s \in Held \cap Cleared(d) : At(s).dir => g[d] < g[At(s).first]
  /\ op.kind = "mkdir" => g[op.parent] < MaxDepth
  /\ op.kind = "move" /\ op.record.dir => g[op.parent] < g[op.record.first]

Ranking == [Cluster -> 0 .. MaxDepth]
Sunk == \E g \in Ranking : Ranked(g)

Tidy == Acyclic(fat) /\ Rooted /\ Named /\ Ashore /\ Sunk

LInv == WInv /\ (state = "clean" => Tidy)
================================================================================
