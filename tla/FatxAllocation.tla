---------------------------- MODULE FatxAllocation ----------------------------
(***************************************************************************)
(* The chain map of a FATX volume and the editor that changes it           *)
(* (Xbox360.Fatx/Writing/FatxAllocationTableEditor.cs).                    *)
(*                                                                         *)
(* The chain map holds one entry per cluster: 0 for a free cluster, a      *)
(* terminal mark for the last cluster of a chain, the next cluster         *)
(* otherwise.  Every read and every write of an entry is an await of its   *)
(* own, so an exception, a cancellation or the end of the process can      *)
(* leave an operation half done between any two writes.  The volume is     *)
(* opened for one writer and its operations are awaited one after the      *)
(* other: at most one editor operation is in progress, kept in "task".     *)
(*                                                                         *)
(* The callers (FatxDirectoryEditor, FatxMutationService) are abstracted   *)
(* to the set "heads" of first clusters they hold: they give back or       *)
(* extend only a chain they hold, and hold it until its first entry is     *)
(* free.                                                                   *)
(***************************************************************************)
EXTENDS Naturals, Sequences, FiniteSets

CONSTANTS
  TotalClusters,  \* FatxVolumeHeader.TotalClusters: clusters are 1 .. TotalClusters-1
  RootCluster,    \* FatxVolumeHeader.RootDirectoryCluster
  END,            \* the terminal mark, 0xFFFF or 0xFFFFFFFF
  BAD,            \* stands for every entry that is neither a cluster nor terminal
  MaxChain        \* bound: clusters asked for in one AllocateChainAsync

ASSUME ClusterAssumption == TotalClusters \in Nat /\ TotalClusters >= 2
ASSUME RootAssumption == RootCluster \in 1 .. TotalClusters - 1
ASSUME EndAssumption == END \in Nat /\ END >= TotalClusters
ASSUME BadAssumption == BAD \in Nat /\ BAD >= TotalClusters /\ BAD # END
ASSUME ChainAssumption == MaxChain \in Nat

VARIABLES
  fat,      \* the chain map on the disk
  heads,    \* first clusters of the chains callers hold
  task,     \* what the editor is doing: idle, walk, alloc, link or free
  got,      \* clusters FindFreeClustersAsync chose
  written,  \* how many entries of "got" are on the disk
  tail,     \* last cluster of the chain being extended, 0 for a plain allocation
  cur,      \* "current" of GetChainAsync and FreeChainAsync
  visited,  \* their HashSet
  torn      \* history: an allocation was cut between two of its entries

editor == <<task, got, written, tail, cur, visited>>
vars == <<fat, heads, editor, torn>>

Cluster == 1 .. TotalClusters - 1
FREE == 0
Entry == {FREE, END, BAD} \cup Cluster

IsTerminalValue(value) == value = FREE \/ value = END

\* Mutant: the test for a free entry is the one for a terminal entry.
FreeClustersTerminal == {c \in Cluster : IsTerminalValue(fat[c])}

FreeClusters == {c \in Cluster : fat[c] = FREE}

(* The first fit of FindFreeClustersAsync: ascending, and no free cluster  *)
(* is passed over.                                                         *)
FirstFit(s) ==
  /\ \A i, j \in DOMAIN s : i < j => s[i] < s[j]
  /\ \A c \in FreeClusters, i \in DOMAIN s :
       c < s[i] => \E j \in DOMAIN s : s[j] = c

FindFreeClusters(n) == {s \in [1 .. n -> FreeClusters] : FirstFit(s)}

TypeOK ==
  /\ fat \in [Cluster -> Entry]
  /\ heads \subseteq Cluster
  /\ task \in {"idle", "walk", "alloc", "link", "free"}
  /\ got \in Seq(Cluster)
  /\ written \in 0 .. Len(got)
  /\ tail \in Cluster \cup {0}
  /\ cur \in Cluster \cup {0, BAD}
  /\ visited \subseteq Cluster
  /\ torn \in BOOLEAN

Idle ==
  /\ task = "idle"
  /\ got = << >>
  /\ written = 0
  /\ tail = 0
  /\ cur = 0
  /\ visited = {}

Rest ==
  /\ task' = "idle"
  /\ got' = << >>
  /\ written' = 0
  /\ tail' = 0
  /\ cur' = 0
  /\ visited' = {}

(* FatxFormatter leaves a terminal entry for the root directory and zeros  *)
(* everywhere else.                                                        *)
Init ==
  /\ fat = [c \in Cluster |-> IF c = RootCluster THEN END ELSE FREE]
  /\ heads = {RootCluster}
  /\ Idle
  /\ torn = FALSE

-----------------------------------------------------------------------------
(* AllocateChainAsync: the free clusters are all found before the first    *)
(* entry is written; too few of them is an exception that changes nothing. *)
AllocateChain(n) ==
  /\ task = "idle"
  /\ got' \in FindFreeClusters(n)
  /\ task' = "alloc"
  /\ UNCHANGED <<fat, heads, written, tail, cur, visited, torn>>

(* One WriteEntryAsync of AllocateChainAsync: each cluster to the next one, *)
(* first to last, and the terminal mark at the end.                         *)
AllocateLink ==
  /\ task = "alloc"
  /\ written + 1 < Len(got)
  /\ fat' = [fat EXCEPT ![got[written + 1]] = got[written + 2]]
  /\ written' = written + 1
  /\ UNCHANGED <<heads, task, got, tail, cur, visited, torn>>

AllocateEnd ==
  /\ task = "alloc"
  /\ written + 1 = Len(got)
  /\ fat' = [fat EXCEPT ![got[written + 1]] = END]
  /\ IF tail = 0
     THEN /\ heads' = heads \cup {got[1]}
          /\ Rest
     ELSE /\ task' = "link"
          /\ written' = written + 1
          /\ UNCHANGED <<heads, got, tail, cur, visited>>
  /\ UNCHANGED torn

(* AppendClusterAsync: read the chain, allocate one cluster, then link the *)
(* old last cluster to it.                                                 *)
BeginAppend(first) ==
  /\ task = "idle"
  /\ task' = "walk"
  /\ cur' = first
  /\ UNCHANGED <<fat, heads, got, written, tail, visited, torn>>

AppendCluster(first) == first \in heads /\ BeginAppend(first)

\* Mutant: GetChainAsync goes on after a terminal entry.
WalkNextPastEnd ==
  /\ task = "walk"
  /\ cur \in Cluster \ visited
  /\ visited' = visited \cup {cur}
  /\ cur' = fat[cur]
  /\ UNCHANGED <<fat, heads, task, got, written, tail, torn>>

\* Mutant: GetChainAsync without the loop check.
WalkNextNoCheck ==
  /\ task = "walk"
  /\ cur \in Cluster
  /\ ~IsTerminalValue(fat[cur])
  /\ visited' = visited \cup {cur}
  /\ cur' = fat[cur]
  /\ UNCHANGED <<fat, heads, task, got, written, tail, torn>>

WalkNext ==
  /\ task = "walk"
  /\ cur \in Cluster \ visited
  /\ ~IsTerminalValue(fat[cur])
  /\ visited' = visited \cup {cur}
  /\ cur' = fat[cur]
  /\ UNCHANGED <<fat, heads, task, got, written, tail, torn>>

WalkEnd ==
  /\ task = "walk"
  /\ cur \in Cluster \ visited
  /\ IsTerminalValue(fat[cur])
  /\ IF FreeClusters = {}
     THEN Rest
     ELSE /\ got' \in FindFreeClusters(1)
          /\ task' = "alloc"
          /\ tail' = cur
          /\ cur' = 0
          /\ visited' = {}
          /\ UNCHANGED written
  /\ UNCHANGED <<fat, heads, torn>>

AppendLink ==
  /\ task = "link"
  /\ fat' = [fat EXCEPT ![tail] = got[1]]
  /\ Rest
  /\ UNCHANGED <<heads, torn>>

(* FreeChainAsync: from the first cluster on, read the entry and zero it.  *)
BeginFree(first) ==
  /\ task = "idle"
  /\ task' = "free"
  /\ cur' = first
  /\ UNCHANGED <<fat, heads, got, written, tail, visited, torn>>

FreeChain(first) == first \in heads \ {RootCluster} /\ BeginFree(first)

\* Mutant: FreeChainAsync zeroes the entry it goes on to.
FreeStepAhead ==
  /\ task = "free"
  /\ cur \in Cluster \ visited
  /\ heads' = heads \ {cur}
  /\ IF IsTerminalValue(fat[cur])
     THEN /\ fat' = [fat EXCEPT ![cur] = FREE]
          /\ Rest
     ELSE /\ fat' = [fat EXCEPT ![fat[cur]] = FREE]
          /\ visited' = visited \cup {cur}
          /\ cur' = fat[cur]
          /\ UNCHANGED <<task, got, written, tail>>
  /\ UNCHANGED torn

FreeStep ==
  /\ task = "free"
  /\ cur \in Cluster \ visited
  /\ heads' = heads \ {cur}
  /\ fat' = [fat EXCEPT ![cur] = FREE]
  /\ IF IsTerminalValue(fat[cur])
     THEN Rest
     ELSE /\ visited' = visited \cup {cur}
          /\ cur' = fat[cur]
          /\ UNCHANGED <<task, got, written, tail>>
  /\ UNCHANGED torn

(* The exceptions of GetChainAsync and FreeChainAsync: ValidateCluster for *)
(* a cluster outside the chain map, and the loop check.                    *)
ChainCorrupt == task \in {"walk", "free"} /\ cur \notin Cluster \ visited

ThrowCorrupt ==
  /\ ChainCorrupt
  /\ Rest
  /\ UNCHANGED <<fat, heads, torn>>

(* An I/O exception, or the end of the process, between two awaits.  The   *)
(* allocation is torn when some, but not all, of its entries are written.  *)
Interrupt ==
  /\ task # "idle"
  /\ torn' = (torn \/ (task = "alloc" /\ written > 0))
  /\ Rest
  /\ UNCHANGED <<fat, heads>>

EditorStep ==
  \/ AllocateLink \/ AllocateEnd
  \/ WalkNext \/ WalkEnd \/ AppendLink
  \/ FreeStep
  \/ ThrowCorrupt

Next ==
  \/ \E n \in 1 .. MaxChain : AllocateChain(n)
  \/ \E first \in heads : AppendCluster(first) \/ FreeChain(first)
  \/ EditorStep
  \/ Interrupt

Spec == Init /\ [][Next]_vars

(* The editor on an image somebody else damaged: any chain map, and        *)
(* callers that found any first clusters in its directories.               *)
DamagedInit ==
  /\ fat \in [Cluster -> Entry]
  /\ heads \in {H \in SUBSET Cluster : RootCluster \in H}
  /\ Idle
  /\ torn = TRUE

(* The editor on either image.                                             *)
AnyImageSpec == (Init \/ DamagedInit) /\ [][Next]_vars

(* An operation that was started keeps running: its awaits complete, or    *)
(* throw (Interrupt).                                                      *)
FairSpec == AnyImageSpec /\ WF_vars(EditorStep)

-----------------------------------------------------------------------------
(* Two chains never run into each other: no cluster has two predecessors,  *)
(* and the first cluster of a chain a caller holds has none.  FreeChain of *)
(* one file can then never release a cluster of another                    *)
(* (FatxAllocationTableEditor.cs:124-151).                                 *)
ChainsDisjoint ==
  ~torn => /\ \A a, b \in Cluster : fat[a] = fat[b] /\ fat[a] \in Cluster => a = b
           /\ \A a \in Cluster : fat[a] \notin heads

(* No chain runs into free space, where the next allocation would make its *)
(* rest part of another file.  The one link into free space an untorn      *)
(* table may have is the one an allocation in progress wrote last          *)
(* (FatxAllocationTableEditor.cs:100-106).                                 *)
NoLinkIntoFreeSpace ==
  ~torn => \A c \in Cluster :
             fat[c] \in Cluster /\ fat[fat[c]] = FREE
               => task = "alloc" /\ written > 0 /\ c = got[written]

(* The exceptions of GetChainAsync and FreeChainAsync are for damaged      *)
(* images: the editor's own operations, cut short anywhere but inside an   *)
(* allocation, never build a chain map that raises them                    *)
(* (FatxAllocationTableEditor.cs:68-72, 136-140).                          *)
NeverCorrupt == ~torn => ~ChainCorrupt

(* An allocation takes clusters nobody uses: the only entry in use that a  *)
(* step may redirect is the terminal mark of a chain being extended.  This *)
(* holds on a damaged chain map too.                                       *)
UsedEntriesKept ==
  [][\A c \in Cluster :
       fat[c] # FREE /\ fat'[c] \notin {fat[c], FREE} => fat[c] = END /\ c = tail]_vars

(* Every operation ends, whatever the chain map holds: a loop in a chain   *)
(* is an exception and not an endless read.                                *)
OperationsEnd == task # "idle" ~> task = "idle"
=============================================================================
