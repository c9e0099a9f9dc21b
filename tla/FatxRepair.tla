------------------------------ MODULE FatxRepair ------------------------------
(***************************************************************************)
(* The chain map repair (Xbox360.Fatx/Repair/FatxRepairService.cs,         *)
(* AnalyzeAsync with applyRepairs) on a volume in any state: it reads the  *)
(* whole chain map once, finds the clusters that directories lead to, and  *)
(* zeroes the entries of all others, one write after the other.  The run   *)
(* can be cut short between two writes and be started again.               *)
(*                                                                         *)
(* Directories are not written by the repair: "records" never changes.     *)
(* Every cluster is in reach of the stream here (see FatxMutation for      *)
(* those that are not).  A directory that can be reached from itself makes *)
(* CollectReferencedChainsAsync recurse without end; here its clusters are *)
(* found once.                                                             *)
(***************************************************************************)
EXTENDS Naturals, Sequences, FiniteSets, FatxChain

CONSTANTS
  TotalClusters, RootCluster, END, BAD, MaxChain,  \* as in FatxAllocation
  MaxRecords,  \* bound: records in the root directory
  MaxCrashes   \* bound: runs that are cut short

(* An entry is a cluster, a terminal mark, or neither.                     *)
ASSUME VolumeAssumption ==
  /\ TotalClusters \in Nat /\ TotalClusters >= 2
  /\ RootCluster \in 1 .. TotalClusters - 1
  /\ END \in Nat /\ END >= TotalClusters
  /\ BAD \in Nat /\ BAD >= TotalClusters /\ BAD # END
ASSUME CrashAssumption == MaxCrashes \in Nat

VARIABLES
  fat, heads, task, got, written, tail, cur, visited, torn,  \* FatxAllocation
  records,    \* records in each cluster, if it is one of a directory
  phase,      \* idle, invalid, heads or rest: the loop of AnalyzeAsync
  entries,    \* the chain map AnalyzeAsync read
  invalid,    \* invalidUnreferenced, those still to be zeroed
  todo,       \* heads, those still to be freed
  orphaned,   \* orphaned
  crashes     \* runs cut short so far

Editor == INSTANCE FatxAllocation

editor == <<heads, task, got, written, tail, cur, visited, torn>>
report == <<entries, invalid, todo, orphaned>>
vars == <<fat, editor, records, phase, report, crashes>>

Cluster == 1 .. TotalClusters - 1
Record == [dir : BOOLEAN, first : Cluster \ {RootCluster}]

-----------------------------------------------------------------------------
(* What the analysis finds in a chain map f.                               *)

(* The clusters MarkChain and SafeReadChainAsync go through.               *)
Chain(f, first) == Reach(f, first, Cluster)

(* ListDirectoryAsync; an exception is caught and shows no records.        *)
Listing(f, first) ==
  LET C == Chain(f, first)
  IN IF \E c \in C : Editor!IsTerminalValue(f[c]) THEN UNION {records[c] : c \in C} ELSE {}

(* CollectReferencedChainsAsync, level by level.                           *)
ListedRecords(f) ==
  LET below[n \in 0 .. TotalClusters] ==
        IF n = 0 THEN Listing(f, RootCluster)
        ELSE UNION {S \cup UNION {Listing(f, r.first) : r \in {d \in S : d.dir}}
                    : S \in {below[n - 1]}}
  IN below[TotalClusters]

\* Mutant: only the first cluster of a chain is marked.
MarkChainHead(f, first) == {first}

MarkChain(f, first) == Chain(f, first)

Referenced(f) == {RootCluster} \cup UNION {MarkChain(f, r.first) : r \in ListedRecords(f)}

Allocated(f) == {c \in Cluster : f[c] # Editor!FREE}
Orphans(f) == Allocated(f) \ Referenced(f)
InvalidUnreferenced(f) == {c \in Orphans(f) : f[c] = BAD}

\* Mutant: every cluster without predecessor is a head.
HeadsOfAll(f) == {c \in Allocated(f) : \A p \in Cluster : f[p] # c}

Heads(f) ==
  {c \in Orphans(f) \ InvalidUnreferenced(f) : \A p \in Cluster : f[p] # c}

-----------------------------------------------------------------------------
TypeOK ==
  /\ Editor!TypeOK
  /\ phase \in {"idle", "invalid", "heads", "rest"}
  /\ entries \in [Cluster -> Editor!Entry]
  /\ invalid \subseteq Orphans(entries)
  /\ todo \subseteq Orphans(entries)
  /\ orphaned \subseteq Orphans(entries)
  /\ crashes \in 0 .. MaxCrashes

(* Any chain map; records in the root directory, one in another cluster.   *)
Init ==
  /\ fat \in [Cluster -> Editor!Entry]
  /\ \E R \in {Q \in SUBSET Record : Cardinality(Q) <= MaxRecords},
        S \in {{}} \cup {{r} : r \in Record}, d \in Cluster :
       records = [c \in Cluster |-> IF c = RootCluster THEN R ELSE IF c = d THEN S ELSE {}]
  /\ Editor!Idle /\ heads = {} /\ torn = TRUE
  /\ phase = "idle"
  /\ entries = fat
  /\ invalid = {} /\ todo = {} /\ orphaned = {}
  /\ crashes = 0

(* The next one, in the order of OrderBy and of the loop over "entries".   *)
IsLeast(c, S) == c \in S /\ \A d \in S : c <= d

Finish ==
  /\ phase' = "idle"
  /\ entries' = fat'
  /\ invalid' = {} /\ todo' = {} /\ orphaned' = {}

(* The analysis: the reads, and the loops that only compute.               *)
Analyze ==
  /\ phase = "idle"
  /\ phase' = "invalid"
  /\ entries' = fat
  /\ invalid' = InvalidUnreferenced(fat)
  /\ todo' = Heads(fat)
  /\ orphaned' = Orphans(fat) \ InvalidUnreferenced(fat)
  /\ UNCHANGED <<fat, editor, records, crashes>>

ZeroInvalid ==
  /\ phase = "invalid"
  /\ \/ \E c \in invalid :
          /\ IsLeast(c, invalid)
          /\ fat' = [fat EXCEPT ![c] = Editor!FREE]
          /\ invalid' = invalid \ {c}
          /\ UNCHANGED phase
     \/ /\ invalid = {}
        /\ phase' = "heads"
        /\ UNCHANGED <<fat, invalid>>
  /\ UNCHANGED <<editor, records, entries, todo, orphaned, crashes>>

FreeHead ==
  /\ phase = "heads"
  /\ task = "idle"
  /\ \/ \E c \in todo :
          /\ IsLeast(c, todo)
          /\ Editor!BeginFree(c)
          /\ todo' = todo \ {c}
          /\ orphaned' = orphaned \ Chain(entries, c)
          /\ UNCHANGED phase
     \/ /\ todo = {}
        /\ phase' = "rest"
        /\ UNCHANGED <<fat, editor, todo, orphaned>>
  /\ UNCHANGED <<records, entries, invalid, crashes>>

FreeNext ==
  /\ Editor!FreeStep
  /\ UNCHANGED <<records, phase, report, crashes>>

(* FreeChainAsync met a loop, or an entry outside the chain map: the       *)
(* exception ends the run.                                                 *)
FreeThrows ==
  /\ Editor!ThrowCorrupt
  /\ Finish
  /\ UNCHANGED <<records, crashes>>

\* Mutant: nothing is done about orphans that no head leads to.
ZeroRestSkipped ==
  /\ phase = "rest"
  /\ UNCHANGED <<fat, editor, records, crashes>>
  /\ Finish

ZeroRest ==
  /\ phase = "rest"
  /\ UNCHANGED <<editor, records, crashes>>
  /\ \/ \E c \in orphaned :
          /\ IsLeast(c, orphaned)
          /\ fat' = [fat EXCEPT ![c] = Editor!FREE]
          /\ orphaned' = orphaned \ {c}
          /\ UNCHANGED <<phase, entries, invalid, todo>>
     \/ /\ orphaned = {}
        /\ UNCHANGED fat
        /\ Finish

Crash ==
  /\ phase # "idle"
  /\ crashes < MaxCrashes
  /\ crashes' = crashes + 1
  /\ Editor!Rest
  /\ UNCHANGED <<fat, heads, torn, records>>
  /\ Finish

RepairStep == ZeroInvalid \/ FreeHead \/ FreeNext \/ FreeThrows \/ ZeroRest

Next == Analyze \/ RepairStep \/ Crash

(* A run that was started goes on, and somebody starts the repair again.   *)
Spec == Init /\ [][Next]_vars /\ WF_vars(Analyze) /\ WF_vars(RepairStep)

-----------------------------------------------------------------------------
(* The clusters that belong to somebody: the chain of the root directory,  *)
(* which every listing reads, and those of the records a reader is shown.  *)
Owned(f) == UNION {Chain(f, r.first) : r \in ListedRecords(f)}
Live(f) == Chain(f, RootCluster) \cup Owned(f)

(* What the analysis misses of them (see RootKept): the later clusters of  *)
(* the root directory.                                                     *)
RootTail(f) == Chain(f, RootCluster) \ ({RootCluster} \cup Owned(f))

(* No other cluster leads to one of these.                                 *)
Apart(f) == \A c \in Cluster \ Live(f) : f[c] \notin Live(f)

(* Then a repair, completed or cut short, never touches the chain of a     *)
(* file or a directory, the later clusters of the root directory excepted  *)
(* (FatxRepairService.cs:60-94).                                           *)
LiveKept ==
  Apart(entries) =>
    \A c \in Live(entries) \ RootTail(entries) : fat[c] = entries[c]

(* A run that gets to its end has given back every cluster that belongs to *)
(* nobody, on every volume: the three loops miss none, whatever shape the  *)
(* orphaned chains have (FatxRepairService.cs:58-94).                      *)
AllReclaimed ==
  [][phase = "rest" /\ phase' = "idle" /\ crashes' = crashes =>
       Allocated(fat) \subseteq Live(entries)]_vars

(* Starting the repair again and again leaves no orphan behind on any      *)
(* volume, after crashes and exceptions too.                               *)
Converges == <>[](Allocated(fat) \subseteq Live(fat))

-----------------------------------------------------------------------------
(* The chain of the root directory ends in a terminal mark and shares no   *)
(* cluster with another, and all that is allocated belongs to somebody.    *)
Healthy(f) ==
  /\ \E c \in Chain(f, RootCluster) : f[c] = END
  /\ Chain(f, RootCluster) \cap Owned(f) = {}
  /\ Allocated(f) \subseteq Live(f)

(* "Repair safe FATX chain-map issues such as orphaned allocations"        *)
(* (wiki/CLI-Help.md:1263): on a healthy volume, where there are none, the *)
(* root directory keeps all its clusters (FatxRepairService.cs:22).        *)
RootKept ==
  Healthy(entries) => \A c \in Chain(entries, RootCluster) : fat[c] = entries[c]
=============================================================================
