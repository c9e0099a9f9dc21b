--------------------------- MODULE FatxRepairProofs ---------------------------
(***************************************************************************)
(* Proofs about FatxRepair, for every number of clusters, every chain map, *)
(* every directory tree and every number of crashes.                       *)
(***************************************************************************)
EXTENDS FatxRepair, FatxChainProofs

USE CrashAssumption

LEMMA ClusterFinite == IsFiniteSet(Cluster)
<1>1. 1 \in Int /\ TotalClusters - 1 \in Int
  BY VolumeAssumption
<1>. QED BY <1>1, FS_Interval DEF Cluster

(* The loops zero clusters that no record leads to, and FreeChainAsync,    *)
(* which reads the chain map as it is by then, stays among those that      *)
(* belong to nobody.                                                       *)
Away ==
  /\ \A c \in Cluster : fat[c] \in {entries[c], Editor!FREE}
  /\ \A c \in Live(entries) \ RootTail(entries) : fat[c] = entries[c]
  /\ task = "free" => cur \notin Live(entries)

IInv ==
  /\ TypeOK
  /\ task \in {"idle", "free"}
  /\ task = "free" => phase = "heads"
  /\ phase = "idle" => entries = fat
  /\ todo \subseteq Heads(entries)
  /\ Apart(entries) => Away

LEMMA OrphansAreNotOwned ==
  ASSUME NEW f, NEW c \in Orphans(f)
  PROVE  c \in Cluster /\ c \notin Live(f) \ RootTail(f)
BY DEF Orphans, Allocated, Referenced, MarkChain, Live, RootTail, Owned

(* The later clusters of the root directory follow another one, so that no *)
(* chain is freed from there on.                                           *)
LEMMA HeadsAreNotLive ==
  ASSUME NEW f, DOMAIN f = Cluster, NEW c \in Heads(f) PROVE c \notin Live(f)
<1>. SUFFICES ASSUME c \in Live(f) PROVE FALSE
  OBVIOUS
<1>1. c \in Orphans(f) /\ \A p \in Cluster : f[p] # c
  BY DEF Heads
<1>2. c \in Reach(f, RootCluster, Cluster) /\ c # RootCluster
  BY <1>1, OrphansAreNotOwned DEF Orphans, Referenced, MarkChain, Live, Owned, Chain
<1>3. IsFiniteSet(DOMAIN f)
  BY ClusterFinite
<1>4. \E p \in Reach(f, RootCluster, Cluster) \cap Cluster : f[p] = c
  BY <1>2, <1>3, ReachPred
<1>. QED BY <1>1, <1>4

LEMMA ChosenAreOrphans ==
  ASSUME NEW f
  PROVE  /\ InvalidUnreferenced(f) \subseteq Orphans(f)
         /\ Heads(f) \subseteq Orphans(f)
BY DEF InvalidUnreferenced, Heads

(* What the analysis found does not change while the run goes on.          *)
LEMMA SameAnalysis ==
  ASSUME records' = records, entries' = entries
  PROVE  /\ Orphans(entries)' = Orphans(entries)
         /\ Heads(entries)' = Heads(entries)
         /\ Live(entries)' = Live(entries)
         /\ RootTail(entries)' = RootTail(entries)
         /\ Apart(entries)' = Apart(entries)
<1>1. ListedRecords(entries)' = ListedRecords(entries)
  BY DEF ListedRecords, Listing, Chain
<1>2. Owned(entries)' = Owned(entries)
  BY <1>1 DEF Owned, Chain
<1>3. Live(entries)' = Live(entries) /\ RootTail(entries)' = RootTail(entries)
  BY <1>2 DEF Live, RootTail, Chain
<1>4. Orphans(entries)' = Orphans(entries)
  BY <1>1 DEF Orphans, Allocated, Referenced, MarkChain, Chain
<1>5. Heads(entries)' = Heads(entries)
  BY <1>4 DEF Heads, InvalidUnreferenced
<1>. QED BY <1>3, <1>4, <1>5 DEF Apart

(* A run that ends, in whatever way, leaves nothing to go on with.         *)
LEMMA FinishIInv ==
  ASSUME Finish, Editor!TypeOK', task' = "idle", crashes' \in 0 .. MaxCrashes
  PROVE  IInv'
<1>1. TypeOK'
  BY DEF Finish, TypeOK, Editor!TypeOK, Cluster, Editor!Cluster
<1>2. Away'
  BY DEF Finish, Away
<1>. QED BY <1>1, <1>2 DEF Finish, IInv

LEMMA IInvInit == Init => IInv
<1>. SUFFICES ASSUME Init PROVE IInv
  OBVIOUS
<1>1. << >> \in Seq(Cluster)
  OBVIOUS
<1>2. TypeOK
  BY <1>1 DEF Init, TypeOK, Editor!TypeOK, Editor!Idle, Cluster, Editor!Cluster
<1>3. Away
  BY DEF Init, Away, Editor!Idle
<1>. QED BY <1>2, <1>3 DEF IInv, Init, Editor!Idle

LEMMA IInvNext == IInv /\ [Next]_vars => IInv'
<1>. SUFFICES ASSUME IInv, [Next]_vars PROVE IInv'
  OBVIOUS
<1>. USE DEF IInv
<1>1. CASE Analyze
  <2>. entries' = entries /\ records' = records
    BY <1>1 DEF Analyze
  <2>. USE SameAnalysis
  <2>1. TypeOK'
    BY <1>1, ChosenAreOrphans DEF Analyze, TypeOK, Editor!TypeOK, editor
  <2>2. Away'
    BY <1>1 DEF Analyze, Away, editor
  <2>. QED BY <1>1, <2>1, <2>2 DEF Analyze, editor
<1>2. CASE ZeroInvalid
  <2>. entries' = entries /\ records' = records
    BY <1>2 DEF ZeroInvalid
  <2>. USE SameAnalysis
  <2>1. CASE invalid = {}
    BY <1>2, <2>1 DEF ZeroInvalid, TypeOK, Editor!TypeOK, editor, Away, Apart
  <2>2. ASSUME NEW c \in invalid, fat' = [fat EXCEPT ![c] = Editor!FREE],
               invalid' = invalid \ {c}, UNCHANGED phase
        PROVE  IInv'
    <3>1. c \in Cluster /\ c \notin Live(entries) \ RootTail(entries)
      BY <2>2, OrphansAreNotOwned DEF TypeOK
    <3>2. fat' \in [Cluster -> Editor!Entry]
      BY <2>2, <3>1 DEF TypeOK, Editor!TypeOK, Editor!Entry, Cluster, Editor!Cluster
    <3>3. TypeOK'
      BY <1>2, <2>2, <3>2 DEF ZeroInvalid, TypeOK, Editor!TypeOK, editor, Cluster, Editor!Cluster
    <3>4. Apart(entries) => Away'
      BY <1>2, <2>2, <3>1 DEF ZeroInvalid, Away, editor, TypeOK, Editor!TypeOK, Cluster, Editor!Cluster
    <3>. QED BY <1>2, <2>2, <3>3, <3>4 DEF ZeroInvalid, editor
  <2>. QED BY <1>2, <2>1, <2>2 DEF ZeroInvalid
<1>3. CASE FreeHead
  <2>. entries' = entries /\ records' = records
    BY <1>3 DEF FreeHead
  <2>. USE SameAnalysis
  <2>1. CASE todo = {} /\ UNCHANGED <<fat, editor, todo, orphaned>>
    BY <1>3, <2>1 DEF FreeHead, TypeOK, Editor!TypeOK, editor, Away, Apart
  <2>2. ASSUME NEW c \in todo, Editor!BeginFree(c), todo' = todo \ {c},
               orphaned' = orphaned \ Chain(entries, c), UNCHANGED phase
        PROVE  IInv'
    <3>1. c \in Cluster /\ c \notin Live(entries)
      BY <2>2, ChosenAreOrphans, OrphansAreNotOwned, HeadsAreNotLive
      DEF TypeOK, Editor!TypeOK, Cluster, Editor!Cluster
    <3>2. TypeOK'
      BY <1>3, <2>2, <3>1 DEF FreeHead, TypeOK, Editor!TypeOK, Editor!BeginFree, Cluster, Editor!Cluster
    <3>3. Apart(entries) => Away'
      BY <1>3, <2>2, <3>1 DEF FreeHead, Away, Editor!BeginFree
    <3>. QED BY <1>3, <2>2, <3>2, <3>3 DEF FreeHead, Editor!BeginFree
  <2>. QED BY <1>3, <2>1, <2>2 DEF FreeHead
<1>4. CASE FreeNext
  <2>. entries' = entries /\ records' = records
    BY <1>4 DEF FreeNext, report
  <2>. USE SameAnalysis
  <2>1. /\ cur \in Cluster /\ task = "free" /\ fat' = [fat EXCEPT ![cur] = Editor!FREE]
        /\ UNCHANGED <<records, phase, report, crashes, torn>> /\ heads' = heads \ {cur}
        /\ fat \in [Cluster -> Editor!Entry]
    BY <1>4 DEF FreeNext, Editor!FreeStep, TypeOK, Editor!TypeOK, Cluster, Editor!Cluster
  <2>2. fat' \in [Cluster -> Editor!Entry]
    BY <2>1 DEF Editor!Entry
  <2>3. CASE Editor!IsTerminalValue(fat[cur])
    <3>1. Editor!Rest
      BY <1>4, <2>3 DEF FreeNext, Editor!FreeStep
    <3>2. << >> \in Seq(Cluster)
      OBVIOUS
    <3>3. TypeOK'
      BY <2>1, <2>2, <3>1, <3>2 DEF TypeOK, Editor!TypeOK, Editor!Rest, report, Cluster, Editor!Cluster
    <3>4. Apart(entries) => Away'
      BY <2>1, <3>1 DEF Away, Editor!Rest, report
    <3>. QED BY <2>1, <3>1, <3>3, <3>4 DEF report, Editor!Rest
  <2>4. CASE ~Editor!IsTerminalValue(fat[cur])
    <3>1. /\ visited' = visited \cup {cur} /\ cur' = fat[cur]
          /\ UNCHANGED <<task, got, written, tail>>
      BY <1>4, <2>4 DEF FreeNext, Editor!FreeStep
    <3>2. cur' \in Cluster \cup {BAD}
      BY <2>1, <2>4, <3>1 DEF Editor!IsTerminalValue, Editor!Entry, Cluster, Editor!Cluster
    <3>3. TypeOK'
      BY <2>1, <2>2, <3>1, <3>2 DEF TypeOK, Editor!TypeOK, report, Cluster, Editor!Cluster
    <3>4. ASSUME Apart(entries) PROVE Away'
      <4>1. cur \notin Live(entries) /\ fat[cur] = entries[cur]
        BY <2>1, <2>4, <3>4 DEF Away, Editor!IsTerminalValue
      <4>2. cur' \notin Live(entries)
        BY <2>1, <3>1, <3>4, <4>1 DEF Apart
      <4>. QED BY <2>1, <3>1, <3>4, <4>1, <4>2 DEF Away, report
    <3>. QED BY <2>1, <3>1, <3>3, <3>4 DEF report
  <2>. QED BY <2>3, <2>4
<1>5. CASE FreeThrows
  <2>1. << >> \in Seq(Cluster)
    OBVIOUS
  <2>2. Editor!TypeOK'
    BY <1>5, <2>1 DEF FreeThrows, Editor!ThrowCorrupt, Editor!Rest, TypeOK, Editor!TypeOK, Cluster, Editor!Cluster
  <2>. QED BY <1>5, <2>2, FinishIInv DEF FreeThrows, Editor!ThrowCorrupt, Editor!Rest, TypeOK
<1>6. CASE ZeroRest
  <2>1. ASSUME NEW c \in orphaned, fat' = [fat EXCEPT ![c] = Editor!FREE],
               orphaned' = orphaned \ {c}, UNCHANGED <<phase, entries, invalid, todo>>
        PROVE  IInv'
    <3>. entries' = entries /\ records' = records
      BY <1>6, <2>1 DEF ZeroRest
    <3>. USE SameAnalysis
    <3>1. c \in Cluster /\ c \notin Live(entries) \ RootTail(entries)
      BY <2>1, OrphansAreNotOwned DEF TypeOK
    <3>2. fat' \in [Cluster -> Editor!Entry]
      BY <2>1, <3>1 DEF TypeOK, Editor!TypeOK, Editor!Entry, Cluster, Editor!Cluster
    <3>3. TypeOK'
      BY <1>6, <2>1, <3>2 DEF ZeroRest, TypeOK, Editor!TypeOK, editor, Cluster, Editor!Cluster
    <3>4. Apart(entries) => Away'
      BY <1>6, <2>1, <3>1 DEF ZeroRest, Away, editor, TypeOK, Editor!TypeOK, Cluster, Editor!Cluster
    <3>. QED BY <1>6, <2>1, <3>3, <3>4 DEF ZeroRest, editor
  <2>2. CASE UNCHANGED fat /\ Finish
    <3>1. Editor!TypeOK'
      BY <1>6, <2>2 DEF ZeroRest, TypeOK, Editor!TypeOK, editor
    <3>2. task = "idle"
      BY <1>6 DEF ZeroRest, TypeOK
    <3>. QED BY <1>6, <2>2, <3>1, <3>2, FinishIInv DEF ZeroRest, editor, TypeOK
  <2>. QED BY <1>6, <2>1, <2>2 DEF ZeroRest
<1>7. CASE Crash
  <2>1. << >> \in Seq(Cluster)
    OBVIOUS
  <2>2. Editor!TypeOK'
    BY <1>7, <2>1 DEF Crash, Editor!Rest, TypeOK, Editor!TypeOK, Cluster, Editor!Cluster
  <2>3. crashes' \in 0 .. MaxCrashes
    BY <1>7 DEF Crash, TypeOK
  <2>. QED BY <1>7, <2>2, <2>3, FinishIInv DEF Crash, Editor!Rest
<1>8. CASE UNCHANGED vars
  BY <1>8, SameAnalysis DEF vars, editor, report, TypeOK, Editor!TypeOK, Away, Apart
<1>. QED
  BY <1>1, <1>2, <1>3, <1>4, <1>5, <1>6, <1>7, <1>8 DEF Next, RepairStep

(* The type invariant of the repair.                                       *)
THEOREM TypeCorrect == Spec => []TypeOK
<1>1. IInv => TypeOK
  BY DEF IInv
<1>. QED BY <1>1, IInvInit, IInvNext, PTL DEF Spec

(* Where no orphaned cluster leads into a live chain, no repair, completed *)
(* or cut short, changes the entry of a cluster that belongs to a file or  *)
(* a directory, but for the later clusters of the root directory:          *)
(* AnalyzeAsync and FreeChainAsync, which follows the chain map it is      *)
(* changing.                                                               *)
THEOREM LiveKeptTheorem == Spec => []LiveKept
<1>1. IInv => LiveKept
  BY DEF IInv, Away, LiveKept
<1>. QED BY <1>1, IInvInit, IInvNext, PTL DEF Spec

-----------------------------------------------------------------------------
(* Every orphan is zeroed, or is still in the hands of one of the three    *)
(* loops: in one of their lists, or ahead of FreeChainAsync on the chain   *)
(* the analysis read.                                                      *)
AllHeld ==
  \A c \in Orphans(entries) :
    \/ fat[c] = Editor!FREE
    \/ c \in invalid \cup orphaned
    \/ task = "free" /\ c \in Chain(entries, cur)

(* FreeChainAsync stops where another chain it freed went on.  What was    *)
(* behind is zeroed then: a zeroed cluster led to a zeroed one, or to the  *)
(* one FreeChainAsync is at.                                               *)
ZeroedThrough ==
  \A c \in Cluster :
    fat[c] = Editor!FREE /\ entries[c] \in Cluster
      => fat[entries[c]] = Editor!FREE \/ (task = "free" /\ entries[c] = cur)

OnlyZeroed == \A c \in Cluster : fat[c] \in {entries[c], Editor!FREE}

Accounted ==
  /\ OnlyZeroed
  /\ AllHeld
  /\ phase \in {"invalid", "heads"} => ZeroedThrough
  /\ phase # "invalid" => invalid = {}
  /\ invalid \subseteq InvalidUnreferenced(entries)

RInv == phase # "idle" => Accounted

LEMMA MarksAreNoClusters ==
  /\ Editor!FREE \notin Cluster /\ END \notin Cluster /\ BAD \notin Cluster
BY VolumeAssumption DEF Cluster, Editor!FREE

(* The chain from a cluster on: that cluster, and the chain from the one   *)
(* its entry names on.                                                     *)
LEMMA ChainStep ==
  ASSUME NEW f, DOMAIN f = Cluster, NEW a \in Cluster
  PROVE  Chain(f, a) \subseteq {a} \cup Chain(f, f[a])
<1>. DEFINE S == {a} \cup Reach(f, f[a], Cluster)
<1>1. IsFiniteSet(DOMAIN f)
  BY ClusterFinite
<1>2. a \in DOMAIN f => a \in S
  OBVIOUS
<1>3. ASSUME NEW c \in S \cap Cluster, f[c] \in DOMAIN f PROVE f[c] \in S
  <2>1. CASE c = a
    BY <1>1, <1>3, <2>1, ReachIn
  <2>2. CASE c \in Reach(f, f[a], Cluster)
    BY <1>1, <1>3, <2>2, ReachClosed
  <2>. QED BY <2>1, <2>2
<1>4. \A c \in S \cap Cluster : f[c] \in DOMAIN f => f[c] \in S
  BY <1>3
<1>. HIDE DEF S
<1>5. Reach(f, a, Cluster) \subseteq S
  BY <1>1, <1>2, <1>4, ReachLeast
<1>. QED BY <1>5 DEF S, Chain

(* A set of clusters that contains the first and that no entry leads out   *)
(* of holds the chain.                                                     *)
LEMMA ChainWithin ==
  ASSUME NEW f, DOMAIN f = Cluster, NEW a, NEW S,
         a \in S, \A c \in S \cap Cluster : f[c] \in Cluster => f[c] \in S
  PROVE  Chain(f, a) \subseteq S
<1>1. IsFiniteSet(DOMAIN f)
  BY ClusterFinite
<1>2. \A c \in S \cap Cluster : f[c] \in DOMAIN f => f[c] \in S
  OBVIOUS
<1>3. Reach(f, a, Cluster) \subseteq S
  BY <1>1, <1>2, ReachLeast
<1>. QED BY <1>3 DEF Chain

LEMMA RInvInit == Init => RInv
BY DEF Init, RInv

LEMMA SameHeld ==
  ASSUME records' = records, entries' = entries
  PROVE  /\ Orphans(entries)' = Orphans(entries)
         /\ InvalidUnreferenced(entries)' = InvalidUnreferenced(entries)
BY SameAnalysis DEF InvalidUnreferenced

LEMMA RInvAnalyze ==
  ASSUME IInv, RInv, Analyze PROVE RInv'
<1>1. /\ entries' = fat /\ fat' = fat /\ records' = records /\ phase' = "invalid"
      /\ invalid' = InvalidUnreferenced(fat)
      /\ orphaned' = Orphans(fat) \ InvalidUnreferenced(fat)
      /\ entries = fat
  BY DEF Analyze, IInv
<1>2. entries' = entries
  BY <1>1
<1>3. OnlyZeroed'
  BY <1>1 DEF OnlyZeroed
<1>4. AllHeld'
  BY <1>1, <1>2, SameHeld DEF AllHeld
<1>5. ZeroedThrough'
  BY <1>1, MarksAreNoClusters DEF ZeroedThrough
<1>6. (invalid \subseteq InvalidUnreferenced(entries))'
  BY <1>1, <1>2, SameHeld
<1>. QED BY <1>1, <1>3, <1>4, <1>5, <1>6 DEF RInv, Accounted

LEMMA RInvZeroInvalid ==
  ASSUME IInv, RInv, ZeroInvalid PROVE RInv'
<1>1. /\ phase = "invalid" /\ entries' = entries /\ records' = records
      /\ task' = task /\ cur' = cur /\ orphaned' = orphaned
  BY DEF ZeroInvalid, editor
<1>2. /\ Accounted /\ fat \in [Cluster -> Editor!Entry] /\ entries \in [Cluster -> Editor!Entry]
  BY <1>1 DEF RInv, IInv, TypeOK, Editor!TypeOK, Cluster, Editor!Cluster
<1>3. CASE invalid = {} /\ phase' = "heads" /\ UNCHANGED <<fat, invalid>>
  <2>1. OnlyZeroed' /\ ZeroedThrough'
    BY <1>1, <1>2, <1>3 DEF Accounted, OnlyZeroed, ZeroedThrough
  <2>2. AllHeld'
    BY <1>1, <1>2, <1>3, SameHeld DEF Accounted, AllHeld, Chain
  <2>. QED BY <1>1, <1>3, <2>1, <2>2 DEF RInv, Accounted
<1>4. ASSUME NEW c \in invalid, fat' = [fat EXCEPT ![c] = Editor!FREE],
             invalid' = invalid \ {c}, UNCHANGED phase
      PROVE  RInv'
  <2>1. c \in Cluster /\ entries[c] \notin Cluster
    BY <1>2, <1>4, OrphansAreNotOwned, MarksAreNoClusters DEF Accounted, InvalidUnreferenced
  <2>2. fat'[c] = Editor!FREE /\ \A d \in Cluster \ {c} : fat'[d] = fat[d]
    BY <1>2, <1>4, <2>1
  <2>3. OnlyZeroed'
    BY <1>1, <1>2, <2>2 DEF Accounted, OnlyZeroed
  <2>4. ZeroedThrough'
    BY <1>1, <1>2, <2>1, <2>2 DEF Accounted, ZeroedThrough
  <2>5. AllHeld'
    BY <1>1, <1>2, <1>4, <2>2, SameHeld, OrphansAreNotOwned DEF Accounted, AllHeld, Chain
  <2>6. (invalid \subseteq InvalidUnreferenced(entries))'
    BY <1>1, <1>2, <1>4, SameHeld DEF Accounted
  <2>. QED BY <1>1, <1>4, <2>3, <2>4, <2>5, <2>6 DEF RInv, Accounted
<1>. QED BY <1>3, <1>4 DEF ZeroInvalid

LEMMA RInvFreeHead ==
  ASSUME IInv, RInv, FreeHead PROVE RInv'
<1>1. /\ phase = "heads" /\ entries' = entries /\ records' = records
      /\ task = "idle" /\ invalid' = invalid
  BY DEF FreeHead
<1>2. Accounted /\ invalid = {}
  BY <1>1 DEF RInv, Accounted
<1>3. CASE todo = {} /\ phase' = "rest" /\ UNCHANGED <<fat, editor, todo, orphaned>>
  <2>1. OnlyZeroed' /\ ZeroedThrough'
    BY <1>1, <1>2, <1>3 DEF Accounted, OnlyZeroed, ZeroedThrough, editor
  <2>2. AllHeld'
    BY <1>1, <1>2, <1>3, SameHeld DEF Accounted, AllHeld, editor
  <2>. QED BY <1>1, <1>2, <1>3, <2>1, <2>2 DEF RInv, Accounted
<1>4. ASSUME NEW c \in todo, Editor!BeginFree(c),
             orphaned' = orphaned \ Chain(entries, c), UNCHANGED phase
      PROVE  RInv'
  <2>1. fat' = fat /\ task' = "free" /\ cur' = c
    BY <1>4 DEF Editor!BeginFree
  <2>2. OnlyZeroed'
    BY <1>1, <1>2, <2>1 DEF Accounted, OnlyZeroed
  <2>3. ZeroedThrough'
    BY <1>1, <1>2, <2>1 DEF Accounted, ZeroedThrough
  <2>4. AllHeld'
    BY <1>1, <1>2, <1>4, <2>1, SameHeld DEF Accounted, AllHeld, Chain
  <2>. QED BY <1>1, <1>2, <1>4, <2>2, <2>3, <2>4 DEF RInv, Accounted
<1>. QED BY <1>3, <1>4 DEF FreeHead

(* The heart of it: FreeChainAsync follows the chain map it is zeroing.    *)
LEMMA RInvFreeNext ==
  ASSUME IInv, RInv, FreeNext PROVE RInv'
<1>1. /\ task = "free" /\ phase = "heads" /\ phase' = phase
      /\ entries' = entries /\ records' = records
      /\ invalid' = invalid /\ orphaned' = orphaned
      /\ cur \in Cluster /\ fat' = [fat EXCEPT ![cur] = Editor!FREE]
  BY DEF FreeNext, Editor!FreeStep, report, IInv, Cluster, Editor!Cluster
<1>2. /\ Accounted /\ invalid = {} /\ fat \in [Cluster -> Editor!Entry]
      /\ entries \in [Cluster -> Editor!Entry]
  BY <1>1 DEF RInv, Accounted, IInv, TypeOK, Editor!TypeOK, Cluster, Editor!Cluster
<1>3. fat'[cur] = Editor!FREE /\ \A d \in Cluster \ {cur} : fat'[d] = fat[d]
  BY <1>1, <1>2
<1>4. OnlyZeroed'
  BY <1>1, <1>2, <1>3 DEF Accounted, OnlyZeroed
<1>5. CASE Editor!IsTerminalValue(fat[cur])
  <2>1. task' = "idle"
    BY <1>1, <1>5 DEF FreeNext, Editor!FreeStep, Editor!Rest
  <2>2. ZeroedThrough'
    <3>1. entries[cur] \in Cluster => fat[cur] = Editor!FREE
      BY <1>1, <1>2, <1>5, MarksAreNoClusters DEF Accounted, OnlyZeroed, Editor!IsTerminalValue
    <3>. QED BY <1>1, <1>2, <1>3, <3>1 DEF Accounted, ZeroedThrough
  <2>3. Chain(entries, cur) \subseteq {c \in Cluster : fat'[c] = Editor!FREE}
    <3>. DEFINE S == {c \in Cluster : fat'[c] = Editor!FREE}
    <3>1. cur \in S
      BY <1>1, <1>3
    <3>2. \A c \in S \cap Cluster : entries[c] \in Cluster => entries[c] \in S
      BY <1>1, <2>1, <2>2 DEF ZeroedThrough
    <3>3. DOMAIN entries = Cluster
      BY <1>2
    <3>. HIDE DEF S
    <3>4. Chain(entries, cur) \subseteq S
      BY <3>1, <3>2, <3>3, ChainWithin
    <3>. QED BY <3>4 DEF S
  <2>4. AllHeld'
    BY <1>1, <1>2, <1>3, <2>3, SameHeld, OrphansAreNotOwned DEF Accounted, AllHeld
  <2>. QED BY <1>1, <1>2, <1>4, <2>2, <2>4 DEF RInv, Accounted
<1>6. CASE ~Editor!IsTerminalValue(fat[cur])
  <2>1. task' = "free" /\ cur' = fat[cur]
    BY <1>1, <1>6 DEF FreeNext, Editor!FreeStep
  <2>2. fat[cur] = entries[cur]
    BY <1>1, <1>2, <1>6 DEF Accounted, OnlyZeroed, Editor!IsTerminalValue
  <2>3. ZeroedThrough'
    BY <1>1, <1>2, <1>3, <2>1, <2>2 DEF Accounted, ZeroedThrough
  <2>4. Chain(entries, cur) \subseteq {cur} \cup Chain(entries, entries[cur])
    BY <1>1, <1>2, ChainStep
  <2>5. AllHeld'
    BY <1>1, <1>2, <1>3, <2>1, <2>2, <2>4, SameHeld, OrphansAreNotOwned
    DEF Accounted, AllHeld, Chain
  <2>. QED BY <1>1, <1>2, <1>4, <2>3, <2>5 DEF RInv, Accounted
<1>. QED BY <1>5, <1>6

LEMMA RInvZeroRest ==
  ASSUME IInv, RInv, ZeroRest PROVE RInv'
<1>1. ASSUME NEW c \in orphaned, fat' = [fat EXCEPT ![c] = Editor!FREE],
             orphaned' = orphaned \ {c}, UNCHANGED <<phase, entries, invalid, todo>>
      PROVE  RInv'
  <2>1. /\ phase = "rest" /\ phase' = "rest" /\ entries' = entries /\ records' = records
        /\ task' = task /\ cur' = cur /\ invalid' = invalid
    BY <1>1 DEF ZeroRest, editor
  <2>2. /\ Accounted /\ invalid = {} /\ fat \in [Cluster -> Editor!Entry] /\ c \in Cluster
    BY <1>1, <2>1, OrphansAreNotOwned
    DEF RInv, Accounted, IInv, TypeOK, Editor!TypeOK, Cluster, Editor!Cluster
  <2>3. fat'[c] = Editor!FREE /\ \A d \in Cluster \ {c} : fat'[d] = fat[d]
    BY <1>1, <2>2
  <2>4. OnlyZeroed'
    BY <2>1, <2>2, <2>3 DEF Accounted, OnlyZeroed
  <2>5. AllHeld'
    BY <1>1, <2>1, <2>2, <2>3, SameHeld, OrphansAreNotOwned DEF Accounted, AllHeld, Chain
  <2>. QED BY <2>1, <2>2, <2>4, <2>5 DEF RInv, Accounted
<1>2. CASE Finish
  BY <1>2 DEF Finish, RInv
<1>. QED BY <1>1, <1>2 DEF ZeroRest

LEMMA RInvNext == IInv /\ RInv /\ [Next]_vars => RInv'
<1>. SUFFICES ASSUME IInv, RInv, [Next]_vars PROVE RInv'
  OBVIOUS
<1>1. CASE FreeThrows \/ Crash
  BY <1>1 DEF FreeThrows, Crash, Finish, RInv
<1>2. CASE UNCHANGED vars
  <2>1. /\ entries' = entries /\ records' = records /\ fat' = fat /\ phase' = phase
        /\ task' = task /\ cur' = cur /\ invalid' = invalid /\ orphaned' = orphaned
    BY <1>2 DEF vars, editor, report
  <2>. QED BY <2>1, SameHeld
    DEF RInv, Accounted, OnlyZeroed, AllHeld, ZeroedThrough, Chain
<1>. QED
  BY <1>1, <1>2, RInvAnalyze, RInvZeroInvalid, RInvFreeHead, RInvFreeNext, RInvZeroRest
  DEF Next, RepairStep

(* A run of AnalyzeAsync that gets to its end leaves nothing allocated but *)
(* the chains of the root directory and of files and directories: whatever *)
(* the orphaned chains look like (loops, chains that join, that run into   *)
(* live ones or out of the volume), none of them escapes the three loops.  *)
THEOREM AllReclaimedTheorem == Spec => AllReclaimed
<1>. DEFINE Complete == phase = "rest" /\ phase' = "idle" /\ crashes' = crashes
            NothingElse == Allocated(fat) \subseteq Live(entries)
<1>1. ASSUME IInv, RInv, [Next]_vars, Complete PROVE NothingElse
  <2>1. ~Analyze /\ ~ZeroInvalid /\ ~FreeHead
    BY <1>1 DEF Analyze, ZeroInvalid, FreeHead
  <2>2. task = "idle"
    BY <1>1 DEF IInv
  <2>3. ~FreeNext /\ ~FreeThrows
    BY <2>2 DEF FreeNext, FreeThrows, Editor!FreeStep, Editor!ThrowCorrupt, Editor!ChainCorrupt
  <2>4. ~Crash
    BY <1>1 DEF Crash, IInv, TypeOK
  <2>5. ~UNCHANGED vars
    BY <1>1 DEF vars
  <2>6. ZeroRest
    BY <1>1, <2>1, <2>3, <2>4, <2>5 DEF Next, RepairStep
  <2>7. orphaned = {}
    BY <1>1, <2>6 DEF ZeroRest
  <2>8. Accounted /\ invalid = {}
    BY <1>1 DEF RInv, Accounted
  <2>9. \A c \in Orphans(entries) : fat[c] = Editor!FREE
    BY <2>2, <2>7, <2>8 DEF Accounted, AllHeld
  <2>10. Allocated(fat) \subseteq Allocated(entries)
    BY <2>8 DEF Accounted, OnlyZeroed, Allocated
  <2>11. Referenced(entries) \subseteq Live(entries)
    <3>1. DOMAIN entries = Cluster
      BY <1>1 DEF IInv, TypeOK, Cluster
    <3>2. RootCluster \in Cluster
      BY VolumeAssumption DEF Cluster
    <3>3. RootCluster \in Chain(entries, RootCluster)
      BY <3>1, <3>2, ClusterFinite, ReachIn DEF Chain
    <3>. QED BY <3>3 DEF Referenced, MarkChain, Live, Owned
  <2>. QED BY <2>9, <2>10, <2>11 DEF Orphans, Allocated
<1>2. IInv /\ RInv /\ [Next]_vars => [Complete => NothingElse]_vars
  BY <1>1
<1>. HIDE DEF Complete, NothingElse
<1>3. Spec => [][Complete => NothingElse]_vars
  BY <1>2, IInvInit, IInvNext, RInvInit, RInvNext, PTL DEF Spec
<1>. QED BY <1>3 DEF AllReclaimed, Complete, NothingElse
=============================================================================
