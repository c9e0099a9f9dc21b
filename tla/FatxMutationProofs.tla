-------------------------- MODULE FatxMutationProofs --------------------------
(***************************************************************************)
(* Proofs about FatxMutation, for every volume, every set of names and     *)
(* paths of every length.                                                  *)
(***************************************************************************)
EXTENDS FatxMutationInv

-----------------------------------------------------------------------------
(* The constants.                                                          *)

LEMMA ClusterFacts ==
  /\ Cluster \subseteq Nat /\ IsFiniteSet(Cluster)
  /\ 0 \notin Cluster /\ END \notin Cluster /\ BAD \notin Cluster
  /\ RootCluster \in Cluster /\ OnDisk \subseteq Cluster
  /\ END # 0 /\ BAD # 0 /\ END # BAD
<1>1. TotalClusters - 1 \in Int /\ 1 \in Int
  BY VolumeAssumption
<1>2. IsFiniteSet(Cluster)
  BY <1>1, FS_Interval DEF Cluster
<1>. QED BY <1>2, VolumeAssumption, LastAssumption DEF Cluster, OnDisk

DirArray == [1 .. SlotsPerCluster -> Record \cup {FreeRecord}]

LEMMA RecordFacts ==
  /\ FreeRecord \notin Record
  /\ FreeRecord.name = NoName /\ FreeRecord.first = 0 /\ FreeRecord.dir = FALSE
  /\ \A r \in Record : r.name \in Name /\ r.dir \in BOOLEAN /\ r.first \in Cluster \cup {0}
  /\ \A r \in Record \cup {FreeRecord} : r.first \in Cluster \cup {0}
  /\ \A r \in Record \cup {FreeRecord} : r.name \in Name => r \in Record
BY NameAssumption DEF Record, FreeRecord

LEMMA DirArrayFacts ==
  /\ EmptyDirectory \in DirArray
  /\ \A i \in 1 .. SlotsPerCluster : EmptyDirectory[i] = FreeRecord
  /\ DirArray \cap Payload = {}
<1>1. ASSUME NEW r \in Record \cup {FreeRecord}
      PROVE  r \in [name : Name \cup {NoName}, dir : BOOLEAN, first : Nat]
  <2>1. Cluster \cup {0} \subseteq Nat
    BY ClusterFacts
  <2>2. CASE r \in Record
    BY <2>1, <2>2 DEF Record
  <2>3. CASE r = FreeRecord
    BY <2>3 DEF FreeRecord
  <2>. QED BY <2>2, <2>3
<1>2. DirArray \subseteq [1 .. SlotsPerCluster -> [name : Name \cup {NoName}, dir : BOOLEAN,
                                                  first : Nat]]
  BY <1>1 DEF DirArray
<1>3. EmptyDirectory \in DirArray
  BY DEF EmptyDirectory, DirArray
<1>4. \A i \in 1 .. SlotsPerCluster : EmptyDirectory[i] = FreeRecord
  BY DEF EmptyDirectory
<1>. QED BY <1>2, <1>3, <1>4, PayloadAssumption

LEMMA SlotFacts ==
  /\ NoSlot \notin Slot
  /\ \A s \in Slot : s = <<s[1], s[2]>> /\ s[1] \in Cluster /\ s[2] \in 1 .. SlotsPerCluster
  /\ \A c \in Cluster : FirstSlot(c) \in Slot /\ FirstSlot(c)[1] = c /\ FirstSlot(c)[2] = 1
BY ClusterFacts, SlotAssumption DEF Slot, NoSlot, FirstSlot

LEMMA NoOpFacts ==
  /\ NoOp \in Operation
  /\ NoOp.kind = "none" /\ NoOp.slot = NoSlot /\ NoOp.clusters = << >> /\ NoOp.done = 0
  /\ NoOp.stack = << >> /\ ~NoOp.freed /\ NoOp.parent = 0 /\ NoOp.from = NoSlot
  /\ NoOp.targets = {} /\ NoOp.record = FreeRecord
BY VolumeAssumption DEF NoOp, Operation

(* An operation with some of its variables changed.                        *)

LEMMA WithSlot ==
  ASSUME NEW o \in Operation, NEW s \in Slot \cup {NoSlot}
  PROVE  LET n == [o EXCEPT !.slot = s]
         IN /\ n \in Operation
            /\ n.kind = o.kind /\ n.targets = o.targets /\ n.parent = o.parent /\ n.record = o.record
            /\ n.size = o.size /\ n.content = o.content /\ n.clusters = o.clusters /\ n.done = o.done
            /\ n.from = o.from /\ n.stack = o.stack /\ n.freed = o.freed
            /\ n.slot = s
BY DEF Operation

(* The chain map editor is the one FatxAllocationProofs is about.          *)
LEMMA EditorSteps ==
  /\ Editor!AllocateLink <=> EP!AllocateLink
  /\ Editor!AllocateEnd <=> EP!AllocateEnd
  /\ Editor!WalkNext <=> EP!WalkNext
  /\ Editor!WalkEnd <=> EP!WalkEnd
  /\ Editor!AppendLink <=> EP!AppendLink
  /\ Editor!FreeStep <=> EP!FreeStep
  /\ Editor!Interrupt <=> EP!Interrupt
  /\ \A n : Editor!AllocateChain(n) <=> EP!AllocateChain(n)
  /\ \A c : Editor!BeginFree(c) <=> EP!BeginFree(c)
  /\ \A c : Editor!BeginAppend(c) <=> EP!BeginAppend(c)
<1>1. /\ Editor!AllocateLink <=> EP!AllocateLink
      /\ Editor!AllocateEnd <=> EP!AllocateEnd
      /\ Editor!WalkNext <=> EP!WalkNext
      /\ Editor!AppendLink <=> EP!AppendLink
      /\ Editor!FreeStep <=> EP!FreeStep
      /\ Editor!Interrupt <=> EP!Interrupt
      /\ \A c : Editor!BeginFree(c) <=> EP!BeginFree(c)
      /\ \A c : Editor!BeginAppend(c) <=> EP!BeginAppend(c)
  BY Zenon DEF Editor!AllocateLink, EP!AllocateLink, Editor!AllocateEnd, EP!AllocateEnd,
     Editor!WalkNext, EP!WalkNext, Editor!AppendLink, EP!AppendLink, Editor!FreeStep, EP!FreeStep,
     Editor!Interrupt, EP!Interrupt, Editor!BeginFree, EP!BeginFree, Editor!BeginAppend,
     EP!BeginAppend, Editor!Rest, EP!Rest, Editor!IsTerminalValue, EP!IsTerminalValue,
     Editor!FREE, EP!FREE, Editor!Cluster, EP!Cluster
<1>2. \A n : Editor!FindFreeClusters(n) = EP!FindFreeClusters(n)
  BY Zenon DEF Editor!FindFreeClusters, EP!FindFreeClusters, Editor!FirstFit, EP!FirstFit,
     Editor!FreeClusters, EP!FreeClusters, Editor!FREE, EP!FREE, Editor!Cluster, EP!Cluster
<1>3. Editor!FreeClusters = EP!FreeClusters
  BY Zenon DEF Editor!FreeClusters, EP!FreeClusters, Editor!FREE, EP!FREE, Editor!Cluster, EP!Cluster
<1>4. Editor!WalkEnd <=> EP!WalkEnd
  BY <1>2, <1>3, Zenon DEF Editor!WalkEnd, EP!WalkEnd, Editor!IsTerminalValue, EP!IsTerminalValue,
     Editor!Rest, EP!Rest, Editor!FREE, EP!FREE, Editor!Cluster, EP!Cluster
<1>5. \A n : Editor!AllocateChain(n) <=> EP!AllocateChain(n)
  BY <1>2, Zenon DEF Editor!AllocateChain, EP!AllocateChain
<1>. QED BY <1>1, <1>4, <1>5

-----------------------------------------------------------------------------
(* The chain map editor keeps its types whatever it is asked to do.        *)

LEMMA EditorTypes ==
  ASSUME EP!TypeInv
  PROVE  /\ UNCHANGED chainMap => EP!TypeInv'
         /\ EP!EditorStep \/ EP!Interrupt => EP!TypeInv'
         /\ \A n \in 1 .. MaxChain : EP!AllocateChain(n) => EP!TypeInv'
         /\ \A c \in Cluster : EP!BeginFree(c) \/ EP!BeginAppend(c) => EP!TypeInv'
<1>1. [EP!Next]_EP!vars => EP!TypeInv'
  BY EP!TypeInvNext, VolumeAssumption
     DEF EP!ClusterAssumption, EP!RootAssumption, EP!EndAssumption, EP!BadAssumption,
         EP!ChainAssumption
<1>2. UNCHANGED chainMap => EP!TypeInv'
  BY <1>1 DEF chainMap, EP!vars, EP!editor
<1>3. EP!EditorStep \/ EP!Interrupt => EP!TypeInv'
  BY <1>1 DEF EP!Next
<1>4. \A n \in 1 .. MaxChain : EP!AllocateChain(n) => EP!TypeInv'
  BY <1>1 DEF EP!Next
<1>5. ASSUME NEW c \in Cluster, EP!BeginFree(c) \/ EP!BeginAppend(c)
      PROVE  EP!TypeInv'
  BY <1>5, ClusterFacts
     DEF EP!TypeInv, EP!TypeOK, EP!Progress, EP!ChosenStillFree, EP!TailStillLast, EP!Cluster,
         Cluster, EP!BeginFree, EP!BeginAppend
<1>. QED BY <1>2, <1>3, <1>4, <1>5

EditorTyped ==
  /\ fat \in [Cluster -> Cluster \cup {0, END, BAD}]
  /\ heads \subseteq Cluster /\ visited \subseteq Cluster
  /\ got \in Seq(Cluster) /\ written \in 0 .. Len(got)
  /\ tail \in Cluster \cup {0} /\ cur \in Cluster \cup {0, BAD}
  /\ task \in {"idle", "walk", "alloc", "link", "free"}
  /\ task = "idle" => got = << >> /\ written = 0 /\ tail = 0 /\ visited = {}
  /\ task \in {"walk", "free"} => got = << >> /\ written = 0 /\ tail = 0 /\ cur # 0
  /\ task = "alloc" => Len(got) > 0 /\ written < Len(got) /\ (tail # 0 => Len(got) = 1)
  /\ task = "link" => Len(got) = 1 /\ tail # 0
  /\ Editor!TypeOK

LEMMA EditorShape == EP!TypeInv => EditorTyped
BY DEF EditorTyped, EP!TypeInv, EP!TypeOK, EP!Progress, EP!Cluster, Cluster, EP!Entry, EP!FREE,
       Editor!TypeOK, Editor!Cluster, Editor!Entry, Editor!FREE

-----------------------------------------------------------------------------
(* Reading the volume.                                                     *)

DiskType == disk \in [Cluster -> Payload \cup DirArray] /\ DOMAIN fat = Cluster

AtTyped ==
  /\ \A s \in DirSlot : /\ s \in Slot /\ s[1] \in Cluster /\ s[2] \in 1 .. SlotsPerCluster
                       /\ disk[s[1]] \in DirArray /\ At(s) \in Record \cup {FreeRecord}
                       /\ At(s).first \in Cluster \cup {0}
  /\ \A s \in DirSlot : At(s).name \in Name => s \in Records
  /\ \A s \in Records : s \in DirSlot /\ At(s) \in Record /\ At(s).name \in Name
                       /\ At(s).dir \in BOOLEAN
  /\ \A C : SlotsIn(C) \subseteq DirSlot
  /\ \A C : \A s \in SlotsIn(C) : s[1] \in C /\ s[1] \in OnDisk
  /\ \A C : \A s \in DirSlot : s[1] \in C /\ s[1] \in OnDisk => s \in SlotsIn(C)

LEMMA AtFacts == DiskType => AtTyped
<1>. SUFFICES ASSUME DiskType PROVE AtTyped
  OBVIOUS
<1>1. ASSUME NEW s \in DirSlot
      PROVE  /\ s \in Slot /\ s[1] \in Cluster /\ s[2] \in 1 .. SlotsPerCluster
             /\ disk[s[1]] \in DirArray /\ At(s) \in Record \cup {FreeRecord}
             /\ At(s).first \in Cluster \cup {0}
  <2>1. s \in Slot /\ disk[s[1]] \notin Payload
    BY DEF DirSlot
  <2>2. s[1] \in Cluster /\ s[2] \in 1 .. SlotsPerCluster
    BY <2>1, SlotFacts
  <2>3. disk[s[1]] \in DirArray
    BY <2>1, <2>2 DEF DiskType
  <2>4. At(s) \in Record \cup {FreeRecord}
    BY <2>2, <2>3 DEF DirArray, At
  <2>. QED BY <2>1, <2>2, <2>3, <2>4, RecordFacts
<1>2. \A s \in DirSlot : At(s).name \in Name => s \in Records
  BY <1>1, RecordFacts DEF Records
<1>3. \A s \in Records : s \in DirSlot /\ At(s) \in Record /\ At(s).name \in Name
                        /\ At(s).dir \in BOOLEAN
  BY <1>1, RecordFacts DEF Records
<1>4. \A C : SlotsIn(C) \subseteq DirSlot
  BY ClusterFacts DEF SlotsIn, DirSlot, Slot
<1>5. \A C : \A s \in SlotsIn(C) : s[1] \in C /\ s[1] \in OnDisk
  BY DEF SlotsIn
<1>6. ASSUME NEW C, NEW s \in DirSlot, s[1] \in C /\ s[1] \in OnDisk
      PROVE  s \in SlotsIn(C)
  BY <1>1, <1>6, SlotFacts DEF SlotsIn, DirSlot
<1>. QED BY <1>1, <1>2, <1>3, <1>4, <1>5, <1>6 DEF AtTyped

ChainsRead ==
  /\ \A c : Chain(c) \subseteq Cluster /\ (c \in Cluster => c \in Chain(c))
  /\ Chain(0) = {}
  /\ \A c : Reach(fat, c, OnDisk) \subseteq Chain(c)
  /\ \A d : \A c \in Chain(d) : fat[c] \in Cluster => fat[c] \in Chain(d)

LEMMA ChainFacts == DOMAIN fat = Cluster => ChainsRead
<1>. SUFFICES ASSUME DOMAIN fat = Cluster PROVE ChainsRead
  OBVIOUS
<1>1. IsFiniteSet(DOMAIN fat)
  BY ClusterFacts
<1>2. \A c : Chain(c) \subseteq Cluster /\ (c \in Cluster => c \in Chain(c))
             /\ (c \notin Cluster => Chain(c) = {})
  BY <1>1, ReachIn DEF Chain
<1>3. \A c : Reach(fat, c, OnDisk) \subseteq Chain(c)
  BY <1>1, ReachFewer, ClusterFacts DEF Chain
<1>4. \A d : \A c \in Chain(d) : fat[c] \in Cluster => fat[c] \in Chain(d)
  BY <1>1, <1>2, ReachClosed DEF Chain
<1>. QED BY <1>2, <1>3, <1>4, ClusterFacts DEF ChainsRead

LEMMA ChildFacts ==
  ASSUME DiskType, NEW d, NEW n \in Name, Child(d, n) # 0
  PROVE  \E s \in Records :
           /\ s \in ShownSlots(d) /\ s \in Slots(d)
           /\ At(s).name = n /\ At(s).dir /\ At(s).first = Child(d, n)
<1>. DEFINE found == {s \in ShownSlots(d) :
                        /\ At(s).name = n /\ At(s).dir
                        /\ \E c \in Chain(At(s).first) : Editor!IsTerminalValue(fat[c])}
<1>1. found # {} /\ Child(d, n) = At(CHOOSE s \in found : TRUE).first
  BY DEF Child
<1>2. PICK s \in found : Child(d, n) = At(s).first
  BY <1>1
<1>3. ShownSlots(d) \subseteq Slots(d)
  <2>1. Reach(fat, d, OnDisk) \subseteq Chain(d)
    BY ChainFacts DEF DiskType, ChainsRead
  <2>. QED BY <2>1 DEF ShownSlots, Slots, SlotsIn
<1>4. ShownSlots(d) \subseteq DirSlot
  BY AtFacts DEF ShownSlots, AtTyped
<1>5. s \in Records
  BY <1>2, <1>4, AtFacts DEF AtTyped
<1>. QED BY <1>2, <1>3, <1>5

LEMMA ChildType ==
  ASSUME DiskType, NEW d, NEW n \in Name
  PROVE  Child(d, n) \in Cluster \cup {0}
BY ChildFacts, AtFacts DEF AtTyped

LEMMA ParentFacts ==
  ASSUME NEW S, NEW p \in Seq(S), p # << >>
  PROVE  /\ Len(p) \in Nat \ {0} /\ Last(p) \in S /\ Last(p) = p[Len(p)]
         /\ Parent(p) \in Seq(S) /\ Len(Parent(p)) = Len(p) - 1
         /\ \A n \in 1 .. Len(p) - 1 : Parent(p)[n] = p[n]
<1>1. Len(p) \in Nat \ {0} /\ Last(p) \in S /\ Last(p) = p[Len(p)]
  BY DEF Last
<1>2. PICK L \in Nat : Len(p) = L + 1
  <2>1. Len(p) - 1 \in Nat /\ Len(p) = (Len(p) - 1) + 1
    BY <1>1
  <2>. QED BY <2>1, Zenon
<1>3. Parent(p) = SubSeq(p, 1, L) /\ Len(p) - 1 = L
  BY <1>2 DEF Parent
<1>4. SubSeq(p, 1, L) \in Seq(S) /\ Len(SubSeq(p, 1, L)) = L
  BY <1>2
<1>5. \A n \in 1 .. L : SubSeq(p, 1, L)[n] = p[n]
  BY <1>2
<1>. QED BY <1>1, <1>3, <1>4, <1>5

LEMMA Extended ==
  ASSUME NEW p \in Seq(Name), NEW n \in Name
  PROVE  \E x \in Seq(Name) : /\ x = Append(p, n) /\ x # << >> /\ Parent(x) = p /\ Last(x) = n
                             /\ Len(x) = Len(p) + 1
<1>. DEFINE x == Append(p, n)
<1>1. x \in Seq(Name) /\ Len(x) = Len(p) + 1 /\ x # << >> /\ Last(x) = n
  BY DEF Last
<1>2. \A i \in 1 .. Len(p) : x[i] = p[i]
  OBVIOUS
<1>. HIDE DEF x
<1>3. /\ Parent(x) \in Seq(Name) /\ Len(Parent(x)) = Len(p)
      /\ \A i \in 1 .. Len(p) : Parent(x)[i] = x[i]
  BY <1>1, ParentFacts
<1>4. Parent(x) = p
  BY <1>1, <1>2, <1>3
<1>. QED BY <1>1, <1>4 DEF x

LEMMA PathSequences == Path \subseteq Seq(Name) /\ << >> \in Path
<1>1. ASSUME NEW n \in 0 .. MaxDepth PROVE [1 .. n -> Name] \subseteq Seq(Name)
  OBVIOUS
<1>2. << >> \in [1 .. 0 -> Name]
  OBVIOUS
<1>. QED BY <1>1, <1>2, DepthAssumption DEF Path

(* The directories passed on the way to a path.                            *)
Way(way, p) ==
  /\ way = [n \in 0 .. Len(p) |-> way[n]]
  /\ way[0] = RootCluster
  /\ \A n \in 1 .. Len(p) : way[n] = Child(way[n - 1], p[n])
  /\ Directory(p) = way[Len(p)]

LEMMA WayExists ==
  ASSUME DiskType, NEW p \in Seq(Name)
  PROVE  \E way : Way(way, p)
<1>. DEFINE A == Cluster \cup {0}
            step == [x \in A \X Nat |-> IF x[2] \in 1 .. Len(p) THEN Child(x[1], p[x[2]]) ELSE 0]
            F(b) == [n \in 0 .. Len(p) |-> IF n = 0 THEN RootCluster ELSE Child(b[n - 1], p[n])]
            way == CHOOSE b : b = F(b)
<1>1. \A n \in 1 .. Len(p) : p[n] \in Name
  OBVIOUS
<1>2. step \in [A \X Nat -> A]
  BY <1>1, ChildType
<1>3. \A d \in A, n \in 1 .. Len(p) : step[<<d, n>>] = Child(d, p[n])
  OBVIOUS
<1>4. RootCluster \in A /\ Len(p) \in Nat
  BY ClusterFacts
<1>5. PICK g : Iteration(g, A, RootCluster, step, Len(p))
  <2>. HIDE DEF step, A
  <2>. QED BY <1>2, <1>4, Iterate
<1>6. g \in [0 .. Len(p) -> A] /\ g[0] = RootCluster
      /\ \A n \in 1 .. Len(p) : g[n] = step[<<g[n - 1], n>>]
  BY <1>5 DEF Iteration
<1>7. ASSUME NEW n \in 1 .. Len(p) PROVE g[n] = Child(g[n - 1], p[n])
  <2>. HIDE DEF step, A
  <2>1. n - 1 \in 0 .. Len(p)
    BY <1>4
  <2>2. g[n - 1] \in A
    BY <1>6, <2>1
  <2>. QED BY <1>3, <1>6, <2>2
<1>8. g = F(g)
  <2>1. ASSUME NEW n \in 0 .. Len(p) PROVE g[n] = F(g)[n]
    BY <1>6, <1>7
  <2>2. g = [n \in 0 .. Len(p) |-> g[n]] /\ F(g) = [n \in 0 .. Len(p) |-> F(g)[n]]
    BY <1>6
  <2>. HIDE DEF F
  <2>. QED BY <2>1, <2>2
<1>9. way = F(way)
  <2>. HIDE DEF F
  <2>. QED BY <1>8
<1>10. Directory(p) = way[Len(p)]
  BY DEF Directory
<1>. HIDE DEF way
<1>11. ASSUME NEW n \in 0 .. Len(p)
       PROVE  way[n] = IF n = 0 THEN RootCluster ELSE Child(way[n - 1], p[n])
  <2>1. F(way)[n] = IF n = 0 THEN RootCluster ELSE Child(way[n - 1], p[n])
    OBVIOUS
  <2>. HIDE DEF F
  <2>. QED BY <1>9, <2>1
<1>12. way = [n \in 0 .. Len(p) |-> way[n]]
  BY <1>9
<1>. HIDE DEF F
<1>13. Way(way, p)
  BY <1>4, <1>10, <1>11, <1>12 DEF Way
<1>. QED BY <1>13

(* FatxPathResolver, name by name.                                         *)
DirectoryFacts ==
  /\ Directory(<< >>) = RootCluster
  /\ \A p \in Seq(Name) : p # << >> => Directory(p) = Child(Directory(Parent(p)), Last(p))

LEMMA DirectorySteps == DiskType => DirectoryFacts
<1>. SUFFICES ASSUME DiskType PROVE DirectoryFacts
  OBVIOUS
<1>1. Directory(<< >>) = RootCluster
  <2>1. << >> \in Seq(Name) /\ Len(<< >>) = 0
    OBVIOUS
  <2>2. PICK way : Way(way, << >>)
    BY <2>1, WayExists
  <2>. QED BY <2>1, <2>2 DEF Way
<1>2. ASSUME NEW p \in Seq(Name), p # << >>
      PROVE  Directory(p) = Child(Directory(Parent(p)), Last(p))
  <2>1. PICK v : Way(v, p)
    BY WayExists
  <2>2. PICK w : Way(w, Parent(p))
    BY <1>2, ParentFacts, WayExists
  <2>. DEFINE L == Len(p) - 1
  <2>3. L \in Nat /\ L = Len(Parent(p)) /\ Len(p) = L + 1 /\ Len(p) \in 1 .. Len(p)
    BY <1>2, ParentFacts
  <2>. DEFINE P == {n \in Nat : n <= L => v[n] = w[n]}
  <2>4. 0 \in P
    BY <2>1, <2>2 DEF Way
  <2>5. ASSUME NEW n \in P PROVE n + 1 \in P
    <3>. SUFFICES ASSUME n + 1 <= L PROVE v[n + 1] = w[n + 1]
      OBVIOUS
    <3>1. n \in Nat /\ v[n] = w[n]
      BY <2>3
    <3>2. n + 1 \in 1 .. L /\ n + 1 \in 1 .. Len(p) /\ (n + 1) - 1 = n
      BY <2>3, <3>1
    <3>3. v[n + 1] = Child(v[n], p[n + 1])
      BY <2>1, <3>2 DEF Way
    <3>4. w[n + 1] = Child(w[n], Parent(p)[n + 1])
      BY <2>2, <2>3, <3>2 DEF Way
    <3>5. Parent(p)[n + 1] = p[n + 1]
      BY <1>2, <3>2, ParentFacts
    <3>. QED BY <3>1, <3>3, <3>4, <3>5
  <2>6. P = Nat
    <3>. HIDE DEF P
    <3>1. P \subseteq Nat
      BY DEF P
    <3>. QED BY <2>4, <2>5, <3>1, Induct
  <2>7. v[L] = w[L]
    BY <2>3, <2>6
  <2>8. v[Len(p)] = Child(v[L], p[Len(p)])
    BY <2>1, <2>3 DEF Way
  <2>9. Directory(p) = v[Len(p)] /\ Directory(Parent(p)) = w[L]
    BY <2>1, <2>2, <2>3 DEF Way
  <2>. QED BY <1>2, <2>7, <2>8, <2>9, ParentFacts
<1>. QED BY <1>1, <1>2 DEF DirectoryFacts

-----------------------------------------------------------------------------
(* Type correctness.                                                       *)

LEMMA TypeFacts ==
  ASSUME TypeInv
  PROVE  /\ DiskType /\ EP!TypeInv
         /\ op \in Operation /\ op.done <= Len(op.clusters)
         /\ disk \in [Cluster -> Payload \cup DirArray]
         /\ DOMAIN fat = Cluster
         /\ state \in {"clean", "leaky", "hurt"}
BY EditorShape DEF EditorTyped, TypeInv, TypeOK, DiskType, DirArray

(* Every operation ends in a state like this.                              *)
LEMMA IdleTypes ==
  ASSUME disk' \in [Cluster -> Payload \cup DirArray], EP!TypeInv', task' = "idle",
         pc' = "idle", op' = NoOp, state' \in {"clean", "leaky", "hurt"}
  PROVE  TypeInv'
<1>1. EditorTyped'
  BY EditorShape, PTL
<1>2. /\ Len(op'.clusters) = 0 /\ op'.done = 0
      /\ \A i \in DOMAIN op'.stack : FALSE
      /\ tail' = 0
  BY <1>1, NoOpFacts DEF EditorTyped
<1>. QED
  BY <1>1, <1>2, NoOpFacts DEF EditorTyped, TypeInv, TypeOK, DirArray, TaskOf, StepOf, SlotOf

LEMMA TypeInvInit == Init => TypeInv
<1>. SUFFICES ASSUME Init PROVE TypeInv
  OBVIOUS
<1>1. EP!TypeInv
  <2>1. EP!Init
    BY Zenon DEF Init, Editor!Init, EP!Init, Editor!Idle, EP!Idle, Editor!Cluster, EP!Cluster,
       Editor!FREE, EP!FREE
  <2>. QED
    BY <2>1, EP!TypeInvInit, VolumeAssumption
       DEF EP!ClusterAssumption, EP!RootAssumption, EP!EndAssumption, EP!BadAssumption,
           EP!ChainAssumption
<1>2. EditorTyped /\ task = "idle"
  BY <1>1, EditorShape DEF Init, Editor!Init, Editor!Idle
<1>3. disk \in [Cluster -> Payload \cup DirArray]
  BY DirArrayFacts DEF Init
<1>4. /\ Len(op.clusters) = 0 /\ op.done = 0
      /\ \A i \in DOMAIN op.stack : FALSE
      /\ tail = 0
  BY <1>2, NoOpFacts DEF Init, EditorTyped
<1>. QED
  BY <1>1, <1>2, <1>3, <1>4, NoOpFacts
     DEF Init, EditorTyped, TypeInv, TypeOK, DirArray, TaskOf, StepOf, SlotOf

(* What a path names.                                                      *)
LEMMA LookupFacts ==
  ASSUME DiskType, NEW p \in Seq(Name), p # << >>
  PROVE  /\ \A s \in Lookup(p) : /\ s \in Records /\ s \in Slots(Directory(Parent(p)))
                                /\ At(s).name = Last(p)
         /\ \A s \in Records : s \in Slots(Directory(Parent(p))) /\ At(s).name = Last(p)
              => s \in Lookup(p)
         /\ Directory(p) \in Cluster \cup {0}
<1>1. Last(p) \in Name
  BY ParentFacts
<1>2. Slots(Directory(Parent(p))) \subseteq DirSlot
  BY AtFacts DEF Slots, AtTyped
<1>3. Directory(p) \in Cluster \cup {0}
  BY <1>1, DirectorySteps, ChildType DEF DirectoryFacts
<1>. QED BY <1>1, <1>2, <1>3, AtFacts DEF Lookup, FindEntry, AtTyped

LEMMA FrameFacts ==
  ASSUME DiskType, NEW p \in Seq(Name), NEW s \in Records
  PROVE  /\ Frame(p, s) \in [path : Seq(Name), slot : Slot, todo : SUBSET Name]
         /\ Frame(p, s).slot = s /\ Frame(p, s).path = p
         /\ ~At(s).dir => Frame(p, s).todo = {}
<1>1. s \in Slot
  BY AtFacts DEF AtTyped
<1>2. \A e \in Entries(At(s).first) : At(e).name \in Name
  BY AtFacts DEF Entries, Slots, AtTyped, Records
<1>. QED BY <1>1, <1>2 DEF Frame

LEMMA StepTypes ==
  ASSUME EP!TypeInv', disk' \in [Cluster -> Payload \cup DirArray], op' \in Operation,
         TaskOf', StepOf', SlotOf', op'.kind # "none", op'.done <= Len(op'.clusters),
         pc' \in {"alloc", "data", "slot", "zero", "record", "unlink", "delete", "mark", "rename"},
         state' \in {"clean", "leaky", "hurt"}, state' = "hurt" => op'.kind = "move"
  PROVE  TypeInv'
<1>1. EditorTyped'
  BY EditorShape, PTL
<1>. QED BY <1>1, NoOpFacts DEF EditorTyped, TypeInv, TypeOK, DirArray

(* What is known before every step.                                        *)
Before ==
  /\ DiskType /\ EP!TypeInv /\ EditorTyped
  /\ op \in Operation /\ op.done <= Len(op.clusters)
  /\ state \in {"clean", "leaky", "hurt"}
  /\ TaskOf /\ StepOf /\ SlotOf
  /\ pc = "idle" => task = "idle" /\ op = NoOp
  /\ pc # "idle" => op.kind # "none"
  /\ state = "hurt" => op.kind \in {"none", "move"}

LEMMA BeforeStep == TypeInv => Before
BY TypeFacts, EditorShape DEF Before, TypeInv, TaskOf

(* The directory a path leads to.                                          *)
LEMMA DirectoryType ==
  ASSUME DiskType, NEW p \in Seq(Name)
  PROVE  Directory(p) \in Cluster \cup {0}
<1>1. CASE p = << >>
  BY <1>1, DirectorySteps, ClusterFacts DEF DirectoryFacts
<1>2. CASE p # << >>
  BY <1>2, LookupFacts
<1>. QED BY <1>1, <1>2

(* What the operations begin with.  Everything they wait for is in the     *)
(* record of the new operation.                                            *)

Begun(targets) ==
  /\ TypeInv /\ Before /\ Ready
  /\ task = "idle"
  /\ pc' # "idle" /\ UNCHANGED disk
  /\ op' \in Operation /\ op'.targets = targets
  /\ op'.clusters = << >> /\ op'.done = 0

PutFileFacts(p, size, content) ==
  /\ Begun({p})
  /\ p \in Seq(Name) /\ p # << >>
  /\ pc' = "alloc" /\ UNCHANGED state
  /\ op'.kind = "put" /\ op'.size = size /\ op'.content = content /\ op'.stack = << >>
  /\ op'.parent = Directory(Parent(p)) /\ op'.parent \in Cluster
  /\ op'.record \in Record /\ op'.record.name = Last(p) /\ op'.record.first = 0 /\ ~op'.record.dir
  /\ \/ /\ Lookup(p) = {} /\ op'.slot = NoSlot /\ ~op'.freed
        /\ UNCHANGED chainMap
     \/ /\ op'.slot \in Lookup(p) /\ ~At(op'.slot).dir
        /\ IF At(op'.slot).first = 0
           THEN ~op'.freed /\ UNCHANGED chainMap
           ELSE op'.freed /\ EP!BeginFree(At(op'.slot).first)

LEMMA PutFileStep ==
  ASSUME TypeInv, NEW p \in Path \ {<< >>}, NEW size \in 0 .. MaxChain, NEW content \in Payload,
         PutFile(p, size, content)
  PROVE  PutFileFacts(p, size, content)
<1>1. p \in Seq(Name) /\ p # << >> /\ Parent(p) \in Seq(Name) /\ Last(p) \in Name
  BY PathSequences, ParentFacts
<1>2. Before /\ Ready /\ pc = "idle" /\ task = "idle" /\ DiskType
  BY BeforeStep DEF PutFile, Ready, Before
<1>3. Directory(Parent(p)) \in Cluster
  BY <1>1, <1>2, DirectoryType DEF PutFile
<1>. DEFINE record == [name |-> Last(p), dir |-> FALSE, first |-> 0]
            new == [NoOp EXCEPT !.kind = "put", !.targets = {p}, !.parent = Directory(Parent(p)),
                                !.size = size, !.content = content, !.record = record]
<1>4. record \in Record /\ record.name = Last(p) /\ record.first = 0 /\ ~record.dir
  BY <1>1 DEF Record
<1>5. /\ pc' = "alloc" /\ UNCHANGED <<disk, state>>
      /\ \/ Lookup(p) = {} /\ op' = new /\ UNCHANGED chainMap
         \/ \E s \in Lookup(p) :
              /\ ~At(s).dir
              /\ \/ At(s).first = 0 /\ op' = [new EXCEPT !.slot = s] /\ UNCHANGED chainMap
                 \/ /\ op' = [new EXCEPT !.slot = s, !.freed = TRUE]
                    /\ At(s).first # 0 /\ Editor!BeginFree(At(s).first)
  BY DEF PutFile
<1>. HIDE DEF record
<1>6. /\ new \in Operation /\ new.kind = "put" /\ new.targets = {p} /\ new.record = record
      /\ new.parent = Directory(Parent(p)) /\ new.size = size
      /\ new.content = content /\ new.clusters = << >> /\ new.done = 0 /\ new.stack = << >>
      /\ new.slot = NoSlot /\ ~new.freed
  BY <1>1, <1>3, <1>4, NoOpFacts, ClusterFacts DEF Operation
<1>. HIDE DEF new
<1>7. CASE Lookup(p) = {} /\ op' = new /\ UNCHANGED chainMap
  BY <1>1, <1>2, <1>3, <1>4, <1>5, <1>6, <1>7 DEF PutFileFacts, Begun
<1>8. ASSUME NEW s \in Lookup(p), ~At(s).dir, At(s).first = 0, op' = [new EXCEPT !.slot = s],
             UNCHANGED chainMap
      PROVE  PutFileFacts(p, size, content)
  <2>1. s \in Slot
    BY <1>1, <1>2, LookupFacts, AtFacts DEF AtTyped
  <2>2. /\ op' \in Operation /\ op'.kind = "put" /\ op'.parent = new.parent /\ op'.record = record
        /\ op'.content = content /\ op'.clusters = << >> /\ op'.done = 0 /\ op'.stack = << >>
        /\ op'.slot = s /\ op'.size = size /\ op'.targets = {p} /\ ~op'.freed
    BY <1>6, <1>8, <2>1, WithSlot
  <2>. QED BY <1>1, <1>2, <1>3, <1>4, <1>5, <1>6, <1>8, <2>2 DEF PutFileFacts, Begun
<1>9. ASSUME NEW s \in Lookup(p), ~At(s).dir, At(s).first # 0,
             op' = [new EXCEPT !.slot = s, !.freed = TRUE], Editor!BeginFree(At(s).first)
      PROVE  PutFileFacts(p, size, content)
  <2>1. s \in Slot
    BY <1>1, <1>2, LookupFacts, AtFacts DEF AtTyped
  <2>2. /\ op' \in Operation /\ op'.kind = "put" /\ op'.parent = new.parent /\ op'.record = record
        /\ op'.content = content /\ op'.clusters = << >> /\ op'.done = 0 /\ op'.stack = << >>
        /\ op'.slot = s /\ op'.size = size /\ op'.targets = {p} /\ op'.freed
    BY <1>6, <1>9, <2>1 DEF Operation
  <2>. QED BY <1>1, <1>2, <1>3, <1>4, <1>5, <1>6, <1>9, <2>2, EditorSteps DEF PutFileFacts, Begun
<1>. QED BY <1>5, <1>7, <1>8, <1>9

LEMMA PutFileTypes ==
  ASSUME NEW p, NEW size, NEW content \in Payload, PutFileFacts(p, size, content)
  PROVE  TypeInv'
<1>1. Begun({p}) /\ Before /\ DiskType /\ task = "idle" /\ state # "hurt"
  BY DEF PutFileFacts, Begun, Before, Ready
<1>2. op'.slot = NoSlot \/ op'.slot \in DirSlot
  BY <1>1, LookupFacts, AtFacts DEF PutFileFacts, AtTyped
<1>3. /\ EP!TypeInv' /\ tail' = 0 /\ task' \in {"idle", "free"}
      /\ task' = "free" => op'.freed
  <2>1. UNCHANGED chainMap \/ (op'.freed /\ EP!BeginFree(At(op'.slot).first)
                               /\ op'.slot \in DirSlot /\ At(op'.slot).first # 0)
    BY <1>2, <1>1, LookupFacts, AtFacts DEF PutFileFacts, AtTyped
  <2>2. CASE UNCHANGED chainMap
    BY <1>1, <2>2, EditorTypes DEF Before, EditorTyped, chainMap
  <2>3. CASE op'.freed /\ EP!BeginFree(At(op'.slot).first)
             /\ op'.slot \in DirSlot /\ At(op'.slot).first # 0
    <3>1. At(op'.slot).first \in Cluster
      BY <1>1, <2>3, AtFacts DEF AtTyped
    <3>2. EP!TypeInv'
      BY <1>1, <2>3, <3>1, EditorTypes DEF Before
    <3>. QED BY <1>1, <2>3, <3>2 DEF Before, EditorTyped, EP!BeginFree
  <2>. QED BY <2>1, <2>2, <2>3
<1>4. TaskOf'
  BY <1>3 DEF TaskOf, PutFileFacts
<1>5. StepOf'
  BY <1>1, ClusterFacts, RecordFacts DEF StepOf, PutFileFacts, Begun
<1>6. SlotOf'
  <2>1. DirSlot' = DirSlot
    BY <1>1 DEF DirSlot, Begun
  <2>2. \A i \in DOMAIN op'.stack : FALSE
    BY DEF PutFileFacts
  <2>. QED BY <1>2, <2>1, <2>2 DEF SlotOf, PutFileFacts
<1>. QED BY <1>1, <1>3, <1>4, <1>5, <1>6, StepTypes
     DEF PutFileFacts, Begun, Before, DiskType

CreateDirectoryFacts(p) ==
  /\ Begun({p})
  /\ p \in Seq(Name) /\ p # << >>
  /\ pc' = "alloc" /\ UNCHANGED <<chainMap, state>>
  /\ op'.kind = "mkdir" /\ op'.size = 1 /\ op'.content = EmptyDirectory /\ op'.stack = << >>
  /\ op'.parent = Directory(Parent(p)) /\ op'.parent \in Cluster
  /\ op'.record \in Record /\ op'.record.name = Last(p) /\ op'.record.first = 0 /\ op'.record.dir
  /\ Lookup(p) = {} /\ op'.slot = NoSlot /\ ~op'.freed

LEMMA CreateDirectoryStep ==
  ASSUME TypeInv, NEW p \in Path \ {<< >>}, CreateDirectory(p)
  PROVE  CreateDirectoryFacts(p)
<1>1. p \in Seq(Name) /\ p # << >> /\ Parent(p) \in Seq(Name) /\ Last(p) \in Name
  BY PathSequences, ParentFacts
<1>2. Before /\ Ready /\ pc = "idle" /\ task = "idle" /\ DiskType
  BY BeforeStep DEF CreateDirectory, Ready, Before
<1>3. Directory(Parent(p)) \in Cluster
  BY <1>1, <1>2, DirectoryType DEF CreateDirectory
<1>. DEFINE record == [name |-> Last(p), dir |-> TRUE, first |-> 0]
            new == [NoOp EXCEPT !.kind = "mkdir", !.targets = {p}, !.parent = Directory(Parent(p)),
                                !.size = 1, !.content = EmptyDirectory, !.record = record]
<1>4. record \in Record /\ record.name = Last(p) /\ record.first = 0 /\ record.dir
  BY <1>1 DEF Record
<1>5. /\ pc' = "alloc" /\ UNCHANGED <<chainMap, disk, state>>
      /\ Lookup(p) = {} /\ op' = new
  BY DEF CreateDirectory
<1>. HIDE DEF record
<1>6. /\ new \in Operation /\ new.kind = "mkdir" /\ new.targets = {p} /\ new.record = record
      /\ new.parent = Directory(Parent(p)) /\ new.size = 1 /\ new.content = EmptyDirectory
      /\ new.clusters = << >> /\ new.done = 0 /\ new.stack = << >>
      /\ new.slot = NoSlot /\ ~new.freed
  <2>1. 1 \in 0 .. MaxChain /\ EmptyDirectory \in Payload \cup {EmptyDirectory}
    BY VolumeAssumption
  <2>2. {p} \in SUBSET Path /\ "mkdir" \in {"none", "put", "mkdir", "delete", "move"}
    OBVIOUS
  <2>. QED BY <1>1, <1>3, <1>4, <2>1, <2>2, NoOpFacts, ClusterFacts DEF Operation
<1>. HIDE DEF new
<1>. QED BY <1>1, <1>2, <1>3, <1>4, <1>5, <1>6 DEF CreateDirectoryFacts, Begun

LEMMA CreateDirectoryTypes ==
  ASSUME NEW p, CreateDirectoryFacts(p)
  PROVE  TypeInv'
<1>1. Begun({p}) /\ Before /\ DiskType /\ task = "idle" /\ state # "hurt"
  BY DEF CreateDirectoryFacts, Begun, Before, Ready
<1>2. EP!TypeInv' /\ tail' = 0 /\ task' = "idle"
  BY <1>1, EditorTypes DEF Before, EditorTyped, chainMap, CreateDirectoryFacts
<1>3. TaskOf'
  BY <1>2 DEF TaskOf
<1>4. StepOf'
  <2>1. op'.record # FreeRecord /\ op'.parent # 0
    BY ClusterFacts, RecordFacts DEF CreateDirectoryFacts
  <2>. QED BY <1>1, <2>1 DEF StepOf, CreateDirectoryFacts, Begun
<1>5. SlotOf'
  <2>1. \A i \in DOMAIN op'.stack : FALSE
    BY DEF CreateDirectoryFacts
  <2>. QED BY <2>1 DEF SlotOf, CreateDirectoryFacts
<1>. QED BY <1>1, <1>2, <1>3, <1>4, <1>5, StepTypes
     DEF CreateDirectoryFacts, Begun, Before, DiskType

Frames == [path : Seq(Name), slot : Slot, todo : SUBSET Name]

DeleteFacts(p) ==
  /\ Begun({p})
  /\ pc' = "delete" /\ UNCHANGED <<chainMap, state>>
  /\ op'.kind = "delete" /\ op'.slot = NoSlot /\ ~op'.freed
  /\ \E s \in Records : op'.stack = <<Frame(p, s)>> /\ Frame(p, s) \in Frames
                         /\ Frame(p, s).slot = s

LEMMA DeleteStep ==
  ASSUME TypeInv, NEW p \in Path \ {<< >>}, NEW recursive \in BOOLEAN, Delete(p, recursive)
  PROVE  DeleteFacts(p)
<1>1. p \in Seq(Name) /\ p # << >>
  BY PathSequences
<1>2. Before /\ Ready /\ pc = "idle" /\ task = "idle" /\ DiskType
  BY BeforeStep DEF Delete, Ready, Before
<1>3. PICK s \in Lookup(p) :
        op' = [NoOp EXCEPT !.kind = "delete", !.targets = {p}, !.stack = <<Frame(p, s)>>]
  BY DEF Delete
<1>4. s \in Records /\ Frame(p, s) \in Frames /\ Frame(p, s).slot = s
  BY <1>1, <1>2, <1>3, LookupFacts, FrameFacts DEF Frames
<1>. DEFINE t == <<Frame(p, s)>>
<1>5. t \in Seq(Frames)
  BY <1>4
<1>. HIDE DEF t
<1>6. /\ op' \in Operation /\ op'.kind = "delete" /\ op'.targets = {p} /\ op'.stack = t
      /\ op'.clusters = << >> /\ op'.done = 0 /\ op'.slot = NoSlot /\ ~op'.freed
  <2>1. op' = [NoOp EXCEPT !.kind = "delete", !.targets = {p}, !.stack = t]
    BY <1>3 DEF t
  <2>. QED BY <1>5, <2>1, NoOpFacts DEF Operation, Frames
<1>7. pc' = "delete" /\ UNCHANGED <<chainMap, disk, state>>
  BY DEF Delete
<1>. QED BY <1>2, <1>4, <1>6, <1>7 DEF DeleteFacts, Begun, t

LEMMA DeleteTypes ==
  ASSUME NEW p, DeleteFacts(p)
  PROVE  TypeInv'
<1>1. Begun({p}) /\ Before /\ DiskType /\ task = "idle" /\ state # "hurt"
  BY DEF DeleteFacts, Begun, Before, Ready
<1>2. EP!TypeInv' /\ tail' = 0 /\ task' = "idle"
  BY <1>1, EditorTypes DEF Before, EditorTyped, chainMap, DeleteFacts
<1>3. TaskOf'
  BY <1>2 DEF TaskOf, DeleteFacts
<1>4. PICK s \in Records : op'.stack = <<Frame(p, s)>> /\ Frame(p, s).slot = s
  BY DEF DeleteFacts
<1>5. StepOf'
  BY <1>1, <1>4 DEF StepOf, DeleteFacts, Begun
<1>6. SlotOf'
  <2>1. \A i \in DOMAIN op'.stack : op'.stack[i].slot = s
    BY <1>4
  <2>2. s \in DirSlot /\ DirSlot' = DirSlot
    BY <1>1 DEF Records, DirSlot, Begun
  <2>. QED BY <2>1, <2>2 DEF SlotOf, DeleteFacts
<1>. QED BY <1>1, <1>2, <1>3, <1>5, <1>6, StepTypes
     DEF DeleteFacts, Begun, Before, DiskType

MoveFacts(p, q) ==
  /\ Begun({p, q})
  /\ p \in Seq(Name) /\ p # << >> /\ q \in Seq(Name) /\ q # << >>
  /\ UNCHANGED chainMap
  /\ Directory(Parent(p)) \in Cluster
  /\ op'.kind = "move" /\ op'.slot = NoSlot /\ ~op'.freed
  /\ op'.parent = Directory(Parent(q)) /\ op'.parent \in Cluster
  /\ op'.from \in Lookup(p)
  /\ op'.record \in Record /\ op'.record.name = Last(q)
  /\ op'.record.first = At(op'.from).first /\ op'.record.dir = At(op'.from).dir
  /\ \/ Lookup(q) = {} /\ op'.stack = << >> /\ pc' = "rename"
     \/ \E d \in Lookup(q) :
          /\ ~At(d).dir /\ pc' = "delete"
          /\ op'.stack = <<Frame(q, d)>> /\ Frame(q, d) \in Frames
          /\ Frame(q, d).slot = d /\ Frame(q, d).todo = {}
  /\ state' \in {state, "hurt"}
  /\ state' # "hurt" => /\ p = q => At(op'.from).first = 0
                        /\ At(op'.from).dir => ~IsPrefix(p, q)

LEMMA MoveStep ==
  ASSUME TypeInv, NEW p \in Path \ {<< >>}, NEW q \in Path \ {<< >>}, NEW overwrite \in BOOLEAN,
         Move(p, q, overwrite)
  PROVE  MoveFacts(p, q)
<1>1. /\ p \in Seq(Name) /\ p # << >> /\ Parent(p) \in Seq(Name) /\ Last(p) \in Name
      /\ q \in Seq(Name) /\ q # << >> /\ Parent(q) \in Seq(Name) /\ Last(q) \in Name
  BY PathSequences, ParentFacts
<1>2. Before /\ Ready /\ pc = "idle" /\ task = "idle" /\ DiskType /\ UNCHANGED <<chainMap, disk>>
  BY BeforeStep DEF Move, Ready, Before
<1>3. Directory(Parent(p)) \in Cluster /\ Directory(Parent(q)) \in Cluster
  BY <1>1, <1>2, DirectoryType DEF Move
<1>. DEFINE record(s) == [At(s) EXCEPT !.name = Last(q)]
            new(s) == [NoOp EXCEPT !.kind = "move", !.targets = {p, q},
                                   !.parent = Directory(Parent(q)), !.from = s,
                                   !.record = record(s)]
<1>4. PICK s \in Lookup(p) :
        /\ \/ Lookup(q) = {} /\ op' = new(s) /\ pc' = "rename"
           \/ \E d \in Lookup(q) :
                /\ ~At(d).dir
                /\ op' = [new(s) EXCEPT !.stack = <<Frame(q, d)>>]
                /\ pc' = "delete"
        /\ state' = IF (p = q /\ At(s).first # 0) \/ (At(s).dir /\ IsPrefix(p, q))
                    THEN "hurt" ELSE state
  BY DEF Move
<1>5. At(s) \in Record /\ s \in Slot
  BY <1>1, <1>2, LookupFacts, AtFacts DEF AtTyped
<1>6. /\ record(s) \in Record /\ record(s).name = Last(q)
      /\ record(s).first = At(s).first /\ record(s).dir = At(s).dir
  BY <1>1, <1>5 DEF Record
<1>. HIDE DEF record
<1>. DEFINE n == new(s)
<1>7. /\ n \in Operation /\ n.kind = "move" /\ n.targets = {p, q} /\ n.record = record(s)
      /\ n.parent = Directory(Parent(q)) /\ n.from = s
      /\ n.clusters = << >> /\ n.done = 0 /\ n.stack = << >>
      /\ n.slot = NoSlot /\ ~n.freed
  <2>1. {p, q} \in SUBSET Path
    OBVIOUS
  <2>. QED BY <1>3, <1>5, <1>6, <2>1, NoOpFacts, ClusterFacts DEF Operation
<1>8. \/ Lookup(q) = {} /\ op' = n /\ pc' = "rename"
      \/ \E d \in Lookup(q) :
           ~At(d).dir /\ op' = [n EXCEPT !.stack = <<Frame(q, d)>>] /\ pc' = "delete"
  BY <1>4
<1>9. /\ state' \in {state, "hurt"}
      /\ state' # "hurt" => /\ p = q => At(s).first = 0
                            /\ At(s).dir => ~IsPrefix(p, q)
  BY <1>4
<1>. HIDE DEF n
<1>10. CASE Lookup(q) = {} /\ op' = n /\ pc' = "rename"
  BY <1>1, <1>2, <1>3, <1>6, <1>7, <1>9, <1>10 DEF MoveFacts, Begun
<1>11. ASSUME NEW d \in Lookup(q), ~At(d).dir, op' = [n EXCEPT !.stack = <<Frame(q, d)>>],
              pc' = "delete"
       PROVE  MoveFacts(p, q)
  <2>1. d \in Records /\ Frame(q, d) \in Frames /\ Frame(q, d).slot = d /\ Frame(q, d).todo = {}
    BY <1>1, <1>2, <1>11, LookupFacts, FrameFacts DEF Frames
  <2>. DEFINE t == <<Frame(q, d)>>
  <2>2. t \in Seq(Frames) /\ op' = [n EXCEPT !.stack = t]
    BY <1>11, <2>1
  <2>. HIDE DEF t
  <2>3. /\ op' \in Operation /\ op'.kind = "move" /\ op'.targets = {p, q} /\ op'.record = record(s)
        /\ op'.parent = Directory(Parent(q)) /\ op'.from = s
        /\ op'.clusters = << >> /\ op'.done = 0 /\ op'.stack = t
        /\ op'.slot = NoSlot /\ ~op'.freed
    BY <1>7, <2>2 DEF Operation, Frames
  <2>. QED BY <1>1, <1>2, <1>3, <1>6, <1>9, <1>11, <2>1, <2>3 DEF MoveFacts, Begun, t
<1>. QED BY <1>8, <1>10, <1>11

LEMMA MoveTypes ==
  ASSUME NEW p, NEW q, MoveFacts(p, q)
  PROVE  TypeInv'
<1>1. Begun({p, q}) /\ Before /\ DiskType /\ task = "idle" /\ state # "hurt"
  BY DEF MoveFacts, Begun, Before, Ready
<1>2. EP!TypeInv' /\ tail' = 0 /\ task' = "idle"
  BY <1>1, EditorTypes DEF Before, EditorTyped, chainMap, MoveFacts
<1>3. TaskOf'
  BY <1>2 DEF TaskOf, MoveFacts
<1>4. op'.record # FreeRecord /\ op'.parent # 0 /\ op'.from \in DirSlot
  <2>1. op'.record # FreeRecord /\ op'.parent # 0
    BY ClusterFacts, RecordFacts DEF MoveFacts
  <2>2. p \in Seq(Name) /\ p # << >> /\ op'.from \in Lookup(p)
    BY DEF MoveFacts
  <2>3. op'.from \in Records
    BY <1>1, <2>2, LookupFacts
  <2>. QED BY <2>1, <2>3 DEF Records
<1>5. StepOf'
  <2>1. pc' \in {"rename", "delete"} /\ (pc' = "delete" => op'.stack # << >>)
    <3>1. ASSUME NEW d \in Lookup(q), op'.stack = <<Frame(q, d)>> PROVE op'.stack # << >>
      BY <3>1
    <3>. QED BY <3>1 DEF MoveFacts
  <2>. QED BY <1>1, <1>4, <2>1 DEF StepOf, MoveFacts, Begun
<1>6. /\ Len(op'.stack) <= 1
      /\ \A i \in DOMAIN op'.stack : op'.stack[i].slot \in DirSlot /\ op'.stack[i].todo = {}
  <2>1. CASE op'.stack = << >>
    BY <2>1
  <2>2. ASSUME NEW d \in Lookup(q), op'.stack = <<Frame(q, d)>>, Frame(q, d).slot = d,
               Frame(q, d).todo = {}
        PROVE  <1>6!:
    <3>1. d \in DirSlot
      BY <1>1, LookupFacts, AtFacts DEF MoveFacts, AtTyped
    <3>. QED BY <2>2, <3>1
  <2>. QED BY <2>1, <2>2 DEF MoveFacts
<1>7. SlotOf'
  <2>1. DirSlot' = DirSlot
    BY <1>1 DEF DirSlot, Begun
  <2>. QED BY <1>4, <1>6, <2>1 DEF SlotOf, MoveFacts
<1>. QED BY <1>1, <1>2, <1>3, <1>5, <1>7, StepTypes
     DEF MoveFacts, Begun, Before, DiskType

(* Every way for an operation to end early.                                *)
LEMMA StopTypes ==
  ASSUME TypeInv, Stop, UNCHANGED disk, EP!TypeInv', task' = "idle"
  PROVE  TypeInv'
<1>1. disk' \in [Cluster -> Payload \cup DirArray] /\ state \in {"clean", "leaky", "hurt"}
  BY TypeFacts
<1>2. state' \in {"clean", "leaky", "hurt"}
  BY <1>1 DEF Stop
<1>. QED BY <1>1, <1>2, IdleTypes DEF Stop

(* The steps of an operation.                                              *)

Working == TypeInv /\ Before /\ pc # "idle"

LEMMA RestedTypes ==
  ASSUME Before, task = "idle", UNCHANGED chainMap
  PROVE  EP!TypeInv' /\ task' = "idle" /\ tail = 0 /\ tail' = 0
BY EditorTypes DEF Before, EditorTyped, chainMap

AllocateFacts ==
  /\ Working /\ pc = "alloc" /\ task = "idle"
  /\ op.size \in 1 .. MaxChain /\ EP!AllocateChain(op.size)
  /\ task' = "alloc" /\ UNCHANGED <<fat, heads, written, tail, cur, visited, torn>>
  /\ got' \in Seq(Cluster) /\ Len(got') = op.size
  /\ \A i \in 1 .. op.size : got'[i] \in Cluster /\ fat[got'[i]] = 0
  /\ \A i, j \in 1 .. op.size : got'[i] = got'[j] => i = j
  /\ pc' = "data" /\ UNCHANGED <<disk, state>>
  /\ op' \in Operation
  /\ op'.kind = op.kind /\ op'.targets = op.targets /\ op'.parent = op.parent
  /\ op'.slot = op.slot /\ op'.size = op.size /\ op'.content = op.content /\ op'.done = op.done
  /\ op'.from = op.from /\ op'.stack = op.stack /\ op'.freed = op.freed
  /\ op'.clusters = got' /\ op'.record.first = got'[1] /\ op'.record \in Record
  /\ op'.record.name = op.record.name /\ op'.record.dir = op.record.dir

LEMMA AllocateStep ==
  ASSUME TypeInv, Allocate
  PROVE  \/ /\ op.size = 0 /\ pc' = "slot"
            /\ UNCHANGED <<chainMap, disk, op, state>>
         \/ AllocateFacts
         \/ Stop /\ UNCHANGED <<chainMap, disk>>
<1>1. Before /\ pc = "alloc" /\ task = "idle" /\ UNCHANGED disk
  BY BeforeStep DEF Allocate
<1>2. CASE op.size > 0 /\ Editor!AllocateChain(op.size) /\ pc' = "data" /\ UNCHANGED state
           /\ op' = [op EXCEPT !.clusters = got', !.record.first = got'[1]]
  <2>1. op.size \in 1 .. MaxChain
    BY <1>1, <1>2 DEF Before, Operation
  <2>2. EP!AllocateChain(op.size)
    BY <1>2, EditorSteps
  <2>3. /\ got' \in Seq(Cluster) /\ Len(got') = op.size
        /\ \A i \in 1 .. op.size : got'[i] \in Cluster /\ fat[got'[i]] = 0
        /\ \A i, j \in 1 .. op.size : got'[i] = got'[j] => i = j
    <3>1. got' \in EP!FindFreeClusters(op.size) /\ op.size \in Nat
      BY <2>1, <2>2 DEF EP!AllocateChain
    <3>2. fat \in [EP!Cluster -> EP!Entry]
      BY <1>1 DEF Before, EP!TypeInv, EP!TypeOK
    <3>. QED
      BY <3>1, <3>2, EP!FindFreeResult, VolumeAssumption
         DEF EP!ClusterAssumption, EP!RootAssumption, EP!EndAssumption, EP!BadAssumption,
             EP!ChainAssumption, EP!Cluster, Cluster, EP!FREE
  <2>4. task' = "alloc" /\ UNCHANGED <<fat, heads, written, tail, cur, visited, torn>>
    BY <2>2 DEF EP!AllocateChain
  <2>5. op.record \in Record /\ got'[1] \in Cluster
    BY <1>1, <2>1, <2>3 DEF Before, StepOf, Operation
  <2>6. /\ op' \in Operation
        /\ op'.kind = op.kind /\ op'.targets = op.targets /\ op'.parent = op.parent
        /\ op'.slot = op.slot /\ op'.size = op.size /\ op'.content = op.content
        /\ op'.done = op.done /\ op'.from = op.from /\ op'.stack = op.stack
        /\ op'.freed = op.freed
        /\ op'.clusters = got' /\ op'.record.first = got'[1] /\ op'.record \in Record
        /\ op'.record.name = op.record.name /\ op'.record.dir = op.record.dir
    <3>. DEFINE n == [op EXCEPT !.clusters = got', !.record.first = got'[1]]
    <3>1. op' = n
      BY <1>2
    <3>2. /\ n \in Operation
          /\ n.kind = op.kind /\ n.targets = op.targets /\ n.parent = op.parent /\ n.slot = op.slot
          /\ n.size = op.size /\ n.content = op.content /\ n.done = op.done /\ n.from = op.from
          /\ n.stack = op.stack /\ n.freed = op.freed
          /\ n.clusters = got' /\ n.record.first = got'[1] /\ n.record \in Record
          /\ n.record.name = op.record.name /\ n.record.dir = op.record.dir
      <4>1. op \in Operation
        BY <1>1 DEF Before
      <4>2. \E r \in Record :
              /\ n = [op EXCEPT !.clusters = got', !.record = r]
              /\ r.first = got'[1] /\ r.name = op.record.name /\ r.dir = op.record.dir
        <5>. DEFINE r == [op.record EXCEPT !.first = got'[1]]
        <5>1. r \in Record /\ r.first = got'[1] /\ r.name = op.record.name /\ r.dir = op.record.dir
          BY <2>5 DEF Record
        <5>2. n = [op EXCEPT !.clusters = got', !.record = r]
          BY <4>1 DEF Operation
        <5>. QED BY <5>1, <5>2
      <4>3. PICK r \in Record :
              /\ n = [op EXCEPT !.clusters = got', !.record = r]
              /\ r.first = got'[1] /\ r.name = op.record.name /\ r.dir = op.record.dir
        BY <4>2
      <4>. HIDE DEF n
      <4>4. /\ n \in Operation
            /\ n.kind = op.kind /\ n.targets = op.targets /\ n.parent = op.parent
            /\ n.slot = op.slot /\ n.size = op.size /\ n.content = op.content
            /\ n.done = op.done /\ n.from = op.from /\ n.stack = op.stack
            /\ n.freed = op.freed /\ n.clusters = got' /\ n.record = r
        <5>. DEFINE q == got'
        <5>1. q \in Seq(Cluster) /\ n = [op EXCEPT !.clusters = q, !.record = r]
          BY <2>3, <4>3
        <5>. HIDE DEF q
        <5>2. /\ n \in Operation
              /\ n.kind = op.kind /\ n.targets = op.targets /\ n.parent = op.parent
              /\ n.slot = op.slot /\ n.size = op.size /\ n.content = op.content
              /\ n.done = op.done /\ n.from = op.from /\ n.stack = op.stack
              /\ n.freed = op.freed /\ n.clusters = q /\ n.record = r
          BY <4>1, <5>1 DEF Operation
        <5>3. q = got'
          BY DEF q
        <5>. HIDE DEF q
        <5>. QED BY <5>2, <5>3, Zenon
      <4>5. n.record.first = got'[1] /\ n.record \in Record
            /\ n.record.name = op.record.name /\ n.record.dir = op.record.dir
        BY <4>3, <4>4, Zenon
      <4>. QED BY <4>4, <4>5, Zenon
    <3>. HIDE DEF n
    <3>. QED BY <3>1, <3>2, Zenon
  <2>. QED BY <1>1, <1>2, <2>1, <2>2, <2>3, <2>4, <2>6 DEF AllocateFacts, Working
<1>. QED BY <1>1, <1>2 DEF Allocate

LEMMA AllocateTypes == TypeInv /\ Allocate => TypeInv'
<1>. SUFFICES ASSUME TypeInv, Allocate PROVE TypeInv'
  OBVIOUS
<1>1. Before /\ pc = "alloc" /\ task = "idle"
  BY BeforeStep DEF Allocate
<1>2. disk \in [Cluster -> Payload \cup DirArray]
  BY <1>1 DEF Before, DiskType
<1>3. CASE op.size = 0 /\ pc' = "slot" /\ UNCHANGED <<chainMap, disk, op, state>>
  <2>1. EP!TypeInv' /\ task' = "idle" /\ tail' = 0
    BY <1>1, <1>3, RestedTypes
  <2>2. TaskOf' /\ StepOf' /\ SlotOf'
    BY <1>1, <1>3, <2>1 DEF Before, TaskOf, StepOf, SlotOf, DirSlot
  <2>. QED BY <1>1, <1>2, <1>3, <2>1, <2>2, StepTypes DEF Before
<1>4. CASE AllocateFacts
  <2>1. EP!TypeInv'
    BY <1>1, <1>4, EditorTypes DEF AllocateFacts, Before
  <2>2. tail' = 0 /\ TaskOf'
    BY <1>1, <1>4 DEF AllocateFacts, Before, EditorTyped, TaskOf
  <2>3. StepOf' /\ op'.done <= Len(op'.clusters)
    BY <1>1, <1>4, RecordFacts DEF AllocateFacts, Before, StepOf
  <2>4. SlotOf'
    BY <1>1, <1>4 DEF AllocateFacts, Before, SlotOf, DirSlot
  <2>. QED BY <1>1, <1>2, <1>4, <2>1, <2>2, <2>3, <2>4, StepTypes DEF AllocateFacts, Before
<1>5. CASE Stop /\ UNCHANGED <<chainMap, disk>>
  BY <1>1, <1>5, RestedTypes, StopTypes
<1>. QED BY <1>3, <1>4, <1>5, AllocateStep

-----------------------------------------------------------------------------
(* The chains of an undamaged chain map.                                   *)

ChainsApart ==
  /\ DOMAIN fat = Cluster /\ Injective(fat)
  /\ \A h \in heads : h \in Cluster /\ Source(fat, h) /\ fat[h] # 0
  /\ \A c \in Cluster : fat[c] \in Cluster \cup {0, END}
  /\ \A a, b \in heads : a # b => Chain(a) \cap Chain(b) = {}

LEMMA SoundFacts == Before /\ EP!Sound => ChainsApart
<1>. SUFFICES ASSUME Before, EP!Sound PROVE ChainsApart
  OBVIOUS
<1>1. DOMAIN fat = Cluster /\ heads \subseteq Cluster /\ IsFiniteSet(DOMAIN fat)
  BY ClusterFacts DEF Before, DiskType, EditorTyped
<1>2. Injective(fat)
  BY <1>1 DEF EP!Sound, EP!Links, EP!Cluster, Cluster, Injective
<1>3. \A h \in heads : Source(fat, h) /\ fat[h] # 0
  BY <1>1 DEF EP!Sound, EP!Heads, EP!Cluster, EP!FREE, Cluster, Source
<1>4. \A c \in Cluster : fat[c] \in Cluster \cup {0, END}
  BY DEF EP!Sound, EP!Links, EP!Cluster, Cluster, Before, EditorTyped
<1>5. \A a, b \in heads : a # b => Chain(a) \cap Chain(b) = {}
  BY <1>1, <1>2, <1>3, ReachApart DEF Chain
<1>. QED BY <1>1, <1>2, <1>3, <1>4, <1>5 DEF ChainsApart

(* A chain does not run into clusters that it does not start in and that   *)
(* nothing else leads into.                                                *)
LEMMA ChainAvoids ==
  ASSUME ChainsApart, NEW G, NEW h, h \notin G,
         \A g \in G : Source(fat, g) \/ \E b \in G \cap Cluster : fat[b] = g
  PROVE  Chain(h) \cap G = {}
<1>. DEFINE S == Cluster \ G
<1>1. \A c \in S \cap Cluster : fat[c] \in DOMAIN fat => fat[c] \in S
  BY DEF ChainsApart, Injective, Source
<1>2. h \in DOMAIN fat => h \in S
  BY DEF ChainsApart
<1>3. IsFiniteSet(DOMAIN fat)
  BY ClusterFacts DEF ChainsApart
<1>. HIDE DEF S
<1>4. Reach(fat, h, Cluster) \subseteq S
  BY <1>1, <1>2, <1>3, ReachLeast
<1>. QED BY <1>4 DEF Chain, S

(* The clusters of a new file lie in no chain but its own.                 *)
LEMMA NewApart ==
  ASSUME Before, Sem, op.kind \in {"put", "mkdir"}, op.clusters # << >>,
         ~(task = "alloc" /\ tail = 0), NEW h \in heads \ {op.record.first}
  PROVE  \A i \in DOMAIN op.clusters : op.clusters[i] \notin Chain(h)
<1>1. ChainsApart
  BY SoundFacts DEF Sem
<1>. DEFINE G == {op.clusters[i] : i \in DOMAIN op.clusters}
<1>2. op.clusters \in Seq(Cluster) /\ Len(op.clusters) \in Nat /\ Len(op.clusters) > 0
  BY DEF Before, Operation
<1>3. /\ op.record.first = op.clusters[1] /\ op.record.first \in heads
      /\ \A i \in DOMAIN op.clusters :
           fat[op.clusters[i]] = IF i = Len(op.clusters) THEN END ELSE op.clusters[i + 1]
  BY <1>2 DEF Sem, NewClusters
<1>4. ASSUME NEW i \in DOMAIN op.clusters, i # 1
      PROVE  i - 1 \in DOMAIN op.clusters /\ fat[op.clusters[i - 1]] = op.clusters[i]
             /\ op.clusters[i - 1] \in G \cap Cluster
  <2>1. i - 1 \in DOMAIN op.clusters /\ i - 1 # Len(op.clusters) /\ (i - 1) + 1 = i
    BY <1>2, <1>4
  <2>. QED BY <1>2, <1>3, <2>1
<1>5. Source(fat, op.clusters[1]) /\ Source(fat, h)
  BY <1>1, <1>3 DEF ChainsApart
<1>6. h \notin G
  <2>1. ASSUME NEW i \in DOMAIN op.clusters, op.clusters[i] = h PROVE FALSE
    <3>1. CASE i = 1
      BY <1>3, <2>1, <3>1
    <3>2. CASE i # 1
      <4>1. fat[op.clusters[i - 1]] = h /\ op.clusters[i - 1] \in DOMAIN fat
        BY <1>1, <1>4, <2>1, <3>2 DEF ChainsApart
      <4>. QED BY <1>5, <4>1 DEF Source
    <3>. QED BY <3>1, <3>2
  <2>. QED BY <2>1
<1>7. \A g \in G : Source(fat, g) \/ \E b \in G \cap Cluster : fat[b] = g
  <2>1. ASSUME NEW i \in DOMAIN op.clusters, i # 1
        PROVE  \E b \in G \cap Cluster : fat[b] = op.clusters[i]
    <3>. HIDE DEF G
    <3>. QED BY <1>4, <2>1
  <2>2. ASSUME NEW g \in G PROVE Source(fat, g) \/ \E b \in G \cap Cluster : fat[b] = g
    <3>1. PICK i \in DOMAIN op.clusters : g = op.clusters[i]
      BY <2>2
    <3>. HIDE DEF G
    <3>2. CASE i = 1
      BY <1>5, <3>1, <3>2
    <3>3. CASE i # 1
      BY <2>1, <3>1, <3>3
    <3>. QED BY <3>2, <3>3
  <2>. HIDE DEF G
  <2>. QED BY <2>2
<1>. HIDE DEF G
<1>8. Chain(h) \cap G = {}
  BY <1>1, <1>6, <1>7, ChainAvoids
<1>. QED BY <1>8 DEF G

(* A write to the record of a slot.                                        *)
LEMMA WriteSlotFacts ==
  ASSUME DiskType, NEW s \in DirSlot, NEW r \in Record \cup {FreeRecord}, WriteSlot(s, r)
  PROVE  /\ disk' \in [Cluster -> Payload \cup DirArray]
         /\ \A c \in Cluster : c # s[1] => disk'[c] = disk[c]
         /\ DirSlot' = DirSlot
         /\ \A t \in DirSlot : At(t)' = IF t = s THEN r ELSE At(t)
<1>1. s[1] \in Cluster /\ s[2] \in 1 .. SlotsPerCluster /\ disk[s[1]] \in DirArray /\ s \in Slot
  BY AtFacts DEF AtTyped
<1>. DEFINE D == [disk[s[1]] EXCEPT ![s[2]] = r]
<1>2. D \in DirArray
  BY <1>1 DEF DirArray
<1>3. disk \in [Cluster -> Payload \cup DirArray] /\ disk' = [disk EXCEPT ![s[1]] = D]
  BY DEF DiskType, WriteSlot
<1>. HIDE DEF D
<1>4. /\ disk' \in [Cluster -> Payload \cup DirArray] /\ disk'[s[1]] = D
      /\ \A c \in Cluster : c # s[1] => disk'[c] = disk[c]
  BY <1>1, <1>2, <1>3
<1>5. \A c \in Cluster : disk'[c] \in Payload <=> disk[c] \in Payload
  BY <1>1, <1>2, <1>4, DirArrayFacts
<1>6. DirSlot' = DirSlot
  BY <1>5, SlotFacts DEF DirSlot
<1>7. ASSUME NEW t \in DirSlot PROVE At(t)' = IF t = s THEN r ELSE At(t)
  <2>1. t \in Slot /\ t[1] \in Cluster /\ t[2] \in 1 .. SlotsPerCluster
        /\ t = <<t[1], t[2]>> /\ s = <<s[1], s[2]>>
    BY <1>1, AtFacts, SlotFacts DEF AtTyped
  <2>2. CASE t[1] # s[1]
    <3>1. At(t)' = At(t) /\ t # s
      BY <1>4, <2>1, <2>2 DEF At
    <3>. QED BY <3>1
  <2>3. CASE t[1] = s[1]
    <3>1. At(t)' = D[t[2]]
      BY <1>4, <2>3 DEF At
    <3>2. D[t[2]] = IF t[2] = s[2] THEN r ELSE disk[s[1]][t[2]]
      BY <1>1, <2>1 DEF D, DirArray
    <3>3. t = s <=> t[2] = s[2]
      BY <2>1, <2>3
    <3>. QED BY <2>3, <3>1, <3>2, <3>3 DEF At
  <2>. QED BY <2>2, <2>3
<1>. QED BY <1>4, <1>6, <1>7

WriteDataFacts(c) ==
  /\ Working /\ pc = "data" /\ task = "idle"
  /\ UNCHANGED <<chainMap, state>>
  /\ op.done + 1 \in DOMAIN op.clusters /\ c = op.clusters[op.done + 1]
  /\ c \in OnDisk /\ c \in Cluster
  /\ disk' \in [Cluster -> Payload \cup DirArray] /\ disk'[c] = op.content
  /\ \A x \in Cluster : x # c => disk'[x] = disk[x]
  /\ op' \in Operation
  /\ op'.kind = op.kind /\ op'.targets = op.targets /\ op'.parent = op.parent
  /\ op'.slot = op.slot /\ op'.record = op.record /\ op'.size = op.size
  /\ op'.content = op.content /\ op'.clusters = op.clusters
  /\ op'.from = op.from /\ op'.stack = op.stack /\ op'.freed = op.freed
  /\ op'.done = op.done + 1
  /\ pc' = IF op'.done = Len(op.clusters) THEN "slot" ELSE "data"

LEMMA WriteDataStep ==
  ASSUME TypeInv, WriteData
  PROVE  \/ \E c \in Cluster : WriteDataFacts(c)
         \/ Stop /\ UNCHANGED <<chainMap, disk>>
<1>1. Before /\ pc = "data" /\ task = "idle" /\ UNCHANGED chainMap
  BY BeforeStep DEF WriteData
<1>. DEFINE c == op.clusters[op.done + 1]
<1>2. \/ /\ c \in OnDisk /\ disk' = [disk EXCEPT ![c] = op.content]
         /\ op' = [op EXCEPT !.done = op.done + 1]
         /\ pc' = IF op.done + 1 = Len(op.clusters) THEN "slot" ELSE pc
         /\ UNCHANGED state
      \/ Stop /\ UNCHANGED <<chainMap, disk>>
  BY DEF WriteData
<1>3. /\ op \in Operation /\ op.clusters \in Seq(Cluster) /\ op.done \in Nat
      /\ op.done < Len(op.clusters) /\ op.kind \in {"put", "mkdir"}
  BY <1>1 DEF Before, StepOf, Operation
<1>4. op.done + 1 \in DOMAIN op.clusters /\ op.done + 1 \in Nat /\ c \in Cluster
  BY <1>3
<1>5. op.content \in Payload \cup DirArray
  BY <1>1, <1>3, DirArrayFacts DEF Before, StepOf
<1>. HIDE DEF c
<1>6. CASE /\ c \in OnDisk /\ disk' = [disk EXCEPT ![c] = op.content]
           /\ op' = [op EXCEPT !.done = op.done + 1]
           /\ pc' = IF op.done + 1 = Len(op.clusters) THEN "slot" ELSE pc
           /\ UNCHANGED state
  <2>1. /\ op' \in Operation
        /\ op'.kind = op.kind /\ op'.targets = op.targets /\ op'.parent = op.parent
        /\ op'.slot = op.slot /\ op'.record = op.record /\ op'.size = op.size
        /\ op'.content = op.content /\ op'.clusters = op.clusters
        /\ op'.from = op.from /\ op'.stack = op.stack /\ op'.freed = op.freed
        /\ op'.done = op.done + 1
    BY <1>3, <1>4, <1>6 DEF Operation
  <2>2. /\ disk' \in [Cluster -> Payload \cup DirArray] /\ disk'[c] = op.content
        /\ \A x \in Cluster : x # c => disk'[x] = disk[x]
    BY <1>1, <1>4, <1>5, <1>6 DEF Before, DiskType
  <2>3. pc' = IF op'.done = Len(op.clusters) THEN "slot" ELSE "data"
    BY <1>1, <1>6, <2>1
  <2>. QED BY <1>1, <1>4, <1>6, <2>1, <2>2, <2>3 DEF WriteDataFacts, Working, c
<1>. QED BY <1>2, <1>6

(* The cluster written is none of a directory.                             *)
LEMMA WriteDataApart ==
  ASSUME IInv, NEW c \in Cluster, WriteDataFacts(c)
  PROVE  /\ Sem /\ op.kind \in {"put", "mkdir"} /\ op.record.first \in heads \ {RootCluster}
         /\ \A h \in heads \ {op.record.first} : c \notin Chain(h)
         /\ op.slot # NoSlot => op.slot[1] # c
         /\ \A s \in DirSlot : s[1] # c => s \in DirSlot' /\ At(s)' = At(s)
         /\ \A s \in DirSlot' : s[1] # c => s \in DirSlot
         /\ \A s \in DirSlot' : s[1] = c => At(s)' = FreeRecord
<1>1. Before /\ op.kind \in {"put", "mkdir"} /\ op.clusters # << >> /\ task = "idle" /\ pc = "data"
  BY DEF WriteDataFacts, Working, Before, StepOf
<1>2. Sem
  BY <1>1 DEF Before, IInv
<1>3. op.record.first \in heads \ {RootCluster}
  BY <1>1, <1>2 DEF Sem, NewClusters
<1>4. \A h \in heads \ {op.record.first} : c \notin Chain(h)
  BY <1>1, <1>2, NewApart DEF WriteDataFacts
<1>5. op.slot # NoSlot => op.slot[1] # c
  <2>1. op.parent \in heads \ {op.record.first}
    BY <1>1, <1>2 DEF Sem, ParentHeld, NewClusters, DirHead, Changes
  <2>2. op.slot # NoSlot => op.slot \in Slots(op.parent)
    BY <1>1, <1>2 DEF Sem, ParentHeld, Changes
  <2>. QED BY <1>1, <1>4, <2>1, <2>2, AtFacts DEF Slots, AtTyped, Before
<1>6. \A s \in DirSlot : s[1] # c => s \in DirSlot' /\ At(s)' = At(s)
  BY SlotFacts DEF WriteDataFacts, DirSlot, At
<1>7. \A s \in DirSlot' : s[1] # c => s \in DirSlot
  BY SlotFacts DEF WriteDataFacts, DirSlot
<1>8. ASSUME NEW s \in DirSlot', s[1] = c PROVE At(s)' = FreeRecord
  <2>1. s \in Slot /\ disk'[c] \notin Payload /\ disk'[c] = op.content
    BY <1>8 DEF WriteDataFacts, DirSlot
  <2>2. op.content = EmptyDirectory
    BY <1>1, <2>1 DEF Before, StepOf
  <2>. QED BY <1>8, <2>1, <2>2, SlotFacts, DirArrayFacts DEF At
<1>. QED BY <1>1, <1>2, <1>3, <1>4, <1>5, <1>6, <1>7, <1>8

LEMMA WriteDataTypes == IInv /\ WriteData => TypeInv'
<1>. SUFFICES ASSUME IInv, WriteData PROVE TypeInv'
  OBVIOUS
<1>1. TypeInv
  BY DEF IInv
<1>2. ASSUME NEW c \in Cluster, WriteDataFacts(c) PROVE TypeInv'
  <2>1. Before /\ task = "idle" /\ pc = "data" /\ op.kind \in {"put", "mkdir"} /\ op.stack = << >>
    BY <1>2 DEF WriteDataFacts, Working, Before, StepOf
  <2>2. EP!TypeInv' /\ task' = "idle" /\ tail' = 0
    BY <1>2, <2>1, RestedTypes DEF WriteDataFacts
  <2>3. TaskOf'
    BY <2>2 DEF TaskOf
  <2>4. op'.done <= Len(op'.clusters) /\ (pc' = "data" => op'.done < Len(op'.clusters))
    BY <1>2 DEF WriteDataFacts
  <2>5. StepOf'
    BY <1>2, <2>1, <2>4 DEF StepOf, WriteDataFacts, Before
  <2>6. op'.slot = NoSlot \/ op'.slot \in DirSlot'
    BY <1>2, <2>1, WriteDataApart DEF WriteDataFacts, Before, SlotOf
  <2>7. SlotOf'
    <3>1. \A i \in DOMAIN op'.stack : FALSE
      BY <1>2, <2>1 DEF WriteDataFacts
    <3>. QED BY <1>2, <2>1, <2>6, <3>1 DEF SlotOf, WriteDataFacts
  <2>. QED BY <1>2, <2>1, <2>2, <2>3, <2>4, <2>5, <2>7, StepTypes DEF WriteDataFacts, Before
<1>3. CASE Stop /\ UNCHANGED <<chainMap, disk>>
  <2>1. EP!TypeInv' /\ task' = "idle"
    BY <1>1, <1>3, BeforeStep, RestedTypes DEF WriteData
  <2>. QED BY <1>1, <1>3, <2>1, StopTypes
<1>. QED BY <1>1, <1>2, <1>3, WriteDataStep

(* The operation as it was, with another record to write.                  *)
Chosen(s) ==
  /\ op' \in Operation
  /\ op'.kind = op.kind /\ op'.targets = op.targets /\ op'.parent = op.parent
  /\ op'.record = op.record /\ op'.size = op.size /\ op'.content = op.content
  /\ op'.clusters = op.clusters /\ op'.done = op.done
  /\ op'.from = op.from /\ op'.stack = op.stack /\ op'.freed = op.freed
  /\ op'.slot = s

WritableRecordFacts ==
  /\ Working /\ pc = "slot" /\ task = "idle" /\ UNCHANGED <<disk, state>>
  /\ \/ op.slot # NoSlot /\ pc' = "record" /\ UNCHANGED <<chainMap, op>>
     \/ /\ op.slot = NoSlot /\ pc' = "record" /\ UNCHANGED chainMap
        /\ op'.slot \in DirSlot /\ op'.slot \in Slots(op.parent) /\ At(op'.slot) = FreeRecord
        /\ Chosen(op'.slot)
     \/ /\ op.slot = NoSlot /\ UNCHANGED <<pc, op>>
        /\ op.parent \in Cluster /\ EP!BeginAppend(op.parent)

LEMMA WritableRecordStep == TypeInv /\ WritableRecord => WritableRecordFacts
<1>. SUFFICES ASSUME TypeInv, WritableRecord PROVE WritableRecordFacts
  OBVIOUS
<1>1. Before /\ pc = "slot" /\ task = "idle" /\ UNCHANGED <<disk, state>>
  BY BeforeStep DEF WritableRecord
<1>2. ASSUME NEW s \in FreeSlots(op.parent), op' = [op EXCEPT !.slot = s]
      PROVE  /\ op'.slot \in DirSlot /\ op'.slot \in Slots(op.parent) /\ At(op'.slot) = FreeRecord
             /\ Chosen(op'.slot)
  <2>1. s \in DirSlot /\ s \in Slot /\ s \in Slots(op.parent) /\ At(s) = FreeRecord
    BY <1>1, <1>2, AtFacts DEF FreeSlots, Slots, AtTyped, Before
  <2>2. op \in Operation /\ s \in Slot \cup {NoSlot}
    BY <1>1, <2>1 DEF Before
  <2>. QED BY <1>2, <2>1, <2>2 DEF Chosen, Operation
<1>3. op.parent \in Cluster
  BY <1>1 DEF Before, StepOf, Operation
<1>. QED BY <1>1, <1>2, <1>3, EditorSteps DEF WritableRecord, WritableRecordFacts, Working

LEMMA WritableRecordTypes == TypeInv /\ WritableRecord => TypeInv'
<1>. SUFFICES ASSUME TypeInv, WritableRecord PROVE TypeInv'
  OBVIOUS
<1>1. WritableRecordFacts /\ Before /\ pc = "slot" /\ task = "idle" /\ DirSlot' = DirSlot
  BY WritableRecordStep DEF WritableRecordFacts, Working, DirSlot
<1>2. CASE op.slot # NoSlot /\ pc' = "record" /\ UNCHANGED <<chainMap, op>>
  <2>1. EP!TypeInv' /\ task' = "idle" /\ tail' = 0
    BY <1>1, <1>2, RestedTypes
  <2>2. TaskOf' /\ StepOf' /\ SlotOf'
    BY <1>1, <1>2, <2>1 DEF Before, TaskOf, StepOf, SlotOf
  <2>. QED BY <1>1, <1>2, <2>1, <2>2, StepTypes DEF Before, DiskType, WritableRecordFacts
<1>3. CASE /\ op.slot = NoSlot /\ pc' = "record" /\ UNCHANGED chainMap
           /\ op'.slot \in DirSlot /\ Chosen(op'.slot)
  <2>1. EP!TypeInv' /\ task' = "idle" /\ tail' = 0
    BY <1>1, <1>3, RestedTypes
  <2>2. TaskOf' /\ StepOf'
    BY <1>1, <1>3, <2>1 DEF Before, TaskOf, StepOf, Chosen
  <2>3. op'.slot # NoSlot /\ DirSlot \subseteq Slot
    BY <1>3, SlotFacts DEF DirSlot
  <2>4. SlotOf'
    BY <1>1, <1>3, <2>3 DEF Before, SlotOf, Chosen
  <2>. QED BY <1>1, <1>3, <2>1, <2>2, <2>4, StepTypes
          DEF Before, DiskType, WritableRecordFacts, Chosen
<1>4. CASE op.slot = NoSlot /\ UNCHANGED <<pc, op>> /\ op.parent \in Cluster
           /\ EP!BeginAppend(op.parent)
  <2>1. EP!TypeInv'
    BY <1>1, <1>4, EditorTypes DEF Before
  <2>2. TaskOf'
    BY <1>1, <1>4 DEF Before, EditorTyped, EP!BeginAppend, TaskOf
  <2>3. StepOf' /\ SlotOf'
    BY <1>1, <1>4 DEF Before, StepOf, SlotOf
  <2>. QED BY <1>1, <1>4, <2>1, <2>2, <2>3, StepTypes DEF Before, DiskType, WritableRecordFacts
<1>. QED BY <1>1, <1>2, <1>3, <1>4 DEF WritableRecordFacts

ClearAppendedFacts ==
  /\ Working /\ pc = "zero" /\ task = "idle"
  /\ UNCHANGED <<chainMap, op, state>> /\ pc' = "record"
  /\ op.slot \in Slot /\ op.slot \in DirSlot' /\ op.slot[1] \in OnDisk
  /\ disk' \in [Cluster -> Payload \cup DirArray]
  /\ \A c \in Cluster : c # op.slot[1] => disk'[c] = disk[c]
  /\ DirSlot \subseteq DirSlot'
  /\ \A s \in DirSlot' : s[1] # op.slot[1] => s \in DirSlot /\ At(s)' = At(s)
  /\ \A s \in DirSlot' : s[1] = op.slot[1] => At(s)' = FreeRecord

LEMMA ClearAppendedStep ==
  ASSUME TypeInv, ClearAppended
  PROVE  \/ ClearAppendedFacts
         \/ op.slot[1] \notin OnDisk /\ Stop /\ UNCHANGED <<chainMap, disk>>
<1>1. Before /\ pc = "zero" /\ task = "idle" /\ UNCHANGED chainMap
  BY BeforeStep DEF ClearAppended
<1>2. op.slot \in Slot /\ op.slot[1] \in Cluster
  BY <1>1, SlotFacts DEF Before, SlotOf
<1>. DEFINE c == op.slot[1]
<1>3. CASE /\ c \in OnDisk /\ disk' = [disk EXCEPT ![c] = EmptyDirectory]
           /\ pc' = "record" /\ UNCHANGED <<op, state>>
  <2>1. /\ disk' \in [Cluster -> Payload \cup DirArray] /\ disk'[c] = EmptyDirectory
        /\ \A x \in Cluster : x # c => disk'[x] = disk[x]
    BY <1>1, <1>2, <1>3, DirArrayFacts DEF Before, DiskType
  <2>2. EmptyDirectory \notin Payload
    BY DirArrayFacts
  <2>3. /\ op.slot \in DirSlot' /\ DirSlot \subseteq DirSlot'
        /\ \A s \in DirSlot' : s[1] # c => s \in DirSlot /\ At(s)' = At(s)
    BY <1>2, <2>1, <2>2, SlotFacts DEF DirSlot, At
  <2>4. \A s \in DirSlot' : s[1] = c => At(s)' = FreeRecord
    BY <2>1, SlotFacts, DirArrayFacts DEF DirSlot, At
  <2>. QED BY <1>1, <1>2, <1>3, <2>1, <2>3, <2>4 DEF ClearAppendedFacts, Working
<1>. QED BY <1>1, <1>3 DEF ClearAppended

LEMMA ClearAppendedTypes == TypeInv /\ ClearAppended => TypeInv'
<1>. SUFFICES ASSUME TypeInv, ClearAppended PROVE TypeInv'
  OBVIOUS
<1>1. Before /\ task = "idle" /\ pc = "zero"
  BY BeforeStep DEF ClearAppended
<1>2. CASE ClearAppendedFacts
  <2>1. EP!TypeInv' /\ task' = "idle" /\ tail' = 0
    BY <1>1, <1>2, RestedTypes DEF ClearAppendedFacts
  <2>2. TaskOf' /\ StepOf'
    BY <1>1, <1>2, <2>1 DEF Before, TaskOf, StepOf, ClearAppendedFacts
  <2>3. op.slot # NoSlot
    BY <1>2, SlotFacts DEF ClearAppendedFacts
  <2>4. SlotOf'
    BY <1>1, <1>2, <2>3 DEF Before, SlotOf, ClearAppendedFacts
  <2>. QED BY <1>1, <1>2, <2>1, <2>2, <2>4, StepTypes DEF Before, ClearAppendedFacts
<1>3. CASE Stop /\ UNCHANGED <<chainMap, disk>>
  BY <1>1, <1>3, RestedTypes, StopTypes
<1>. QED BY <1>2, <1>3, ClearAppendedStep

(* A step that writes one record and nothing else to the volume.           *)
Written(s, r) ==
  /\ task = "idle" /\ UNCHANGED chainMap
  /\ s \in DirSlot /\ r \in Record \cup {FreeRecord}
  /\ disk' \in [Cluster -> Payload \cup DirArray]
  /\ \A c \in Cluster : c # s[1] => disk'[c] = disk[c]
  /\ DirSlot' = DirSlot
  /\ \A t \in DirSlot : At(t)' = IF t = s THEN r ELSE At(t)

LEMMA WrittenFacts ==
  ASSUME Before, task = "idle", UNCHANGED chainMap,
         NEW s \in DirSlot, NEW r \in Record \cup {FreeRecord}, WriteSlot(s, r)
  PROVE  Written(s, r)
BY WriteSlotFacts DEF Before, Written

LEMMA DoneTypes ==
  ASSUME Before, NEW s, NEW r, Written(s, r), Done
  PROVE  TypeInv'
<1>1. EP!TypeInv' /\ task' = "idle"
  BY RestedTypes DEF Written
<1>. QED BY <1>1, IdleTypes DEF Before, Written, Done

WriteRecordFacts ==
  /\ Working /\ pc = "record" /\ op.slot # NoSlot
  /\ op.record \in Record /\ Written(op.slot, op.record)
  /\ IF op.kind = "move" THEN pc' = "unlink" /\ UNCHANGED <<op, state>> ELSE Done

LEMMA WriteRecordStep == TypeInv /\ WriteRecord => WriteRecordFacts
<1>. SUFFICES ASSUME TypeInv, WriteRecord PROVE WriteRecordFacts
  OBVIOUS
<1>1. Before /\ pc = "record" /\ task = "idle" /\ UNCHANGED chainMap
  BY BeforeStep DEF WriteRecord
<1>2. op.slot # NoSlot /\ op.slot \in DirSlot /\ op.record \in Record
  BY <1>1 DEF Before, SlotOf, StepOf, Operation
<1>3. Written(op.slot, op.record)
  BY <1>1, <1>2, WrittenFacts DEF WriteRecord
<1>. QED BY <1>1, <1>2, <1>3 DEF WriteRecord, WriteRecordFacts, Working

LEMMA WriteRecordTypes == TypeInv /\ WriteRecord => TypeInv'
<1>. SUFFICES ASSUME TypeInv, WriteRecord PROVE TypeInv'
  OBVIOUS
<1>1. WriteRecordFacts /\ Before
  BY WriteRecordStep DEF WriteRecordFacts, Working
<1>2. CASE op.kind # "move"
  BY <1>1, <1>2, DoneTypes DEF WriteRecordFacts
<1>3. CASE op.kind = "move"
  <2>1. EP!TypeInv' /\ task' = "idle" /\ tail' = 0
    BY <1>1, RestedTypes DEF WriteRecordFacts, Written
  <2>2. TaskOf' /\ StepOf' /\ SlotOf'
    BY <1>1, <1>3, <2>1 DEF Before, TaskOf, StepOf, SlotOf, WriteRecordFacts, Written
  <2>. QED BY <1>1, <1>3, <2>1, <2>2, StepTypes DEF Before, WriteRecordFacts, Written
<1>. QED BY <1>2, <1>3

UnlinkFacts ==
  /\ Working /\ pc = "unlink" /\ op.kind = "move"
  /\ Written(op.from, FreeRecord) /\ Done

LEMMA UnlinkStep == TypeInv /\ Unlink => UnlinkFacts
<1>. SUFFICES ASSUME TypeInv, Unlink PROVE UnlinkFacts
  OBVIOUS
<1>1. Before /\ pc = "unlink" /\ task = "idle" /\ UNCHANGED chainMap
  BY BeforeStep DEF Unlink
<1>2. op.kind = "move" /\ op.from \in DirSlot
  BY <1>1 DEF Before, SlotOf, StepOf
<1>3. Written(op.from, FreeRecord)
  BY <1>1, <1>2, WrittenFacts DEF Unlink
<1>. QED BY <1>1, <1>2, <1>3 DEF Unlink, UnlinkFacts, Working

RenameFacts ==
  /\ Working /\ pc = "rename" /\ op.kind = "move" /\ task = "idle" /\ op.record \in Record
  /\ \/ /\ op.targets # {} /\ SameParent
        /\ Written(op.from, op.record) /\ Done
     \/ /\ op.targets = {} \/ ~SameParent
        /\ pc' = "slot" /\ UNCHANGED <<chainMap, disk, op, state>>

LEMMA RenameStep == TypeInv /\ Rename => RenameFacts
<1>. SUFFICES ASSUME TypeInv, Rename PROVE RenameFacts
  OBVIOUS
<1>1. Before /\ pc = "rename" /\ task = "idle" /\ UNCHANGED chainMap
  BY BeforeStep DEF Rename
<1>2. op.kind = "move" /\ op.from \in DirSlot /\ op.record \in Record
  BY <1>1 DEF Before, SlotOf, StepOf, Operation
<1>3. (\E d \in {Parent(p) : p \in op.targets} : \A p \in op.targets : Parent(p) = d)
        <=> op.targets # {} /\ SameParent
  BY DEF SameParent
<1>4. WriteSlot(op.from, op.record) => Written(op.from, op.record)
  BY <1>1, <1>2, WrittenFacts
<1>. QED BY <1>1, <1>2, <1>3, <1>4 DEF Rename, RenameFacts, Working

LEMMA RenameTypes == TypeInv /\ Rename => TypeInv'
<1>. SUFFICES ASSUME TypeInv, Rename PROVE TypeInv'
  OBVIOUS
<1>1. RenameFacts /\ Before
  BY RenameStep DEF RenameFacts, Working
<1>2. CASE Written(op.from, op.record) /\ Done
  BY <1>1, <1>2, DoneTypes
<1>3. CASE pc' = "slot" /\ UNCHANGED <<chainMap, disk, op, state>>
  <2>1. EP!TypeInv' /\ task' = "idle" /\ tail' = 0
    BY <1>1, <1>3, RestedTypes DEF RenameFacts
  <2>2. TaskOf' /\ StepOf' /\ SlotOf'
    BY <1>1, <1>3, <2>1 DEF Before, TaskOf, StepOf, SlotOf, DirSlot, RenameFacts
  <2>. QED BY <1>1, <1>3, <2>1, <2>2, StepTypes DEF Before, DiskType, RenameFacts
<1>. QED BY <1>1, <1>2, <1>3 DEF RenameFacts

LEMMA UnlinkTypes == TypeInv /\ Unlink => TypeInv'
BY UnlinkStep, DoneTypes DEF UnlinkFacts, Working

(* The stack of a delete, and its innermost frame.                         *)
LEMMA TopFacts ==
  ASSUME Before, pc \in {"delete", "mark"}
  PROVE  /\ op.stack \in Seq(Frames) /\ Len(op.stack) \in Nat \ {0}
         /\ Len(op.stack) \in DOMAIN op.stack
         /\ Top \in Frames /\ Top.slot \in DirSlot
         /\ Parent(op.stack) \in Seq(Frames) /\ Len(Parent(op.stack)) = Len(op.stack) - 1
         /\ \A i \in DOMAIN Parent(op.stack) : i \in DOMAIN op.stack
                                              /\ Parent(op.stack)[i] = op.stack[i]
<1>1. op.stack \in Seq(Frames) /\ op.stack # << >>
  BY DEF Before, Operation, Frames, StepOf
<1>2. Len(op.stack) \in Nat \ {0} /\ Len(op.stack) \in DOMAIN op.stack
  BY <1>1
<1>3. Top \in Frames /\ Top.slot \in DirSlot
  BY <1>1, <1>2 DEF Top, Before, SlotOf
<1>. QED BY <1>1, <1>2, <1>3, ParentFacts

(* The operation as it was, with another stack.                            *)
Stacked(t, freed) ==
  /\ op' \in Operation
  /\ op'.kind = op.kind /\ op'.targets = op.targets /\ op'.parent = op.parent
  /\ op'.slot = op.slot /\ op'.record = op.record /\ op'.size = op.size
  /\ op'.content = op.content /\ op'.clusters = op.clusters /\ op'.done = op.done
  /\ op'.from = op.from
  /\ op'.stack = t /\ (op'.freed <=> freed)

MarkDeletedFacts ==
  /\ Working /\ pc = "mark" /\ op.kind \in {"delete", "move"} /\ op.stack # << >>
  /\ Written(Top.slot, FreeRecord)
  /\ \/ Len(op.stack) = 1 /\ op.kind = "delete" /\ Done
     \/ /\ op.kind = "move" => Len(op.stack) = 1
        /\ op.kind # "move" => Len(op.stack) > 1
        /\ pc' = IF op.kind = "move" THEN "rename" ELSE "delete"
        /\ Stacked(Parent(op.stack), FALSE) /\ UNCHANGED state

LEMMA MarkDeletedStep == TypeInv /\ MarkDeleted => MarkDeletedFacts
<1>. SUFFICES ASSUME TypeInv, MarkDeleted PROVE MarkDeletedFacts
  OBVIOUS
<1>1. Before /\ pc = "mark" /\ task = "idle" /\ UNCHANGED chainMap /\ op \in Operation
  BY BeforeStep DEF MarkDeleted, Before
<1>2. op.kind \in {"delete", "move"} /\ op.stack # << >>
  BY <1>1 DEF Before, StepOf
<1>3. /\ Top.slot \in DirSlot /\ Len(op.stack) \in Nat \ {0}
      /\ Parent(op.stack) \in Seq(Frames)
  BY <1>1, TopFacts
<1>4. Written(Top.slot, FreeRecord)
  BY <1>1, <1>3, WrittenFacts DEF MarkDeleted
<1>5. op.kind = "move" => Len(op.stack) = 1
  <2>1. op.kind = "move" => Len(op.stack) <= 1
    BY <1>1 DEF Before, SlotOf
  <2>2. \A n \in Nat \ {0} : n <= 1 => n = 1
    OBVIOUS
  <2>. QED BY <1>3, <2>1, <2>2, Zenon
<1>6. \/ Len(op.stack) = 1 /\ op.kind = "delete" /\ Done
      \/ /\ ~(Len(op.stack) = 1 /\ op.kind = "delete")
         /\ pc' = IF Len(op.stack) = 1 THEN "rename" ELSE "delete"
         /\ op' = [op EXCEPT !.stack = Parent(@), !.freed = FALSE]
         /\ UNCHANGED state
  BY DEF MarkDeleted
<1>7. op' = [op EXCEPT !.stack = Parent(@), !.freed = FALSE] => Stacked(Parent(op.stack), FALSE)
  <2>. DEFINE t == Parent(op.stack)
  <2>. SUFFICES ASSUME op' = [op EXCEPT !.stack = t, !.freed = FALSE] PROVE Stacked(t, FALSE)
    OBVIOUS
  <2>1. t \in Seq(Frames)
    BY <1>3
  <2>. HIDE DEF t
  <2>. QED BY <1>1, <2>1 DEF Operation, Frames, Stacked
<1>8. CASE Len(op.stack) = 1 /\ op.kind = "delete" /\ Done
  BY <1>1, <1>2, <1>4, <1>8 DEF MarkDeletedFacts, Working
<1>9. CASE /\ ~(Len(op.stack) = 1 /\ op.kind = "delete")
           /\ pc' = IF Len(op.stack) = 1 THEN "rename" ELSE "delete"
           /\ Stacked(Parent(op.stack), FALSE) /\ UNCHANGED state
  <2>1. op.kind # "move" => Len(op.stack) > 1
    <3>1. \A n \in Nat \ {0} : n # 1 => n > 1
      OBVIOUS
    <3>2. op.kind # "move" => Len(op.stack) # 1
      BY <1>2, <1>9
    <3>. QED BY <1>3, <3>1, <3>2, Zenon
  <2>2. pc' = IF op.kind = "move" THEN "rename" ELSE "delete"
    BY <1>2, <1>5, <1>9
  <2>. QED BY <1>1, <1>2, <1>4, <1>5, <1>9, <2>1, <2>2 DEF MarkDeletedFacts, Working
<1>. QED BY <1>6, <1>7, <1>8, <1>9

LEMMA MarkDeletedTypes == TypeInv /\ MarkDeleted => TypeInv'
<1>. SUFFICES ASSUME TypeInv, MarkDeleted PROVE TypeInv'
  OBVIOUS
<1>1. MarkDeletedFacts /\ Before /\ pc = "mark"
  BY MarkDeletedStep DEF MarkDeletedFacts, Working
<1>2. CASE Done
  BY <1>1, <1>2, DoneTypes DEF MarkDeletedFacts
<1>3. CASE /\ op.kind = "move" => Len(op.stack) = 1
           /\ op.kind # "move" => Len(op.stack) > 1
           /\ pc' = IF op.kind = "move" THEN "rename" ELSE "delete"
           /\ Stacked(Parent(op.stack), FALSE) /\ UNCHANGED state
  <2>1. EP!TypeInv' /\ task' = "idle" /\ tail' = 0
    BY <1>1, RestedTypes DEF MarkDeletedFacts, Written
  <2>2. TaskOf'
    BY <2>1 DEF TaskOf
  <2>3. op'.kind # "move" => op'.stack # << >>
    BY <1>1, <1>3, TopFacts DEF Stacked
  <2>4. StepOf'
    BY <1>1, <1>3, <2>3 DEF Before, StepOf, Stacked, MarkDeletedFacts
  <2>5. /\ \A i \in DOMAIN op'.stack : op'.stack[i].slot \in DirSlot
        /\ op'.kind = "move" => Len(op'.stack) <= 1 /\ \A i \in DOMAIN op'.stack : op'.stack[i].todo = {}
    BY <1>1, <1>3, TopFacts DEF Before, SlotOf, Stacked
  <2>6. SlotOf'
    BY <1>1, <1>3, <2>5 DEF Before, SlotOf, Stacked, MarkDeletedFacts, Written
  <2>. QED BY <1>1, <1>3, <2>1, <2>2, <2>4, <2>6, StepTypes
          DEF Before, MarkDeletedFacts, Written, Stacked
<1>. QED BY <1>1, <1>2, <1>3 DEF MarkDeletedFacts

DeleteChildFacts ==
  /\ Working /\ pc = "delete" /\ task = "idle" /\ op.kind = "delete"
  /\ UNCHANGED <<chainMap, disk, pc, state>>
  /\ op'.stack \in Seq(Frames) /\ op'.stack # << >>
  /\ \A i \in DOMAIN op'.stack : op'.stack[i].slot \in DirSlot
  /\ Stacked(op'.stack, op.freed)

LEMMA DeleteChildStep ==
  ASSUME TypeInv, DeleteChild
  PROVE  \/ DeleteChildFacts
         \/ Stop /\ UNCHANGED <<chainMap, disk>>
<1>1. Before /\ pc = "delete" /\ task = "idle" /\ UNCHANGED <<chainMap, disk>> /\ DiskType
  BY BeforeStep DEF DeleteChild, Before
<1>2. PICK n \in Top.todo :
        LET p == Append(Top.path, n)
            frame == [Top EXCEPT !.todo = @ \ {n}]
        IN \/ /\ \E s \in Lookup(p) :
                    op' = [op EXCEPT !.stack = Append(Append(Parent(@), frame), Frame(p, s))]
              /\ UNCHANGED <<pc, state>>
           \/ Stop
  BY DEF DeleteChild
<1>. DEFINE p == Append(Top.path, n)
            frame == [Top EXCEPT !.todo = @ \ {n}]
<1>3. /\ Top \in Frames /\ Top.slot \in DirSlot /\ op.stack \in Seq(Frames)
      /\ Parent(op.stack) \in Seq(Frames)
      /\ \A i \in DOMAIN Parent(op.stack) : i \in DOMAIN op.stack
                                           /\ Parent(op.stack)[i] = op.stack[i]
  BY <1>1, TopFacts
<1>4. op.kind = "delete"
  <2>1. op.kind = "move" => Top.todo = {}
    BY <1>1, TopFacts DEF Before, SlotOf, Top
  <2>. QED BY <1>1, <1>2, <2>1 DEF Before, StepOf
<1>5. frame \in Frames /\ frame.slot = Top.slot
  BY <1>3 DEF Frames
<1>6. p \in Seq(Name) /\ p # << >>
  <2>1. Top.path \in Seq(Name) /\ n \in Name
    BY <1>3 DEF Frames
  <2>2. \A q \in Seq(Name) : Append(q, n) \in Seq(Name) /\ Len(Append(q, n)) = Len(q) + 1
                            /\ Len(q) \in Nat
    BY <2>1
  <2>3. Len(p) # 0
    BY <2>1, <2>2
  <2>. QED BY <2>1, <2>2, <2>3
<1>7. \A s \in Lookup(p) : Frame(p, s) \in Frames /\ Frame(p, s).slot = s /\ s \in DirSlot
  <2>. HIDE DEF p
  <2>1. \A s \in Lookup(p) : s \in Records
    BY <1>1, <1>6, LookupFacts
  <2>. QED BY <1>1, <1>6, <2>1, FrameFacts DEF Frames, Records
<1>8. ASSUME NEW s \in Lookup(p),
             op' = [op EXCEPT !.stack = Append(Append(Parent(@), frame), Frame(p, s))],
             UNCHANGED <<pc, state>>
      PROVE  DeleteChildFacts
  <2>. DEFINE f == Frame(p, s)
              t == Append(Append(Parent(op.stack), frame), f)
  <2>1. f \in Frames /\ f.slot \in DirSlot
    BY <1>7, <1>8
  <2>2. op' = [op EXCEPT !.stack = t]
    BY <1>8
  <2>. HIDE DEF f, frame
  <2>3. t \in Seq(Frames) /\ t # << >>
    BY <1>3, <1>5, <2>1
  <2>4. \A i \in DOMAIN t : t[i].slot \in DirSlot
    <3>. DEFINE u == Append(Parent(op.stack), frame)
    <3>1. \A i \in DOMAIN Parent(op.stack) : Parent(op.stack)[i].slot \in DirSlot
      BY <1>1, <1>3 DEF Before, SlotOf
    <3>2. \A i \in DOMAIN u : u[i].slot \in DirSlot
      BY <1>3, <1>5, <3>1
    <3>3. u \in Seq(Frames)
      BY <1>3, <1>5
    <3>. HIDE DEF u
    <3>4. \A i \in DOMAIN Append(u, f) : Append(u, f)[i].slot \in DirSlot
      BY <2>1, <3>2, <3>3
    <3>. QED BY <3>4 DEF u
  <2>. HIDE DEF t
  <2>5. Stacked(t, op.freed) /\ op'.stack = t
    BY <1>1, <2>2, <2>3 DEF Before, Operation, Frames, Stacked
  <2>. QED BY <1>1, <1>4, <1>8, <2>3, <2>4, <2>5 DEF DeleteChildFacts, Working
<1>. QED BY <1>1, <1>2, <1>8

LEMMA DeleteChildTypes == TypeInv /\ DeleteChild => TypeInv'
<1>. SUFFICES ASSUME TypeInv, DeleteChild PROVE TypeInv'
  OBVIOUS
<1>1. Before /\ task = "idle" /\ pc = "delete"
  BY BeforeStep DEF DeleteChild
<1>2. CASE DeleteChildFacts
  <2>1. EP!TypeInv' /\ task' = "idle" /\ tail' = 0
    BY <1>1, <1>2, RestedTypes DEF DeleteChildFacts
  <2>2. TaskOf'
    BY <2>1 DEF TaskOf
  <2>3. StepOf'
    BY <1>1, <1>2 DEF Before, StepOf, DeleteChildFacts, Stacked
  <2>4. DirSlot' = DirSlot
    BY <1>2 DEF DirSlot, DeleteChildFacts
  <2>5. SlotOf'
    BY <1>1, <1>2, <2>4 DEF Before, SlotOf, DeleteChildFacts, Stacked
  <2>. QED BY <1>1, <1>2, <2>1, <2>2, <2>3, <2>5, StepTypes
          DEF Before, DiskType, DeleteChildFacts, Stacked
<1>3. CASE Stop /\ UNCHANGED <<chainMap, disk>>
  BY <1>1, <1>3, RestedTypes, StopTypes
<1>. QED BY <1>2, <1>3, DeleteChildStep

DeleteChainFacts ==
  /\ Working /\ pc = "delete" /\ task = "idle" /\ op.kind \in {"delete", "move"}
  /\ Top.slot \in DirSlot
  /\ pc' = "mark" /\ UNCHANGED <<disk, state>>
  /\ \/ At(Top.slot).first = 0 /\ UNCHANGED <<chainMap, op>>
     \/ /\ At(Top.slot).first \in Cluster /\ EP!BeginFree(At(Top.slot).first)
        /\ Stacked(op.stack, TRUE)

LEMMA DeleteChainStep == TypeInv /\ DeleteChain => DeleteChainFacts
<1>. SUFFICES ASSUME TypeInv, DeleteChain PROVE DeleteChainFacts
  OBVIOUS
<1>1. Before /\ pc = "delete" /\ task = "idle" /\ UNCHANGED <<disk, state>> /\ pc' = "mark"
  BY BeforeStep DEF DeleteChain
<1>2. Top.slot \in DirSlot
  BY <1>1, TopFacts
<1>3. At(Top.slot).first \in Cluster \cup {0}
  BY <1>1, <1>2, AtFacts DEF AtTyped, Before
<1>4. op.kind \in {"delete", "move"}
  BY <1>1 DEF Before, StepOf
<1>5. op' = [op EXCEPT !.freed = TRUE] => Stacked(op.stack, TRUE)
  BY <1>1 DEF Before, Operation, Stacked
<1>. QED BY <1>1, <1>2, <1>3, <1>4, <1>5, EditorSteps DEF DeleteChain, DeleteChainFacts, Working

LEMMA DeleteChainTypes == TypeInv /\ DeleteChain => TypeInv'
<1>. SUFFICES ASSUME TypeInv, DeleteChain PROVE TypeInv'
  OBVIOUS
<1>1. DeleteChainFacts /\ Before /\ DirSlot' = DirSlot
  BY DeleteChainStep DEF DeleteChainFacts, Working, DirSlot
<1>2. CASE UNCHANGED <<chainMap, op>>
  <2>1. EP!TypeInv' /\ task' = "idle" /\ tail' = 0
    BY <1>1, <1>2, RestedTypes DEF DeleteChainFacts
  <2>2. TaskOf' /\ StepOf' /\ SlotOf'
    BY <1>1, <1>2, <2>1 DEF Before, TaskOf, StepOf, SlotOf, DeleteChainFacts
  <2>. QED BY <1>1, <1>2, <2>1, <2>2, StepTypes DEF Before, DiskType, DeleteChainFacts
<1>3. CASE /\ At(Top.slot).first \in Cluster /\ EP!BeginFree(At(Top.slot).first)
           /\ Stacked(op.stack, TRUE)
  <2>1. EP!TypeInv'
    BY <1>1, <1>3, EditorTypes DEF Before
  <2>2. TaskOf'
    BY <1>1, <1>3 DEF Before, EditorTyped, EP!BeginFree, TaskOf, DeleteChainFacts, Stacked
  <2>3. StepOf' /\ SlotOf'
    BY <1>1, <1>3 DEF Before, StepOf, SlotOf, DeleteChainFacts, Stacked
  <2>. QED BY <1>1, <1>3, <2>1, <2>2, <2>3, StepTypes
          DEF Before, DiskType, DeleteChainFacts, Stacked
<1>. QED BY <1>1, <1>2, <1>3 DEF DeleteChainFacts

(* What the editor's steps do to the service.                              *)
Alone == Working /\ UNCHANGED <<disk, pc, op, state>>

LEMMA EditorCases ==
  ASSUME TypeInv, EditorStep
  PROVE  /\ Working /\ UNCHANGED disk
         /\ \/ Alone /\ EP!AllocateLink
            \/ Alone /\ EP!AllocateEnd
            \/ Alone /\ EP!WalkNext
            \/ Alone /\ EP!WalkEnd /\ EP!FreeClusters # {}
            \/ Alone /\ EP!FreeStep
            \/ /\ EP!AppendLink /\ pc' = "zero" /\ UNCHANGED state
               /\ got[1] \in Cluster /\ Chosen(FirstSlot(got[1]))
            \/ EP!WalkEnd /\ EP!FreeClusters = {} /\ Stop
<1>1. Before /\ UNCHANGED disk
  BY BeforeStep DEF EditorStep
<1>2. task # "idle"
  BY DEF EditorStep, Editor!AllocateLink, Editor!AllocateEnd, Editor!WalkNext, Editor!WalkEnd,
         Editor!AppendLink, Editor!FreeStep
<1>3. Working
  BY <1>1, <1>2 DEF Working, Before
<1>4. Editor!FreeClusters = EP!FreeClusters
  BY Zenon DEF Editor!FreeClusters, EP!FreeClusters, Editor!FREE, EP!FREE, Editor!Cluster,
     EP!Cluster
<1>5. task = "link" => got[1] \in Cluster
  <2>1. got \in Seq(Cluster) /\ (task = "link" => Len(got) = 1)
    BY <1>1 DEF Before, EditorTyped
  <2>2. Len(got) = 1 => got[1] \in Cluster
    BY <2>1
  <2>. QED BY <2>1, <2>2, Zenon
<1>6. ASSUME EP!AppendLink, op' = [op EXCEPT !.slot = FirstSlot(got[1])]
      PROVE  got[1] \in Cluster /\ Chosen(FirstSlot(got[1]))
  <2>1. got[1] \in Cluster
    BY <1>5, <1>6 DEF EP!AppendLink
  <2>2. FirstSlot(got[1]) \in Slot
    BY <2>1, SlotFacts
  <2>. QED BY <1>1, <1>6, <2>1, <2>2 DEF Before, Operation, Chosen
<1>. QED BY <1>1, <1>3, <1>4, <1>6, EditorSteps DEF EditorStep, Alone

LEMMA EditorStepTypes == TypeInv /\ EditorStep => TypeInv'
<1>. SUFFICES ASSUME TypeInv, EditorStep PROVE TypeInv'
  OBVIOUS
<1>1. Before /\ pc # "idle" /\ UNCHANGED disk /\ DirSlot' = DirSlot
  BY EditorCases DEF Working, DirSlot
<1>2. disk' \in [Cluster -> Payload \cup DirArray]
  BY <1>1 DEF Before, DiskType
<1>3. EP!TypeInv'
  <2>1. EP!EditorStep
    BY EditorCases DEF EP!EditorStep
  <2>. QED BY <1>1, <2>1, EditorTypes DEF Before
<1>4. ASSUME Alone, TaskOf' PROVE TypeInv'
  <2>1. StepOf' /\ SlotOf'
    BY <1>1, <1>4 DEF Before, StepOf, SlotOf, Alone
  <2>2. pc \in {"alloc", "data", "slot", "zero", "record", "unlink", "delete", "mark", "rename"}
    BY <1>1 DEF TypeInv, TypeOK
  <2>. QED BY <1>1, <1>2, <1>3, <1>4, <2>1, <2>2, StepTypes DEF Before, Alone
<1>5. CASE Alone /\ EP!AllocateLink
  <2>1. TaskOf'
    BY <1>1, <1>5 DEF Before, TaskOf, Alone, EP!AllocateLink
  <2>. QED BY <1>4, <1>5, <2>1
<1>6. CASE Alone /\ EP!AllocateEnd
  <2>1. TaskOf'
    BY <1>1, <1>6 DEF Before, TaskOf, Alone, EP!AllocateEnd, EP!Rest
  <2>. QED BY <1>4, <1>6, <2>1
<1>7. CASE Alone /\ EP!WalkNext
  <2>1. TaskOf'
    BY <1>1, <1>7 DEF Before, TaskOf, Alone, EP!WalkNext
  <2>. QED BY <1>4, <1>7, <2>1
<1>8. CASE Alone /\ EP!WalkEnd /\ EP!FreeClusters # {}
  <2>1. cur # 0
    BY <1>1, <1>8 DEF Before, EditorTyped, EP!WalkEnd
  <2>2. TaskOf'
    BY <1>1, <1>8, <2>1 DEF Before, TaskOf, Alone, EP!WalkEnd
  <2>. QED BY <1>4, <1>8, <2>2
<1>9. CASE Alone /\ EP!FreeStep
  <2>1. TaskOf'
    BY <1>1, <1>9 DEF Before, TaskOf, Alone, EP!FreeStep, EP!Rest
  <2>. QED BY <1>4, <1>9, <2>1
<1>10. CASE /\ EP!AppendLink /\ pc' = "zero" /\ UNCHANGED state
            /\ got[1] \in Cluster /\ Chosen(FirstSlot(got[1]))
  <2>1. TaskOf'
    BY <1>1, <1>10 DEF TaskOf, EP!AppendLink, EP!Rest
  <2>2. pc = "slot"
    BY <1>1, <1>10 DEF Before, TaskOf, EP!AppendLink
  <2>3. StepOf'
    BY <1>1, <1>10, <2>2 DEF Before, StepOf, Chosen
  <2>4. SlotOf'
    BY <1>1, <1>10, SlotFacts DEF Before, SlotOf, Chosen
  <2>. QED BY <1>1, <1>2, <1>3, <1>10, <2>1, <2>3, <2>4, StepTypes DEF Before, Chosen
<1>11. CASE EP!WalkEnd /\ EP!FreeClusters = {} /\ Stop
  <2>1. task' = "idle"
    BY <1>11 DEF EP!WalkEnd, EP!Rest
  <2>. QED BY <1>1, <1>3, <1>11, <2>1, StopTypes
<1>. QED BY <1>5, <1>6, <1>7, <1>8, <1>9, <1>10, <1>11, EditorCases

LEMMA InterruptTypes == TypeInv /\ Interrupt => TypeInv'
<1>. SUFFICES ASSUME TypeInv, Interrupt PROVE TypeInv'
  OBVIOUS
<1>1. Before
  BY BeforeStep
<1>2. CASE task = "idle"
  BY <1>1, <1>2, RestedTypes, StopTypes DEF Interrupt
<1>3. CASE task # "idle"
  <2>1. EP!Interrupt
    BY <1>3, EditorSteps DEF Interrupt
  <2>2. EP!TypeInv' /\ task' = "idle"
    BY <1>1, <2>1, EditorTypes DEF Before, EP!Interrupt, EP!Rest
  <2>. QED BY <2>2, StopTypes DEF Interrupt
<1>. QED BY <1>2, <1>3

LEMMA StutterTypes == TypeInv /\ UNCHANGED vars => TypeInv'
<1>. SUFFICES ASSUME TypeInv, UNCHANGED vars PROVE TypeInv'
  OBVIOUS
<1>1. EP!TypeInv' /\ DirSlot' = DirSlot
  BY TypeFacts, EditorTypes DEF vars, service, chainMap, DirSlot
<1>. QED
  BY <1>1 DEF vars, service, chainMap, TypeInv, TypeOK, Editor!TypeOK, TaskOf, StepOf, SlotOf

LEMMA TypeInvNext == IInv /\ [Next]_vars => TypeInv'
<1>. SUFFICES ASSUME IInv, [Next]_vars PROVE TypeInv'
  OBVIOUS
<1>1. TypeInv
  BY DEF IInv
<1>2. ASSUME NEW p \in Path \ {<< >>}, NEW size \in 0 .. MaxChain, NEW content \in Payload,
             PutFile(p, size, content)
      PROVE  TypeInv'
  BY <1>1, <1>2, PutFileStep, PutFileTypes
<1>3. ASSUME NEW p \in Path \ {<< >>}, CreateDirectory(p) PROVE TypeInv'
  BY <1>1, <1>3, CreateDirectoryStep, CreateDirectoryTypes
<1>4. ASSUME NEW p \in Path \ {<< >>}, NEW recursive \in BOOLEAN, Delete(p, recursive)
      PROVE  TypeInv'
  BY <1>1, <1>4, DeleteStep, DeleteTypes
<1>5. ASSUME NEW p \in Path \ {<< >>}, NEW q \in Path \ {<< >>}, NEW overwrite \in BOOLEAN,
             Move(p, q, overwrite)
      PROVE  TypeInv'
  BY <1>1, <1>5, MoveStep, MoveTypes
<1>6. CASE ServiceStep
  BY <1>1, <1>6, AllocateTypes, WriteDataTypes, WritableRecordTypes, ClearAppendedTypes,
     WriteRecordTypes, DeleteChildTypes, DeleteChainTypes, MarkDeletedTypes, RenameTypes,
     UnlinkTypes DEF ServiceStep
<1>. QED
  BY <1>1, <1>2, <1>3, <1>4, <1>5, <1>6, EditorStepTypes, InterruptTypes, StutterTypes DEF Next

-----------------------------------------------------------------------------
(* The undamaged volume.  What a step leaves alone:                        *)

LEMMA StillFacts ==
  ASSUME UNCHANGED <<fat, disk>>
  PROVE  /\ DirSlot' = DirSlot /\ Records' = Records
         /\ \A s : At(s)' = At(s)
         /\ \A c : Chain(c)' = Chain(c)
         /\ \A d : Slots(d)' = Slots(d)
BY DEF DirSlot, Records, At, Chain, Slots, SlotsIn

(* Records that lose their chain, and no others, leave the rest as it was. *)
LEMMA FewerChains ==
  ASSUME ChainsHeld, Held' \subseteq Held, \A s \in Held' : At(s)' = At(s),
         RootCluster \in heads',
         \A s \in Held' : At(s).first \in heads => At(s).first \in heads'
  PROVE  ChainsHeld'
BY DEF ChainsHeld

LEMMA FewerNames ==
  ASSUME NamesApart, Held' \subseteq Held, \A s \in Held' : At(s)' = At(s),
         Dirs' \subseteq Dirs,
         \A d \in Dirs' : Held' \cap Cleared(d)' \subseteq Cleared(d)
  PROVE  NamesApart'
BY DEF NamesApart

LEMMA FewerDirs ==
  ASSUME Held' \subseteq Held, \A s \in Held' : At(s)' = At(s),
         Changes' => op'.parent \in Dirs
  PROVE  Dirs' \subseteq Dirs
BY DEF Dirs

(* Every directory the records or an operation know of is in use.          *)
LEMMA DirsHeld ==
  ASSUME ChainsHeld, ParentHeld
  PROVE  \A d \in Dirs : DirHead(d)
<1>1. DirHead(RootCluster)
  BY ClusterFacts DEF ChainsHeld, DirHead
<1>2. ASSUME NEW s \in Held, At(s).dir PROVE DirHead(At(s).first)
  BY <1>2 DEF ChainsHeld, DirHead
<1>3. Changes => DirHead(op.parent)
  BY DEF ParentHeld
<1>. QED BY <1>1, <1>2, <1>3 DEF Dirs

(* The operation is over.                                                  *)
LEMMA IdleSem ==
  ASSUME ~torn', EP!Sound', ChainsHeld', NamesApart',
         pc' = "idle", op' = NoOp, task' = "idle", tail' = 0
  PROVE  Sem'
<1>1. op'.kind = "none" /\ op'.slot = NoSlot /\ ~op'.freed /\ ~Changes'
  BY NoOpFacts DEF Changes
<1>2. NewClusters' /\ ParentHeld' /\ Replaced' /\ Freeing' /\ Moving'
  BY <1>1 DEF NewClusters, ParentHeld, Replaced, Freeing, Moving
<1>. QED BY <1>1, <1>2 DEF Sem

(* The editor keeps its promise as long as it is called as it expects.     *)
Expected == EP!Next \/ UNCHANGED chainMap

LEMMA ExpectedSound ==
  ASSUME EP!TypeInv, ~torn, EP!Sound, Expected, ~torn'
  PROVE  EP!Sound'
<1>1. [EP!Next]_EP!vars
  BY DEF Expected, chainMap, EP!vars, EP!editor
<1>2. EP!IInv'
  BY <1>1, EP!IInvNext, VolumeAssumption
     DEF EP!ClusterAssumption, EP!RootAssumption, EP!EndAssumption, EP!BadAssumption,
         EP!ChainAssumption, EP!IInv
<1>. QED BY <1>2 DEF EP!IInv

-----------------------------------------------------------------------------
(* Paths of an undamaged volume, between operations.                       *)

LEMMA ReadyFacts ==
  ASSUME TypeInv, Sem, pc = "idle"
  PROVE  /\ Loose = {} /\ Held = Records /\ tail = 0 /\ visited = {} /\ task = "idle"
         /\ ~Changes
         /\ \A d : Cleared(d) = Slots(d)
         /\ \A p \in Seq(Name) : Directory(p) # 0 => Directory(p) \in Dirs
                                                     /\ DirHead(Directory(p))
<1>1. Before /\ task = "idle" /\ op = NoOp /\ tail = 0 /\ visited = {}
  BY BeforeStep DEF Before, EditorTyped
<1>2. Loose = {} /\ ~Changes
  BY <1>1, NoOpFacts DEF Loose, Changes
<1>3. Held = Records /\ \A d : Cleared(d) = Slots(d)
  BY <1>2 DEF Held, Cleared
<1>4. ASSUME NEW p \in Seq(Name), Directory(p) # 0 PROVE Directory(p) \in Dirs
  <2>1. CASE p = << >>
    BY <1>1, <2>1, DirectorySteps DEF DirectoryFacts, Before, Dirs
  <2>2. CASE p # << >>
    <3>1. Directory(p) = Child(Directory(Parent(p)), Last(p)) /\ Last(p) \in Name
      BY <1>1, <2>2, DirectorySteps, ParentFacts DEF DirectoryFacts, Before
    <3>2. \E s \in Records : At(s).dir /\ At(s).first = Directory(p)
      BY <1>1, <1>4, <3>1, ChildFacts DEF Before
    <3>. QED BY <1>3, <3>2 DEF Dirs
  <2>. QED BY <2>1, <2>2
<1>. QED BY <1>1, <1>2, <1>3, <1>4, DirsHeld DEF Sem

(* Slots of two directories are the same only in the same directory.       *)
LEMMA SlotsApart ==
  ASSUME ChainsApart, DiskType, NEW a \in heads, NEW b \in heads,
         NEW s \in Slots(a), s[1] \in Chain(b)
  PROVE  a = b
<1>1. s[1] \in Chain(a)
  BY AtFacts DEF Slots, AtTyped
<1>. QED BY <1>1 DEF ChainsApart

(* A directory has one path.                                               *)
OnePath == \A p, q \in Seq(Name) : Directory(p) = Directory(q) /\ Directory(p) # 0 => p = q

LEMMA PathFacts ==
  ASSUME TypeInv, Sem, pc = "idle", NEW p \in Seq(Name), p # << >>, Directory(p) # 0
  PROVE  /\ \E s \in Held : /\ s \in Slots(Directory(Parent(p))) /\ At(s).name = Last(p)
                            /\ At(s).dir /\ At(s).first = Directory(p)
         /\ Directory(p) # RootCluster
         /\ Directory(Parent(p)) # 0
<1>1. DiskType /\ Before /\ Held = Records
  BY TypeFacts, BeforeStep, ReadyFacts
<1>2. Directory(p) = Child(Directory(Parent(p)), Last(p)) /\ Last(p) \in Name
  BY <1>1, DirectorySteps, ParentFacts DEF DirectoryFacts
<1>3. PICK s \in Records : /\ s \in Slots(Directory(Parent(p))) /\ At(s).name = Last(p)
                           /\ At(s).dir /\ At(s).first = Directory(p)
  BY <1>1, <1>2, ChildFacts
<1>4. Directory(p) # RootCluster
  BY <1>1, <1>3 DEF Sem, ChainsHeld
<1>5. Directory(Parent(p)) # 0
  <2>1. Chain(0) = {}
    BY <1>1, ChainFacts DEF ChainsRead, DiskType
  <2>. QED BY <1>3, <2>1 DEF Slots, SlotsIn
<1>. QED BY <1>1, <1>3, <1>4, <1>5

LEMMA PathsApart == TypeInv /\ Sem /\ pc = "idle" => OnePath
<1>. SUFFICES ASSUME TypeInv, Sem, pc = "idle" PROVE OnePath
  OBVIOUS
<1>. DEFINE Bad(p, q) == p # q /\ Directory(p) = Directory(q) /\ Directory(p) # 0
            L == {n \in Nat : \E p, q \in Seq(Name) : Len(p) = n /\ Bad(p, q)}
<1>. SUFFICES ASSUME L # {} PROVE FALSE
  BY DEF OnePath
<1>1. PICK n \in L : \A m \in L : n <= m
  <2>. HIDE DEF L
  <2>1. L \subseteq Nat
    BY DEF L
  <2>. QED BY <2>1, Least
<1>2. PICK p \in Seq(Name), q \in Seq(Name) : Len(p) = n /\ Bad(p, q)
  OBVIOUS
<1>3. DiskType /\ Before /\ ChainsApart /\ Directory(<< >>) = RootCluster
  BY TypeFacts, BeforeStep, SoundFacts, DirectorySteps DEF Sem, DirectoryFacts
<1>4. p # << >> /\ q # << >>
  BY <1>2, <1>3, PathFacts
<1>5. PICK s \in Held : /\ s \in Slots(Directory(Parent(p))) /\ At(s).name = Last(p)
                        /\ At(s).first = Directory(p)
  BY <1>2, <1>4, PathFacts
<1>6. PICK t \in Held : /\ t \in Slots(Directory(Parent(q))) /\ At(t).name = Last(q)
                        /\ At(t).first = Directory(q)
  BY <1>2, <1>4, PathFacts
<1>7. s = t
  BY <1>2, <1>5, <1>6 DEF Sem, ChainsHeld
<1>8. /\ Parent(p) \in Seq(Name) /\ Parent(q) \in Seq(Name)
      /\ Len(Parent(p)) = n - 1 /\ n \in Nat \ {0}
      /\ Len(q) \in Nat \ {0} /\ Len(Parent(q)) = Len(q) - 1
      /\ \A i \in 1 .. n - 1 : Parent(p)[i] = p[i]
      /\ \A i \in 1 .. Len(q) - 1 : Parent(q)[i] = q[i]
      /\ Last(p) = p[n] /\ Last(q) = q[Len(q)]
  BY <1>2, <1>4, ParentFacts
<1>9. Directory(Parent(p)) # 0 /\ Directory(Parent(q)) # 0
  BY <1>2, <1>4, PathFacts
<1>10. Directory(Parent(p)) = Directory(Parent(q))
  <2>1. Directory(Parent(p)) \in heads /\ Directory(Parent(q)) \in heads
    BY <1>8, <1>9, ReadyFacts DEF DirHead
  <2>2. s[1] \in Chain(Directory(Parent(q)))
    BY <1>3, <1>6, <1>7, AtFacts DEF Slots, AtTyped
  <2>. QED BY <1>3, <1>5, <2>1, <2>2, SlotsApart
<1>11. CASE Parent(p) = Parent(q)
  <2>1. Len(q) = n
    BY <1>8, <1>11
  <2>2. \A i \in 1 .. n : p[i] = q[i]
    BY <1>5, <1>6, <1>7, <1>8, <1>11, <2>1
  <2>3. p = q
    BY <1>2, <2>1, <2>2
  <2>. QED BY <1>2, <2>3
<1>12. CASE Parent(p) # Parent(q)
  <2>1. n - 1 \in L
    BY <1>8, <1>9, <1>10, <1>12
  <2>. QED BY <1>1, <1>8, <2>1
<1>. QED BY <1>11, <1>12

-----------------------------------------------------------------------------
(* The undamaged volume: how operations begin.                             *)

(* Nothing on the volume changes; the editor may have been asked to give   *)
(* back the chain of a file.                                               *)
BeginFacts ==
  /\ Records' = Records /\ Held' = Records /\ Held = Records
  /\ \A s : At(s)' = At(s)
  /\ \A c : Chain(c)' = Chain(c)
  /\ \A d : Slots(d)' = Slots(d) /\ Cleared(d)' = Slots(d) /\ Cleared(d) = Slots(d)
  /\ ChainsApart /\ ~Changes
  /\ Changes' => DirHead(op.parent)' /\ op'.parent \in heads
  /\ ~torn' /\ ChainsHeld' /\ NamesApart'
  /\ tail' = 0 /\ visited' = {}

LEMMA BeginKeeps ==
  ASSUME TypeInv, Sem, pc = "idle", UNCHANGED <<fat, heads, disk, torn, tail, visited>>,
         pc' \notin {"unlink", "zero"}, op'.freed => task' = "free",
         NEW p \in Seq(Name), Directory(p) # 0, Changes' => op'.parent = Directory(p)
  PROVE  BeginFacts
<1>1. /\ Records' = Records
      /\ \A s : At(s)' = At(s)
      /\ \A c : Chain(c)' = Chain(c)
      /\ \A d : Slots(d)' = Slots(d)
  BY StillFacts
<1>2. Held = Records /\ tail = 0 /\ visited = {} /\ ~Changes /\ \A d : Cleared(d) = Slots(d)
  BY ReadyFacts
<1>3. Held' = Records
  BY <1>1, <1>2 DEF Held, Loose
<1>4. \A d : Cleared(d)' = Slots(d)
  BY <1>1 DEF Cleared
<1>5. Directory(p) \in Dirs /\ DirHead(Directory(p))
  BY ReadyFacts
<1>6. ChainsHeld'
  BY <1>1, <1>2, <1>3, FewerChains DEF Sem, ChainsHeld
<1>7. NamesApart'
  <2>1. Dirs' \subseteq Dirs
    BY <1>1, <1>2, <1>3, <1>5, FewerDirs
  <2>. QED BY <1>1, <1>2, <1>3, <1>4, <2>1, FewerNames DEF Sem
<1>8. Changes' => DirHead(op.parent)' /\ op'.parent \in heads
  BY <1>1, <1>2, <1>3, <1>5 DEF DirHead
<1>. QED BY <1>1, <1>2, <1>3, <1>4, <1>6, <1>7, <1>8, BeforeStep, SoundFacts DEF Sem, BeginFacts

LEMMA PutFileSem ==
  ASSUME Sem, NEW p, NEW size, NEW content \in Payload, PutFileFacts(p, size, content)
  PROVE  Expected /\ Sem'
<1>1. /\ TypeInv /\ Before /\ DiskType /\ task = "idle" /\ pc = "idle" /\ op = NoOp
      /\ p \in Seq(Name) /\ p # << >> /\ Parent(p) \in Seq(Name)
  BY ParentFacts DEF PutFileFacts, Begun, Ready, Before
<1>2. Directory(Parent(p)) # 0
  BY ClusterFacts DEF PutFileFacts
<1>3. op'.slot # NoSlot =>
        /\ op'.slot \in Lookup(p) /\ op'.slot \in Records /\ op'.slot \in Slots(op'.parent)
        /\ At(op'.slot).name = op'.record.name /\ ~At(op'.slot).dir
        /\ IF At(op'.slot).first = 0
           THEN ~op'.freed /\ UNCHANGED chainMap
           ELSE op'.freed /\ EP!BeginFree(At(op'.slot).first)
  BY <1>1, LookupFacts DEF PutFileFacts
<1>4. op'.slot = NoSlot => Lookup(p) = {} /\ ~op'.freed /\ UNCHANGED chainMap
  <2>1. NoSlot \notin Lookup(p)
    BY <1>1, LookupFacts, SlotFacts DEF Records, DirSlot
  <2>. QED BY <2>1 DEF PutFileFacts
<1>5. /\ UNCHANGED <<fat, heads, disk, torn, tail, visited, written>>
      /\ task' = IF op'.freed THEN "free" ELSE "idle"
      /\ op'.freed => cur' = At(op'.slot).first
  BY <1>1, <1>3, <1>4 DEF chainMap, EP!BeginFree, PutFileFacts, Begun
<1>6. BeginFacts
  BY <1>1, <1>2, <1>5, BeginKeeps DEF PutFileFacts
<1>7. Expected
  <2>1. CASE ~op'.freed
    BY <1>3, <1>4, <2>1 DEF Expected
  <2>2. CASE op'.freed
    <3>1. op'.slot \in Held /\ At(op'.slot).first # 0 /\ EP!BeginFree(At(op'.slot).first)
      BY <1>3, <1>4, <1>6, <2>2 DEF BeginFacts
    <3>2. At(op'.slot).first \in heads \ {RootCluster}
      BY <3>1 DEF Sem, ChainsHeld
    <3>. QED BY <3>1, <3>2 DEF Expected, EP!Next, EP!FreeChain
  <2>. QED BY <2>1, <2>2
<1>8. ~torn' /\ EP!Sound' /\ ChainsHeld' /\ NamesApart'
  BY <1>6, <1>7, <1>1, ExpectedSound DEF BeginFacts, Before, Sem
<1>9. op'.kind = "put" /\ Changes' /\ pc' = "alloc" /\ op'.clusters = << >> /\ op'.done = 0
      /\ op'.record.first = 0 /\ op'.parent = Directory(Parent(p)) /\ op'.record.name = Last(p)
  BY DEF PutFileFacts, Begun, Changes
<1>10. NewClusters'
  BY <1>5, <1>9 DEF NewClusters
<1>11. ParentHeld'
  <2>1. ASSUME NEW s \in Records, s \in Slots(op'.parent), At(s).name = op'.record.name
        PROVE  s = op'.slot
    <3>1. s \in Lookup(p)
      BY <1>1, <1>9, <2>1, LookupFacts
    <3>2. op'.slot \in Records /\ op'.slot \in Slots(op'.parent) /\ At(op'.slot).name = At(s).name
      BY <1>3, <1>4, <2>1, <3>1
    <3>3. op'.parent \in Dirs
      BY <1>1, <1>2, <1>9, ReadyFacts
    <3>. QED BY <1>6, <2>1, <3>2, <3>3 DEF Sem, NamesApart, BeginFacts
  <2>. QED BY <1>3, <1>5, <1>6, <1>9, <2>1 DEF ParentHeld, BeginFacts
<1>12. Replaced'
  BY <1>3, <1>4, <1>6, <1>9 DEF Replaced, BeginFacts
<1>13. Freeing'
  BY <1>3, <1>4, <1>5, <1>6, <1>9 DEF Freeing, BeginFacts
<1>14. Moving'
  BY <1>9 DEF Moving
<1>. QED BY <1>7, <1>8, <1>10, <1>11, <1>12, <1>13, <1>14 DEF Sem

LEMMA CreateDirectorySem ==
  ASSUME Sem, NEW p, CreateDirectoryFacts(p)
  PROVE  Expected /\ Sem'
<1>1. /\ TypeInv /\ Before /\ DiskType /\ task = "idle" /\ pc = "idle" /\ op = NoOp
      /\ p \in Seq(Name) /\ p # << >> /\ Parent(p) \in Seq(Name)
  BY ParentFacts DEF CreateDirectoryFacts, Begun, Ready, Before
<1>2. /\ op'.kind = "mkdir" /\ Changes' /\ pc' = "alloc" /\ op'.clusters = << >> /\ op'.done = 0
      /\ op'.record.first = 0 /\ op'.parent = Directory(Parent(p)) /\ op'.record.name = Last(p)
      /\ op'.slot = NoSlot /\ ~op'.freed /\ UNCHANGED <<chainMap, disk>> /\ Lookup(p) = {}
      /\ Directory(Parent(p)) # 0
  BY ClusterFacts DEF CreateDirectoryFacts, Begun, Changes
<1>3. UNCHANGED <<fat, heads, disk, torn, tail, visited, written, task>> /\ task' = "idle"
  BY <1>1, <1>2 DEF chainMap
<1>4. BeginFacts
  BY <1>1, <1>2, <1>3, BeginKeeps
<1>5. Expected
  BY <1>2 DEF Expected
<1>6. ~torn' /\ EP!Sound' /\ ChainsHeld' /\ NamesApart'
  BY <1>4, <1>5, <1>1, ExpectedSound DEF BeginFacts, Before, Sem
<1>7. NewClusters'
  BY <1>2, <1>3 DEF NewClusters
<1>8. ParentHeld'
  <2>1. ASSUME NEW s \in Records, s \in Slots(op'.parent), At(s).name = op'.record.name
        PROVE  FALSE
    BY <1>1, <1>2, <2>1, LookupFacts
  <2>. QED BY <1>2, <1>3, <1>4, <2>1 DEF ParentHeld, BeginFacts
<1>9. Replaced' /\ Freeing' /\ Moving'
  BY <1>2, <1>3 DEF Replaced, Freeing, Moving
<1>. QED BY <1>5, <1>6, <1>7, <1>8, <1>9 DEF Sem

LEMMA DeleteSem ==
  ASSUME Sem, NEW p, p \in Seq(Name), Directory(p) # 0, NEW q, DeleteFacts(q)
  PROVE  Expected /\ Sem'
<1>1. /\ TypeInv /\ Before /\ task = "idle" /\ pc = "idle" /\ op = NoOp
  BY DEF DeleteFacts, Begun, Ready, Before
<1>2. /\ op'.kind = "delete" /\ ~Changes' /\ pc' = "delete" /\ op'.slot = NoSlot
      /\ ~op'.freed /\ UNCHANGED <<chainMap, disk>>
  BY DEF DeleteFacts, Begun, Changes
<1>3. UNCHANGED <<fat, heads, disk, torn, tail, visited, written, task>> /\ task' = "idle"
  BY <1>1, <1>2 DEF chainMap
<1>4. BeginFacts
  BY <1>1, <1>2, <1>3, BeginKeeps
<1>5. Expected
  BY <1>2 DEF Expected
<1>6. ~torn' /\ EP!Sound' /\ ChainsHeld' /\ NamesApart'
  BY <1>4, <1>5, <1>1, ExpectedSound DEF BeginFacts, Before, Sem
<1>7. NewClusters' /\ ParentHeld'
  BY <1>2, <1>3, <1>4 DEF NewClusters, ParentHeld, BeginFacts
<1>8. Replaced' /\ Freeing' /\ Moving'
  BY <1>2, <1>3 DEF Replaced, Freeing, Moving
<1>. QED BY <1>5, <1>6, <1>7, <1>8 DEF Sem

(* Paths, name by name.                                                    *)
LEMMA SamePath ==
  ASSUME NEW S, NEW p \in Seq(S), NEW q \in Seq(S), p # << >>, q # << >>,
         Parent(p) = Parent(q), Last(p) = Last(q)
  PROVE  p = q
<1>1. /\ Len(p) \in Nat \ {0} /\ Len(Parent(p)) = Len(p) - 1
      /\ Len(q) \in Nat \ {0} /\ Len(Parent(q)) = Len(q) - 1
      /\ \A i \in 1 .. Len(p) - 1 : Parent(p)[i] = p[i]
      /\ \A i \in 1 .. Len(q) - 1 : Parent(q)[i] = q[i]
      /\ Last(p) = p[Len(p)] /\ Last(q) = q[Len(q)]
  BY ParentFacts
<1>2. Len(p) = Len(q)
  BY <1>1
<1>3. ASSUME NEW i \in 1 .. Len(p) PROVE p[i] = q[i]
  <2>1. i = Len(p) \/ i \in 1 .. Len(p) - 1
    BY <1>1
  <2>2. CASE i = Len(p)
    BY <1>1, <1>2, <2>2
  <2>3. CASE i \in 1 .. Len(p) - 1
    <3>1. Parent(p)[i] = p[i] /\ Parent(q)[i] = q[i]
      BY <1>1, <1>2, <2>3
    <3>. QED BY <3>1
  <2>. QED BY <2>1, <2>2, <2>3
<1>. QED BY <1>2, <1>3

LEMMA ParentPrefix ==
  ASSUME NEW S, NEW q \in Seq(S), q # << >>
  PROVE  IsPrefix(Parent(q), q)
<1>1. Len(Parent(q)) = Len(q) - 1 /\ Len(q) \in Nat \ {0}
  BY ParentFacts
<1>2. Parent(q) = SubSeq(q, 1, Len(q) - 1)
  BY DEF Parent
<1>3. Len(Parent(q)) <= Len(q)
  BY <1>1
<1>. QED BY <1>1, <1>2, <1>3 DEF IsPrefix

LEMMA MoveSem ==
  ASSUME Sem, NEW p, NEW q, MoveFacts(p, q), state' # "hurt"
  PROVE  Expected /\ Sem'
<1>1. /\ TypeInv /\ Before /\ DiskType /\ task = "idle" /\ pc = "idle" /\ op = NoOp
      /\ p \in Seq(Name) /\ p # << >> /\ Parent(p) \in Seq(Name)
      /\ q \in Seq(Name) /\ q # << >> /\ Parent(q) \in Seq(Name)
  BY ParentFacts DEF MoveFacts, Begun, Ready, Before
<1>2. /\ op'.kind = "move" /\ Changes' /\ op'.clusters = << >> /\ op'.done = 0
      /\ op'.targets = {p, q} /\ op'.parent = Directory(Parent(q)) /\ op'.slot = NoSlot
      /\ ~op'.freed /\ UNCHANGED <<chainMap, disk>>
      /\ Directory(Parent(p)) # 0 /\ Directory(Parent(q)) # 0
      /\ op'.from \in Lookup(p) /\ op'.record.name = Last(q)
      /\ op'.record.first = At(op'.from).first /\ op'.record.dir = At(op'.from).dir
      /\ p = q => At(op'.from).first = 0
      /\ At(op'.from).dir => ~IsPrefix(p, q)
  BY ClusterFacts DEF MoveFacts, Begun, Changes
<1>3. \/ Lookup(q) = {} /\ pc' = "rename" /\ op'.stack = << >>
      \/ \E d \in Lookup(q) : /\ ~At(d).dir /\ pc' = "delete"
                              /\ Len(op'.stack) = 1 /\ op'.stack[1].slot = d
  <2>1. ASSUME NEW d \in Lookup(q), op'.stack = <<Frame(q, d)>>, Frame(q, d).slot = d
        PROVE  Len(op'.stack) = 1 /\ op'.stack[1].slot = d
    <3>. DEFINE f == Frame(q, d)
    <3>1. op'.stack = <<f>> /\ f.slot = d
      BY <2>1
    <3>. HIDE DEF f
    <3>. QED BY <3>1
  <2>. QED BY <2>1 DEF MoveFacts
<1>4. UNCHANGED <<fat, heads, disk, torn, tail, visited, written, task>> /\ task' = "idle"
  BY <1>1, <1>2 DEF chainMap
<1>5. BeginFacts
  BY <1>1, <1>2, <1>3, <1>4, BeginKeeps
<1>6. Expected
  BY <1>2 DEF Expected
<1>7. ~torn' /\ EP!Sound' /\ ChainsHeld' /\ NamesApart'
  BY <1>5, <1>6, <1>1, ExpectedSound DEF BeginFacts, Before, Sem
<1>8. OnePath /\ ChainsApart
  BY <1>1, <1>5, PathsApart DEF BeginFacts
<1>9. /\ Directory(Parent(p)) \in Dirs /\ DirHead(Directory(Parent(p)))
      /\ Directory(Parent(p)) \in heads /\ Directory(Parent(q)) \in heads
      /\ Directory(Parent(q)) \in Dirs /\ DirHead(Directory(Parent(q)))
  BY <1>1, <1>2, ReadyFacts DEF DirHead
<1>10. /\ op'.from \in Held /\ op'.from \in Slots(Directory(Parent(p)))
       /\ op'.from[1] \in Chain(Directory(Parent(p))) /\ At(op'.from).name = Last(p)
  BY <1>1, <1>2, <1>5, LookupFacts, AtFacts DEF BeginFacts, Slots, AtTyped
(* A path that leads to the directory that moves is its own path.          *)
<1>11. ASSUME NEW r \in Seq(Name), Directory(r) = op'.record.first, Directory(r) # 0
       PROVE  r = p /\ r # << >> /\ At(op'.from).dir
  <2>1. r # << >>
    BY <1>1, <1>2, <1>10, <1>11, DirectorySteps, ClusterFacts
       DEF DirectoryFacts, Sem, ChainsHeld
  <2>2. PICK s \in Held : /\ s \in Slots(Directory(Parent(r))) /\ At(s).name = Last(r)
                          /\ At(s).dir /\ At(s).first = Directory(r)
    BY <1>1, <1>11, <2>1, PathFacts
  <2>3. s = op'.from
    BY <1>2, <1>10, <1>11, <2>2 DEF Sem, ChainsHeld
  <2>4. Parent(r) \in Seq(Name) /\ Directory(Parent(r)) # 0
    BY <1>1, <1>11, <2>1, PathFacts, ParentFacts
  <2>5. Directory(Parent(r)) \in heads
    BY <1>1, <2>4, ReadyFacts DEF DirHead
  <2>6. Directory(Parent(r)) = Directory(Parent(p))
    BY <1>1, <1>8, <1>9, <1>10, <2>2, <2>3, <2>5, SlotsApart
  <2>7. Parent(r) = Parent(p) /\ Last(r) = Last(p)
    BY <1>1, <1>8, <1>10, <2>2, <2>3, <2>4, <2>6 DEF OnePath
  <2>8. r = p
    BY <1>1, <2>1, <2>7, SamePath
  <2>. QED BY <2>1, <2>2, <2>3, <2>8
<1>12. Directory(Parent(p)) # op'.record.first
  <2>1. Parent(p) # p
    BY <1>1, ParentFacts
  <2>. QED BY <1>1, <1>2, <1>11, <2>1
<1>13. op'.parent # op'.record.first
  <2>1. SUFFICES ASSUME op'.parent = op'.record.first PROVE FALSE
    OBVIOUS
  <2>2. Parent(q) = p /\ At(op'.from).dir
    BY <1>1, <1>2, <1>11, <2>1
  <2>3. IsPrefix(p, q)
    BY <1>1, <2>2, ParentPrefix
  <2>. QED BY <1>2, <2>2, <2>3
<1>14. NewClusters'
  BY <1>2, <1>4 DEF NewClusters
<1>15. ASSUME NEW s \in Records, s \in Slots(op'.parent), At(s).name = op'.record.name
       PROVE  pc' = "delete" /\ s = Top.slot'
  <2>1. s \in Lookup(q)
    BY <1>1, <1>2, <1>15, LookupFacts
  <2>2. PICK d \in Lookup(q) : pc' = "delete" /\ Len(op'.stack) = 1 /\ op'.stack[1].slot = d
    BY <1>3, <2>1
  <2>3. d \in Records /\ d \in Slots(op'.parent) /\ At(d).name = At(s).name
    BY <1>1, <1>2, <1>15, <2>2, LookupFacts
  <2>4. s = d
    BY <1>2, <1>5, <1>9, <1>15, <2>3 DEF Sem, NamesApart, BeginFacts
  <2>. QED BY <2>2, <2>4 DEF Top
<1>16. ParentHeld'
  BY <1>2, <1>3, <1>4, <1>5, <1>15 DEF ParentHeld, BeginFacts
<1>17. Replaced' /\ Freeing'
  BY <1>2, <1>3, <1>4 DEF Replaced, Freeing
<1>18. SameParent' => Parent(p) = Parent(q)
  BY <1>2 DEF SameParent
<1>19. pc' \in {"delete", "mark"} =>
         /\ Top.slot' \in Records /\ Top.slot' \in Slots(op'.parent)
         /\ At(Top.slot').name = op'.record.name /\ ~At(Top.slot').dir
         /\ Top.slot' = op'.from => op'.record.first = 0 /\ ~op'.record.dir /\ SameParent'
  <2>1. SUFFICES ASSUME NEW d \in Lookup(q), ~At(d).dir, Top.slot' = d
                         PROVE  /\ Top.slot' \in Records /\ Top.slot' \in Slots(op'.parent)
                                /\ At(Top.slot').name = op'.record.name /\ ~At(Top.slot').dir
                                /\ Top.slot' = op'.from => /\ op'.record.first = 0 /\ ~op'.record.dir
                                                           /\ SameParent'
    BY <1>3 DEF Top
  <2>2. d \in Records /\ d \in Slots(op'.parent) /\ At(d).name = Last(q)
    BY <1>1, <1>2, <2>1, LookupFacts
  <2>3. ASSUME d = op'.from PROVE op'.record.first = 0 /\ ~op'.record.dir /\ SameParent'
    <3>1. Directory(Parent(p)) = Directory(Parent(q))
      BY <1>1, <1>2, <1>8, <1>9, <1>10, <2>2, <2>3, SlotsApart
    <3>2. Parent(p) = Parent(q) /\ Last(p) = Last(q)
      BY <1>1, <1>2, <1>8, <1>10, <2>2, <2>3, <3>1 DEF OnePath
    <3>3. p = q
      BY <1>1, <3>2, SamePath
    <3>. QED BY <1>2, <2>1, <2>3, <3>2, <3>3 DEF SameParent
  <2>. QED BY <1>2, <2>1, <2>2, <2>3
<1>20. Moving'
  <2>1. op'.record.dir => op'.record.first # 0
    BY <1>2, <1>10 DEF Sem, ChainsHeld
  <2>2. PICK d : d = Directory(Parent(p))
    OBVIOUS
  <2>3. d \in heads' \ {op'.record.first} /\ op'.from[1] \in Chain(d)'
    BY <1>4, <1>5, <1>9, <1>10, <1>12, <2>2 DEF BeginFacts
  <2>4. DirHead(d)'
    BY <1>4, <1>5, <1>9, <2>2 DEF DirHead, BeginFacts
  <2>5. SameParent' => op'.from \in Slots(op'.parent)
    BY <1>2, <1>10, <1>18
  <2>6. op'.from \in Records /\ pc' \in {"delete", "rename"}
    BY <1>3, <1>5, <1>10 DEF BeginFacts
  <2>. QED BY <1>2, <1>5, <1>13, <1>19, <2>1, <2>3, <2>4, <2>5, <2>6 DEF Moving, BeginFacts
<1>. QED BY <1>6, <1>7, <1>14, <1>16, <1>17, <1>20 DEF Sem

-----------------------------------------------------------------------------
(* The undamaged volume: how operations end early.                         *)

LEMMA StopSem ==
  ASSUME TypeInv, Sem, Stop, state' # "hurt", Expected, UNCHANGED <<fat, heads, disk>>,
         torn' => torn \/ (task = "alloc" /\ written > 0), task' = "idle", tail' = 0
  PROVE  Sem'
<1>1. /\ Before /\ DiskType
      /\ Records' = Records
      /\ \A s : At(s)' = At(s)
      /\ \A d : Slots(d)' = Slots(d)
  BY BeforeStep, StillFacts DEF Before
<1>2. ~Breaks /\ pc' = "idle" /\ op' = NoOp
  BY DEF Stop
<1>3. Loose = {} /\ Held = Records
  BY <1>2 DEF Held, Loose, Breaks
<1>4. Held' = Records /\ ~Changes' /\ \A d : Cleared(d)' = Slots(d)
  BY <1>1, <1>2, NoOpFacts DEF Held, Loose, Changes, Cleared
<1>5. ASSUME NEW d PROVE Cleared(d) = Slots(d)
  <2>1. \A s \in Slots(d) : s[1] \in OnDisk
    BY <1>1, AtFacts DEF Slots, AtTyped
  <2>. QED BY <1>2, <2>1 DEF Cleared, Breaks
<1>6. ~torn' /\ ~torn
  BY <1>2 DEF Breaks, Sem
<1>7. EP!Sound'
  BY <1>1, <1>6, ExpectedSound DEF Before, Sem
<1>8. ChainsHeld'
  BY <1>1, <1>3, <1>4, FewerChains DEF Sem, ChainsHeld
<1>9. NamesApart'
  <2>1. Dirs' \subseteq Dirs
    BY <1>1, <1>3, <1>4, FewerDirs
  <2>. QED BY <1>1, <1>3, <1>4, <1>5, <2>1, FewerNames DEF Sem
<1>. QED BY <1>2, <1>6, <1>7, <1>8, <1>9, IdleSem

(* The service stops by itself.                                            *)
LEMMA RefusedSem ==
  ASSUME TypeInv, Sem, Stop, state' # "hurt", task = "idle", UNCHANGED <<chainMap, disk>>
  PROVE  Expected /\ Sem'
<1>1. Before
  BY BeforeStep
<1>2. /\ Expected /\ UNCHANGED <<fat, heads, disk, torn>> /\ task' = "idle" /\ tail' = 0
      /\ task = "idle"
  BY <1>1 DEF Expected, chainMap, Before, EditorTyped
<1>3. torn' => torn \/ (task = "alloc" /\ written > 0)
  BY <1>2 DEF Sem
<1>. QED BY <1>2, <1>3, StopSem

LEMMA InterruptSem ==
  ASSUME TypeInv, Sem, Interrupt, state' # "hurt"
  PROVE  Expected /\ Sem'
<1>1. CASE task = "idle"
  BY <1>1, RefusedSem DEF Interrupt
<1>2. CASE task # "idle"
  <2>1. EP!Interrupt /\ Stop /\ UNCHANGED disk
    BY <1>2, EditorSteps DEF Interrupt
  <2>2. Expected
    BY <2>1 DEF Expected, EP!Next
  <2>3. /\ UNCHANGED <<fat, heads>> /\ task' = "idle" /\ tail' = 0
        /\ torn' => torn \/ (task = "alloc" /\ written > 0)
    BY <2>1 DEF EP!Interrupt, EP!Rest
  <2>. QED BY <2>1, <2>2, <2>3, StopSem
<1>. QED BY <1>1, <1>2

(* There is no cluster left to append to a directory.                      *)
LEMMA FullSem ==
  ASSUME TypeInv, Sem, EP!WalkEnd, EP!FreeClusters = {}, Stop, UNCHANGED disk, state' # "hurt"
  PROVE  Expected /\ Sem'
<1>1. Expected
  BY DEF Expected, EP!Next, EP!EditorStep
<1>2. /\ UNCHANGED <<fat, heads>> /\ task' = "idle" /\ tail' = 0
      /\ torn' => torn \/ (task = "alloc" /\ written > 0)
  BY DEF EP!WalkEnd, EP!Rest, Sem
<1>. QED BY <1>1, <1>2, StopSem

-----------------------------------------------------------------------------
(* The undamaged volume: a new file or directory up to its record.         *)

(* Nothing is written, and no record gets its chain back.                  *)
LEMMA StillSem ==
  ASSUME Before, Sem, UNCHANGED <<fat, heads, disk, torn>>, Loose \subseteq Loose', Expected,
         Changes' => Changes /\ op'.parent = op.parent,
         \A d : Cleared(d)' \subseteq Cleared(d)
  PROVE  /\ ~torn' /\ EP!Sound' /\ ChainsHeld' /\ NamesApart'
         /\ Held' \subseteq Held /\ Records' = Records
         /\ \A s : At(s)' = At(s)
         /\ \A c : Chain(c)' = Chain(c)
         /\ \A d : Slots(d)' = Slots(d)
<1>1. /\ Records' = Records
      /\ \A s : At(s)' = At(s)
      /\ \A c : Chain(c)' = Chain(c)
      /\ \A d : Slots(d)' = Slots(d)
  BY StillFacts
<1>2. Held' \subseteq Held
  BY <1>1 DEF Held
<1>3. ~torn' /\ EP!Sound'
  BY ExpectedSound DEF Before, Sem
<1>4. ChainsHeld'
  BY <1>1, <1>2, FewerChains DEF Sem, ChainsHeld
<1>5. Dirs' \subseteq Dirs
  BY <1>1, <1>2, FewerDirs DEF Dirs
<1>6. NamesApart'
  BY <1>1, <1>2, <1>5, FewerNames DEF Sem
<1>. QED BY <1>1, <1>2, <1>3, <1>4, <1>6

LEMMA EmptySem ==
  ASSUME Working, Sem, pc = "alloc", task = "idle", op.size = 0, pc' = "slot",
         UNCHANGED <<chainMap, disk, op, state>>
  PROVE  Expected /\ Sem'
<1>1. /\ Before /\ Expected /\ UNCHANGED <<fat, heads, disk, torn, op, task, visited, tail, written>>
      /\ op.clusters = << >> /\ op.done = 0 /\ op.kind \in {"put", "mkdir"}
      /\ op.kind = "put" /\ Len(op.clusters) = 0
  BY DEF Expected, chainMap, Working, Before, StepOf
<1>2. /\ Changes' = Changes /\ Loose' = Loose
      /\ \A d : Cleared(d)' \subseteq Cleared(d)
  <2>1. Loose' = Loose
    BY <1>1 DEF Loose, Top
  <2>2. \A d : Cleared(d)' \subseteq Cleared(d)
    BY <1>1, StillFacts DEF Cleared
  <2>. QED BY <1>1, <2>1, <2>2 DEF Changes
<1>3. /\ ~torn' /\ EP!Sound' /\ ChainsHeld' /\ NamesApart'
      /\ Held' \subseteq Held /\ Records' = Records
      /\ \A s : At(s)' = At(s)
      /\ \A c : Chain(c)' = Chain(c)
      /\ \A d : Slots(d)' = Slots(d)
  BY <1>1, <1>2, StillSem
<1>4. NewClusters'
  BY <1>1, <1>3 DEF Sem, NewClusters
<1>5. ParentHeld'
  BY <1>1, <1>2, <1>3 DEF Sem, ParentHeld, DirHead
<1>6. Replaced' /\ Freeing' /\ Moving'
  BY <1>1, <1>3 DEF Sem, Replaced, Freeing, Moving
<1>. QED BY <1>1, <1>3, <1>4, <1>5, <1>6 DEF Sem

LEMMA AllocateSem ==
  ASSUME Sem, AllocateFacts
  PROVE  Expected /\ Sem'
<1>1. /\ Before /\ UNCHANGED <<fat, heads, disk, torn, tail, visited, written>>
      /\ op.clusters = << >> /\ op.done = 0 /\ op.kind \in {"put", "mkdir"}
      /\ pc = "alloc" /\ task = "idle" /\ task' = "alloc" /\ pc' = "data"
      /\ written = 0 /\ tail = 0
      /\ op.freed => op.kind = "put"
  BY DEF AllocateFacts, Working, Before, StepOf, EditorTyped
<1>2. Expected
  BY DEF Expected, EP!Next, AllocateFacts
<1>3. /\ Changes' = Changes /\ Loose' = Loose
      /\ op'.parent = op.parent /\ op'.kind = op.kind /\ op'.slot = op.slot
      /\ op'.freed = op.freed
      /\ \A d : Cleared(d)' \subseteq Cleared(d)
  <2>1. Loose' = Loose
    BY <1>1 DEF Loose, AllocateFacts
  <2>2. \A d : Cleared(d)' \subseteq Cleared(d)
    BY <1>1, StillFacts DEF Cleared
  <2>. QED BY <1>1, <2>1, <2>2 DEF Changes, AllocateFacts
<1>4. /\ ~torn' /\ EP!Sound' /\ ChainsHeld' /\ NamesApart'
      /\ Held' \subseteq Held /\ Records' = Records
      /\ \A s : At(s)' = At(s)
      /\ \A c : Chain(c)' = Chain(c)
      /\ \A d : Slots(d)' = Slots(d)
  BY <1>1, <1>2, <1>3, StillSem
<1>5. Len(op'.clusters) = op'.size /\ op'.size \in Nat \ {0} /\ op'.clusters # << >>
      /\ \A i, j \in DOMAIN op'.clusters : op'.clusters[i] = op'.clusters[j] => i = j
      /\ op'.clusters = got' /\ op'.record.first = op'.clusters[1]
  BY DEF AllocateFacts
<1>6. op'.record.first # op'.parent
  <2>1. ChainsApart /\ op.parent \in heads
    BY <1>1, SoundFacts DEF Sem, ParentHeld, DirHead, Changes
  <2>2. fat[op.parent] # 0
    BY <2>1 DEF ChainsApart
  <2>3. fat[got'[1]] = 0
    BY DEF AllocateFacts
  <2>4. op'.record.first = got'[1] /\ op'.parent = op.parent
    BY DEF AllocateFacts
  <2>. QED BY <2>2, <2>3, <2>4
<1>7. op'.kind = "mkdir" => op'.size = 1
  BY <1>1 DEF AllocateFacts, Before, StepOf
<1>8. NewClusters'
  <2>1. op'.done = 0 /\ \A i \in 1 .. op'.done : FALSE
    BY <1>1 DEF AllocateFacts
  <2>2. \A i \in 1 .. written' : FALSE
    BY <1>1
  <2>. QED BY <1>1, <1>3, <1>5, <1>6, <1>7, <2>1, <2>2 DEF NewClusters
<1>9. ParentHeld'
  BY <1>1, <1>3, <1>4 DEF Sem, ParentHeld, DirHead, AllocateFacts
<1>10. Replaced'
  BY <1>1, <1>3, <1>4 DEF Sem, Replaced, AllocateFacts
<1>11. Freeing' /\ Moving'
  BY <1>1, <1>3 DEF Freeing, Moving
<1>. QED BY <1>2, <1>4, <1>8, <1>9, <1>10, <1>11 DEF Sem

LEMMA WriteDataSem ==
  ASSUME IInv, NEW c \in Cluster, WriteDataFacts(c)
  PROVE  Expected /\ Sem'
<1>1. /\ Before /\ Expected /\ Sem /\ DiskType
      /\ op.kind \in {"put", "mkdir"} /\ op.record.first \in heads \ {RootCluster}
      /\ \A h \in heads \ {op.record.first} : c \notin Chain(h)
      /\ op.slot # NoSlot => op.slot[1] # c
      /\ UNCHANGED <<fat, heads, torn, task, visited, tail>>
      /\ pc = "data" /\ task = "idle" /\ tail = 0 /\ tail' = 0
      /\ pc' \in {"data", "slot"} /\ op.clusters # << >>
      /\ op'.kind = op.kind /\ op'.parent = op.parent /\ op'.slot = op.slot
      /\ op'.record = op.record /\ op'.freed = op.freed /\ op'.clusters = op.clusters
      /\ op.freed => op.kind = "put"
  BY WriteDataApart
     DEF WriteDataFacts, Working, Before, EditorTyped, Expected, chainMap, StepOf
<1>2. ASSUME NEW s \in Records' PROVE s \in Records /\ At(s)' = At(s) /\ s[1] # c
  BY <1>2, WriteDataApart DEF Records
<1>3. ASSUME NEW s \in Records, s[1] # c PROVE s \in Records' /\ At(s)' = At(s)
  BY <1>3, WriteDataApart DEF Records
<1>4. Loose' = Loose /\ Held' \subseteq Held /\ \A s \in Held' : At(s)' = At(s)
  <2>1. Loose' = Loose
    BY <1>1 DEF Loose
  <2>. QED BY <1>2, <2>1 DEF Held
<1>5. \A d : Chain(d)' = Chain(d)
  BY <1>1 DEF Chain
<1>6. ASSUME NEW d \in heads \ {op.record.first}
      PROVE  Slots(d)' = Slots(d) /\ Cleared(d)' = Slots(d) /\ Cleared(d) = Slots(d)
  <2>1. Chain(d) \subseteq Cluster /\ c \notin Chain(d)
    BY <1>1, <1>6, ChainFacts DEF ChainsRead, DiskType
  <2>2. \A x \in Chain(d) : disk'[x] = disk[x]
    BY <2>1 DEF WriteDataFacts
  <2>3. Slots(d)' = Slots(d)
    BY <1>5, <2>2 DEF Slots, SlotsIn
  <2>. QED BY <1>1, <2>3 DEF Cleared
<1>7. Dirs' \subseteq Dirs
  BY <1>1, <1>4, FewerDirs DEF Dirs, Changes
<1>8. \A d \in Dirs : d \in heads \ {op.record.first}
  BY <1>1, DirsHeld DEF Sem, NewClusters, Dirs, DirHead
<1>9. ~torn' /\ EP!Sound'
  BY <1>1, ExpectedSound DEF Before, Sem
<1>10. ChainsHeld'
  BY <1>1, <1>4, FewerChains DEF Sem, ChainsHeld
<1>11. NamesApart'
  <2>1. \A d \in Dirs' : Held' \cap Cleared(d)' \subseteq Cleared(d)
    BY <1>6, <1>7, <1>8
  <2>. QED BY <1>1, <1>4, <1>7, <2>1, FewerNames DEF Sem
<1>12. NewClusters'
  <2>1. \A i \in 1 .. op'.done : disk'[op.clusters[i]] = op.content
    <3>1. ASSUME NEW i \in 1 .. op'.done, i # op'.done PROVE disk'[op.clusters[i]] = op.content
      <4>1. i \in 1 .. op.done /\ i \in DOMAIN op.clusters /\ op.clusters[i] \in Cluster
            /\ i # op.done + 1
        BY <1>1, <3>1 DEF WriteDataFacts, Before, Operation
      <4>2. op.clusters[i] # c
        BY <1>1, <4>1 DEF Sem, NewClusters, WriteDataFacts
      <4>3. disk[op.clusters[i]] = op.content
        BY <1>1, <4>1 DEF Sem, NewClusters
      <4>. QED BY <4>1, <4>2, <4>3 DEF WriteDataFacts
    <3>2. disk'[op.clusters[op'.done]] = op.content
      BY DEF WriteDataFacts
    <3>. QED BY <3>1, <3>2
  <2>2. pc' # "data" => op'.done = Len(op.clusters)
    BY DEF WriteDataFacts
  <2>. QED BY <1>1, <1>4, <2>1, <2>2 DEF Sem, NewClusters, WriteDataFacts
<1>13. op.parent \in Dirs /\ Changes /\ Changes'
  BY <1>1 DEF Changes, Dirs
<1>14. ParentHeld'
  <2>1. DirHead(op.parent)'
    BY <1>1, <1>4, <1>13 DEF Sem, ParentHeld, DirHead
  <2>2. PICK d : d = op.parent
    OBVIOUS
  <2>3. d \in heads \ {op.record.first} /\ op'.parent = d
    BY <1>1, <1>8, <1>13, <2>2
  <2>4. op.slot # NoSlot => op.slot \in Slots(d)'
    BY <1>1, <1>6, <1>13, <2>2, <2>3 DEF Sem, ParentHeld
  <2>5. ASSUME NEW s \in Records', s \in Cleared(d)', At(s)'.name = op.record.name
        PROVE  s = op.slot
    <3>1. s \in Records \cap Cleared(d) /\ At(s).name = op.record.name
      BY <1>2, <1>6, <2>3, <2>5
    <3>. QED BY <1>1, <1>13, <2>2, <3>1 DEF Sem, ParentHeld
  <2>. QED BY <1>1, <2>1, <2>3, <2>4, <2>5 DEF ParentHeld
<1>15. Replaced'
  <2>1. op.slot # NoSlot /\ op.kind = "put" =>
          op.slot \in Records /\ At(op.slot).name = op.record.name /\ ~At(op.slot).dir
    BY <1>1 DEF Sem, Replaced
  <2>2. op.slot # NoSlot /\ op.kind = "put" => op.slot \in Records' /\ At(op.slot)' = At(op.slot)
    BY <1>1, <1>3, <2>1
  <2>3. op.kind = "put" /\ op.freed => op.slot # NoSlot
    BY <1>1, SlotFacts DEF Sem, Replaced, Records, DirSlot
  <2>4. op.kind = "mkdir" => op.slot = NoSlot
    BY <1>1 DEF Sem, Replaced
  <2>. QED BY <1>1, <2>1, <2>2, <2>3, <2>4 DEF Sem, Replaced
<1>16. Freeing' /\ Moving'
  BY <1>1 DEF Freeing, Moving
<1>. QED BY <1>1, <1>9, <1>10, <1>11, <1>12, <1>14, <1>15, <1>16 DEF Sem

(* The record to write: the one of the file that is replaced,              *)
LEMMA ReuseSem ==
  ASSUME Working, Sem, pc = "slot", task = "idle", op.slot # NoSlot, pc' = "record",
         UNCHANGED <<chainMap, disk, op, state>>
  PROVE  Expected /\ Sem'
<1>1. /\ Before /\ Expected /\ UNCHANGED <<fat, heads, disk, torn, op, task, visited, tail, written>>
      /\ op.kind = "put" /\ task' = "idle" /\ tail' = 0 /\ tail = 0
  BY DEF Expected, chainMap, Working, Before, StepOf, EditorTyped, Sem, Replaced
<1>2. /\ Changes' = Changes /\ Loose' = Loose
      /\ \A d : Cleared(d)' \subseteq Cleared(d)
  <2>1. Loose' = Loose
    BY <1>1 DEF Loose, Top
  <2>2. \A d : Cleared(d)' \subseteq Cleared(d)
    BY <1>1, StillFacts DEF Cleared
  <2>. QED BY <1>1, <2>1, <2>2 DEF Changes
<1>3. /\ ~torn' /\ EP!Sound' /\ ChainsHeld' /\ NamesApart'
      /\ Held' \subseteq Held /\ Records' = Records
      /\ \A s : At(s)' = At(s)
      /\ \A c : Chain(c)' = Chain(c)
      /\ \A d : Slots(d)' = Slots(d)
  BY <1>1, <1>2, StillSem
<1>4. NewClusters'
  BY <1>1, <1>3 DEF Sem, NewClusters
<1>5. ParentHeld'
  BY <1>1, <1>2, <1>3 DEF Sem, ParentHeld, DirHead
<1>6. Replaced' /\ Freeing' /\ Moving'
  BY <1>1, <1>3 DEF Sem, Replaced, Freeing, Moving
<1>. QED BY <1>1, <1>3, <1>4, <1>5, <1>6 DEF Sem

(* a free one of the directory,                                            *)
LEMMA ChooseSem ==
  ASSUME Working, Sem, pc = "slot", task = "idle", op.slot = NoSlot, pc' = "record",
         UNCHANGED <<chainMap, disk, state>>, op'.slot \in DirSlot,
         op'.slot \in Slots(op.parent), At(op'.slot) = FreeRecord, Chosen(op'.slot)
  PROVE  Expected /\ Sem'
<1>1. /\ Before /\ Expected /\ UNCHANGED <<fat, heads, disk, torn, task, visited, tail, written>>
      /\ op.kind \in {"put", "mkdir", "move"} /\ task' = "idle" /\ tail' = 0 /\ tail = 0
      /\ op'.kind = op.kind /\ op'.parent = op.parent /\ op'.record = op.record
      /\ op'.freed = op.freed /\ op'.targets = op.targets /\ op'.from = op.from
      /\ op'.stack = op.stack /\ op'.clusters = op.clusters /\ op'.done = op.done
      /\ op'.size = op.size /\ op'.content = op.content
  BY DEF Expected, chainMap, Working, Before, StepOf, EditorTyped, Chosen
<1>2. NoSlot \notin Records /\ FreeRecord.first = 0
  BY SlotFacts, NoOpFacts, RecordFacts DEF Records, DirSlot
<1>3. ~op.freed
  BY <1>1, <1>2 DEF Sem, Replaced, Before, StepOf
<1>4. /\ Changes' = Changes /\ Loose' = Loose
      /\ \A d : Cleared(d)' \subseteq Cleared(d)
  <2>1. Loose' = Loose
    BY <1>1, <1>3 DEF Loose
  <2>2. \A d : Cleared(d)' \subseteq Cleared(d)
    BY <1>1, StillFacts DEF Cleared
  <2>. QED BY <1>1, <2>1, <2>2 DEF Changes
<1>5. /\ ~torn' /\ EP!Sound' /\ ChainsHeld' /\ NamesApart'
      /\ Held' \subseteq Held /\ Records' = Records
      /\ \A s : At(s)' = At(s)
      /\ \A c : Chain(c)' = Chain(c)
      /\ \A d : Slots(d)' = Slots(d)
  BY <1>1, <1>4, StillSem
<1>6. NewClusters'
  BY <1>1, <1>5 DEF Sem, NewClusters
<1>7. ParentHeld'
  BY <1>1, <1>2, <1>4, <1>5 DEF Sem, ParentHeld, DirHead
<1>8. Replaced'
  BY <1>1, <1>2, <1>3, <1>5 DEF Sem, Replaced
<1>9. Freeing'
  BY <1>1 DEF Freeing
<1>10. Moving'
  BY <1>1, <1>5 DEF Sem, Moving, SameParent, DirHead
<1>. QED BY <1>1, <1>5, <1>6, <1>7, <1>8, <1>9, <1>10 DEF Sem

(* or, when there is none, one of a cluster the directory is extended by.  *)
LEMMA WalkSem ==
  ASSUME Working, Sem, pc = "slot", task = "idle", op.slot = NoSlot,
         UNCHANGED <<disk, pc, op, state>>, op.parent \in Cluster, EP!BeginAppend(op.parent)
  PROVE  Expected /\ Sem'
<1>1. /\ Before /\ UNCHANGED <<fat, heads, disk, torn, op, pc, visited, tail, written>>
      /\ op.kind \in {"put", "mkdir", "move"} /\ task' = "walk" /\ tail = 0 /\ visited = {}
      /\ cur' = op.parent /\ DOMAIN fat = Cluster
      /\ op.freed => op.kind = "put"
  BY DEF Working, Before, StepOf, EditorTyped, EP!BeginAppend, DiskType
<1>2. Expected
  BY <1>1 DEF Expected, EP!Next, EP!AppendCluster, Sem, ParentHeld, DirHead, Changes
<1>3. /\ Changes' = Changes /\ Loose' = Loose
      /\ \A d : Cleared(d)' \subseteq Cleared(d)
  <2>1. Loose' = Loose
    BY <1>1 DEF Loose
  <2>2. \A d : Cleared(d)' \subseteq Cleared(d)
    BY <1>1, StillFacts DEF Cleared
  <2>. QED BY <1>1, <2>1, <2>2 DEF Changes
<1>4. /\ ~torn' /\ EP!Sound' /\ ChainsHeld' /\ NamesApart'
      /\ Held' \subseteq Held /\ Records' = Records
      /\ \A s : At(s)' = At(s)
      /\ \A c : Chain(c)' = Chain(c)
      /\ \A d : Slots(d)' = Slots(d)
  BY <1>1, <1>2, <1>3, StillSem
<1>5. NewClusters'
  BY <1>1, <1>4 DEF Sem, NewClusters
<1>6. ParentHeld'
  <2>1. op.parent \in Chain(op.parent)
    BY <1>1, ChainFacts DEF ChainsRead
  <2>. QED BY <1>1, <1>3, <1>4, <2>1 DEF Sem, ParentHeld, DirHead
<1>7. Replaced'
  BY <1>1, <1>4 DEF Sem, Replaced
<1>8. Freeing'
  BY <1>1 DEF Freeing
<1>9. Moving'
  BY <1>1, <1>4 DEF Sem, Moving, SameParent, DirHead
<1>. QED BY <1>2, <1>4, <1>5, <1>6, <1>7, <1>8, <1>9 DEF Sem

LEMMA WritableRecordSem ==
  ASSUME Sem, WritableRecordFacts
  PROVE  Expected /\ Sem'
BY ReuseSem, ChooseSem, WalkSem DEF WritableRecordFacts

(* The chain of the directory is followed to its end.                      *)
LEMMA WalkNextSem ==
  ASSUME Sem, Alone, EP!WalkNext
  PROVE  Expected /\ Sem'
<1>1. /\ Before /\ DOMAIN fat = Cluster
      /\ UNCHANGED <<fat, heads, disk, torn, op, pc, tail, written, task>>
      /\ op.slot = NoSlot /\ task = "walk" /\ pc = "slot" /\ tail = 0
      /\ op.kind \in {"put", "mkdir", "move"}
      /\ cur \in Cluster /\ fat[cur] # 0 /\ fat[cur] # END
      /\ visited' = visited \cup {cur} /\ cur' = fat[cur]
      /\ op.freed => op.kind = "put"
  BY DEF Alone, Working, Before, TaskOf, StepOf, EditorTyped, EP!WalkNext, DiskType,
         EP!IsTerminalValue, EP!FREE, EP!Cluster, Cluster
<1>2. Expected
  BY DEF Expected, EP!Next, EP!EditorStep
<1>3. /\ Changes' = Changes /\ Loose' = Loose
      /\ \A d : Cleared(d)' \subseteq Cleared(d)
  <2>1. Loose' = Loose
    BY <1>1 DEF Loose
  <2>2. \A d : Cleared(d)' \subseteq Cleared(d)
    BY <1>1, StillFacts DEF Cleared
  <2>. QED BY <1>1, <2>1, <2>2 DEF Changes
<1>4. /\ ~torn' /\ EP!Sound' /\ ChainsHeld' /\ NamesApart'
      /\ Held' \subseteq Held /\ Records' = Records
      /\ \A s : At(s)' = At(s)
      /\ \A c : Chain(c)' = Chain(c)
      /\ \A d : Slots(d)' = Slots(d)
  BY <1>1, <1>2, <1>3, StillSem
<1>5. NewClusters'
  BY <1>1, <1>4 DEF Sem, NewClusters
<1>6. ParentHeld'
  <2>1. cur \in Chain(op.parent) /\ visited \subseteq Chain(op.parent)
    BY <1>1 DEF Sem, ParentHeld
  <2>2. fat[cur] \in Cluster
    BY <1>1, SoundFacts DEF Sem, ChainsApart
  <2>3. fat[cur] \in Chain(op.parent)
    BY <1>1, <2>1, <2>2, ChainFacts DEF ChainsRead
  <2>. QED BY <1>1, <1>3, <1>4, <2>1, <2>3 DEF Sem, ParentHeld, DirHead
<1>7. Replaced'
  BY <1>1, <1>4 DEF Sem, Replaced
<1>8. Freeing'
  BY <1>1 DEF Freeing
<1>9. Moving'
  BY <1>1, <1>4 DEF Sem, Moving, SameParent, DirHead
<1>. QED BY <1>2, <1>4, <1>5, <1>6, <1>7, <1>8, <1>9 DEF Sem

LEMMA WalkEndSem ==
  ASSUME Sem, Alone, EP!WalkEnd, EP!FreeClusters # {}
  PROVE  Expected /\ Sem'
<1>1. /\ Before /\ DOMAIN fat = Cluster
      /\ UNCHANGED <<fat, heads, disk, torn, op, pc, written>>
      /\ op.slot = NoSlot /\ task = "walk" /\ task' = "alloc" /\ pc = "slot" /\ tail = 0
      /\ op.kind \in {"put", "mkdir", "move"} /\ written = 0
      /\ cur \in Cluster /\ tail' = cur /\ 0 \notin Cluster
      /\ visited' = {}
      /\ op.freed => op.kind = "put"
  BY ClusterFacts
     DEF Alone, Working, Before, TaskOf, StepOf, EditorTyped, EP!WalkEnd, DiskType,
         EP!Cluster, Cluster
<1>2. Expected
  BY DEF Expected, EP!Next, EP!EditorStep
<1>3. /\ Changes' = Changes /\ Loose' = Loose
      /\ \A d : Cleared(d)' \subseteq Cleared(d)
  <2>1. Loose' = Loose
    BY <1>1 DEF Loose
  <2>2. \A d : Cleared(d)' \subseteq Cleared(d)
    BY <1>1, StillFacts DEF Cleared
  <2>. QED BY <1>1, <2>1, <2>2 DEF Changes
<1>4. /\ ~torn' /\ EP!Sound' /\ ChainsHeld' /\ NamesApart'
      /\ Held' \subseteq Held /\ Records' = Records
      /\ \A s : At(s)' = At(s)
      /\ \A c : Chain(c)' = Chain(c)
      /\ \A d : Slots(d)' = Slots(d)
  BY <1>1, <1>2, <1>3, StillSem
<1>5. NewClusters'
  <2>1. tail' # 0 /\ \A i \in 1 .. written' : FALSE
    BY <1>1
  <2>. QED BY <1>1, <1>4, <2>1 DEF Sem, NewClusters
<1>6. ParentHeld'
  BY <1>1, <1>3, <1>4 DEF Sem, ParentHeld, DirHead
<1>7. Replaced'
  BY <1>1, <1>4 DEF Sem, Replaced
<1>8. Freeing'
  BY <1>1 DEF Freeing
<1>9. Moving'
  BY <1>1, <1>4 DEF Sem, Moving, SameParent, DirHead
<1>. QED BY <1>2, <1>4, <1>5, <1>6, <1>7, <1>8, <1>9 DEF Sem

-----------------------------------------------------------------------------
(* The undamaged volume: the editor's writes.                              *)

(* The clusters an allocation is about to write lie in no chain.           *)
LEMMA BuildApart ==
  ASSUME Before, Sem, task \in {"alloc", "link"}, NEW h \in heads,
         NEW n \in DOMAIN got, n <= written + 1
  PROVE  got[n] \notin Chain(h) /\ got[n] # h
<1>1. ChainsApart /\ DOMAIN fat = Cluster
  BY SoundFacts DEF Sem, Before, DiskType
<1>2. /\ got \in Seq(Cluster) /\ written \in Nat /\ Len(got) \in Nat /\ n \in Nat /\ n >= 1
      /\ n <= Len(got)
  BY DEF Before, EditorTyped
<1>3. got[1] \notin heads /\ Source(fat, got[1])
  BY <1>1 DEF Sem, EP!Sound, EP!NewChain, EP!Cluster, Cluster, Source
<1>4. task = "alloc" => \A i \in 1 .. written : fat[got[i]] = got[i + 1]
  BY DEF Sem, NewClusters
<1>5. n # 1 => task = "alloc"
  BY <1>2 DEF Before, EditorTyped
<1>. DEFINE G == {got[i] : i \in 1 .. n}
<1>6. ASSUME NEW i \in 1 .. n, i # 1
      PROVE  i - 1 \in 1 .. n /\ fat[got[i - 1]] = got[i] /\ got[i - 1] \in G \cap Cluster
  <2>1. i \in Nat /\ i >= 2 /\ i <= n /\ n # 1
    BY <1>2, <1>6
  <2>2. i - 1 \in 1 .. n /\ i - 1 \in 1 .. written /\ (i - 1) + 1 = i
    BY <1>2, <2>1
  <2>3. fat[got[i - 1]] = got[i]
    BY <1>4, <1>5, <2>1, <2>2
  <2>4. got[i - 1] \in Cluster
    BY <1>2, <2>2
  <2>. QED BY <2>2, <2>3, <2>4
<1>7. h \notin G
  <2>1. ASSUME NEW i \in 1 .. n, got[i] = h PROVE FALSE
    <3>1. i # 1
      BY <1>3, <2>1
    <3>2. fat[got[i - 1]] = h /\ got[i - 1] \in DOMAIN fat
      BY <1>1, <1>6, <2>1, <3>1
    <3>. QED BY <1>1, <3>2 DEF ChainsApart, Source
  <2>. QED BY <2>1
<1>8. \A g \in G : Source(fat, g) \/ \E b \in G \cap Cluster : fat[b] = g
  BY <1>3, <1>6
<1>9. got[n] \in G
  BY <1>2
<1>. HIDE DEF G
<1>10. Chain(h) \cap G = {}
  BY <1>1, <1>7, <1>8, ChainAvoids
<1>. QED BY <1>7, <1>9, <1>10

LEMMA ChainSame ==
  ASSUME DOMAIN fat = Cluster, NEW g, DOMAIN g = Cluster, NEW h,
         \A x \in Chain(h) : g[x] = fat[x]
  PROVE  Reach(g, h, Cluster) = Chain(h)
<1>1. IsFiniteSet(DOMAIN fat) /\ DOMAIN g = DOMAIN fat
  BY ClusterFacts
<1>2. \A x \in Reach(fat, h, Cluster) : g[x] = fat[x]
  BY DEF Chain
<1>. QED BY <1>1, <1>2, ReachSame DEF Chain

(* One entry of the chain map is written, and chains keep their clusters   *)
(* if that entry is in none of them.                                       *)
LEMMA ChainsKept ==
  ASSUME DOMAIN fat = Cluster, NEW c, NEW v, fat' = [fat EXCEPT ![c] = v]
  PROVE  /\ DOMAIN fat' = Cluster
         /\ \A x \in Cluster : x # c => fat'[x] = fat[x]
         /\ c \in Cluster => fat'[c] = v
         /\ \A h : c \notin Chain(h) => Chain(h)' = Chain(h)
<1>. DEFINE g == [fat EXCEPT ![c] = v]
<1>1. /\ DOMAIN g = Cluster /\ \A x \in Cluster : x # c => g[x] = fat[x]
      /\ c \in Cluster => g[c] = v
  OBVIOUS
<1>2. fat' = g
  OBVIOUS
<1>. HIDE DEF g
<1>3. ASSUME NEW h, c \notin Chain(h) PROVE Chain(h)' = Chain(h)
  <2>1. \A x \in Chain(h) : g[x] = fat[x]
    BY <1>1, <1>3, ChainFacts DEF ChainsRead
  <2>2. Reach(g, h, Cluster) = Chain(h)
    BY <1>1, <2>1, ChainSame
  <2>. QED BY <1>2, <2>2 DEF Chain
<1>. QED BY <1>1, <1>2, <1>3

(* The editor's step leaves the chains in use alone.                       *)
LEMMA KeptSem ==
  ASSUME Before, Sem, UNCHANGED <<disk, pc, op, torn>>, Expected, Loose \subseteq Loose',
         RootCluster \in heads',
         \A d \in heads \cap heads' : Chain(d)' = Chain(d),
         \A s \in Held' : At(s).first \in heads => At(s).first \in heads',
         Changes => op.parent \in heads'
  PROVE  /\ ~torn' /\ EP!Sound' /\ ChainsHeld' /\ NamesApart'
         /\ Held' \subseteq Held /\ Records' = Records
         /\ \A s : At(s)' = At(s)
         /\ \A d \in heads \cap heads' : Slots(d)' = Slots(d) /\ Cleared(d)' = Cleared(d)
         /\ \A d \in heads \cap heads' : DirHead(d) => DirHead(d)'
<1>1. Records' = Records /\ \A s : At(s)' = At(s)
  BY DEF Records, DirSlot, At
<1>2. Held' \subseteq Held
  BY <1>1 DEF Held
<1>3. ~torn' /\ EP!Sound'
  BY ExpectedSound DEF Before, Sem
<1>4. ChainsHeld'
  BY <1>1, <1>2, FewerChains DEF Sem
<1>5. \A d \in heads \cap heads' : Slots(d)' = Slots(d)
  BY DEF Slots, SlotsIn
<1>6. \A d \in heads \cap heads' : Cleared(d)' = Cleared(d)
  BY <1>5 DEF Cleared
<1>7. Dirs' \subseteq Dirs
  BY <1>1, <1>2, FewerDirs DEF Dirs, Changes
<1>8. \A d \in Dirs' : d \in heads \cap heads'
  <2>1. \A s \in Held' : At(s).dir => At(s).first \in heads \cap heads'
    BY <1>2 DEF Sem, ChainsHeld
  <2>2. Changes => op.parent \in heads \cap heads'
    BY DEF Sem, ParentHeld, DirHead
  <2>3. RootCluster \in heads \cap heads'
    BY DEF Sem, ChainsHeld
  <2>. QED BY <1>1, <2>1, <2>2, <2>3 DEF Dirs, Changes
<1>9. NamesApart'
  BY <1>1, <1>2, <1>6, <1>7, <1>8, FewerNames DEF Sem
<1>10. \A d \in heads \cap heads' : DirHead(d) => DirHead(d)'
  BY <1>1, <1>2 DEF DirHead
<1>. QED BY <1>1, <1>2, <1>3, <1>4, <1>5, <1>6, <1>9, <1>10

LEMMA AllocateLinkSem ==
  ASSUME Sem, Alone, EP!AllocateLink
  PROVE  Expected /\ Sem'
<1>1. /\ Before /\ DOMAIN fat = Cluster
      /\ UNCHANGED <<heads, disk, torn, op, pc, task, got, tail, visited, state>>
      /\ task = "alloc" /\ written' = written + 1
      /\ written \in Nat /\ written + 1 < Len(got) /\ Len(got) \in Nat
      /\ got \in Seq(Cluster) /\ tail = 0
      /\ fat' = [fat EXCEPT ![got[written + 1]] = got[written + 2]]
  BY DEF Alone, Working, Before, EditorTyped, EP!AllocateLink, DiskType
<1>3. got = op.clusters /\ op.done = 0 /\ pc = "data" /\ op.kind \in {"put", "mkdir"}
  BY <1>1 DEF Sem, NewClusters, Before, TaskOf, StepOf
<1>4. Expected
  BY DEF Expected, EP!Next, EP!EditorStep
<1>5. written + 1 \in DOMAIN got /\ written + 1 <= written + 1
  BY <1>1
<1>6. got[written + 1] \in Cluster
  BY <1>1, <1>5
<1>7. \A h \in heads : got[written + 1] \notin Chain(h)
  BY <1>1, <1>5, BuildApart
<1>8. /\ \A h \in heads : Chain(h)' = Chain(h)
      /\ \A x \in Cluster : x # got[written + 1] => fat'[x] = fat[x]
      /\ fat'[got[written + 1]] = got[written + 2]
  <2>1. PICK c : c = got[written + 1]
    OBVIOUS
  <2>2. PICK v : v = got[written + 2]
    OBVIOUS
  <2>3. fat' = [fat EXCEPT ![c] = v]
    BY <1>1, <2>1, <2>2
  <2>4. /\ \A x \in Cluster : x # c => fat'[x] = fat[x]
        /\ c \in Cluster => fat'[c] = v
        /\ \A h : c \notin Chain(h) => Chain(h)' = Chain(h)
    BY <1>1, <2>3, ChainsKept
  <2>. QED BY <1>6, <1>7, <2>1, <2>2, <2>4
<1>9. Loose' = Loose
  BY <1>1 DEF Loose, Top
<1>10. op.parent \in heads /\ RootCluster \in heads /\ Changes
  BY <1>3 DEF Sem, ParentHeld, ChainsHeld, DirHead, Changes
<1>11. /\ ~torn' /\ EP!Sound' /\ ChainsHeld' /\ NamesApart'
       /\ Held' \subseteq Held /\ Records' = Records
       /\ \A s : At(s)' = At(s)
       /\ \A d \in heads : Slots(d)' = Slots(d) /\ Cleared(d)' = Cleared(d)
       /\ \A d \in heads : DirHead(d) => DirHead(d)'
  BY <1>1, <1>4, <1>8, <1>9, <1>10, KeptSem
<1>12. NewClusters'
  <2>1. ASSUME NEW i \in 1 .. written + 1 PROVE fat'[got[i]] = got[i + 1]
    <3>1. CASE i = written + 1
      <4>1. i + 1 = written + 2
        BY <1>1, <3>1
      <4>. QED BY <1>8, <3>1, <4>1
    <3>2. CASE i # written + 1
      <4>1. i \in 1 .. written /\ i \in DOMAIN got /\ got[i] \in Cluster
        BY <1>1, <2>1, <3>2
      <4>2. got[i] # got[written + 1]
        BY <1>1, <1>5, <3>2, <4>1 DEF Before, EP!TypeInv, EP!ChosenStillFree
      <4>. QED BY <1>1, <1>8, <4>1, <4>2 DEF Sem, NewClusters
    <3>. QED BY <3>1, <3>2
  <2>2. \A i \in 1 .. written' : fat'[got'[i]] = got'[i + 1]
    BY <1>1, <2>1
  <2>. QED BY <1>1, <1>3, <2>2 DEF Sem, NewClusters
<1>13. ParentHeld'
  BY <1>1, <1>3, <1>10, <1>11 DEF Sem, ParentHeld, Changes
<1>14. Replaced'
  BY <1>1, <1>3, <1>11 DEF Sem, Replaced
<1>15. Freeing' /\ Moving'
  BY <1>1, <1>3 DEF Freeing, Moving
<1>. QED BY <1>4, <1>11, <1>12, <1>13, <1>14, <1>15 DEF Sem

LEMMA AllocateEndSem ==
  ASSUME Sem, Alone, EP!AllocateEnd, EP!TypeInv'
  PROVE  Expected /\ Sem'
<1>1. /\ Before /\ DOMAIN fat = Cluster
      /\ UNCHANGED <<disk, torn, op, pc, state>>
      /\ task = "alloc" /\ written \in Nat /\ written + 1 = Len(got) /\ Len(got) \in Nat
      /\ got \in Seq(Cluster)
      /\ visited = {} /\ visited' = {}
      /\ fat' = [fat EXCEPT ![got[written + 1]] = END]
      /\ IF tail = 0
         THEN task' = "idle" /\ tail' = 0 /\ heads' = heads \cup {got[1]}
         ELSE task' = "link" /\ UNCHANGED <<tail, heads>>
  BY DEF Alone, Working, Before, EditorTyped, EP!AllocateEnd, EP!Rest, DiskType,
         EP!TypeInv, EP!Progress
<1>2. IF tail = 0
      THEN got = op.clusters /\ op.done = 0 /\ pc = "data" /\ op.kind \in {"put", "mkdir"}
      ELSE pc = "slot" /\ op.slot = NoSlot /\ op.kind \in {"put", "mkdir", "move"}
           /\ Len(got) = 1
  BY <1>1 DEF Sem, NewClusters, Before, TaskOf, StepOf, EditorTyped
<1>3. Expected
  BY DEF Expected, EP!Next, EP!EditorStep
<1>4. written + 1 \in DOMAIN got /\ written + 1 <= written + 1 /\ 1 \in DOMAIN got
      /\ got[written + 1] \in Cluster /\ got[1] \in Cluster /\ 1 <= written + 1
  BY <1>1
<1>5. \A h \in heads : got[written + 1] \notin Chain(h) /\ got[1] # h
  BY <1>1, <1>4, BuildApart
<1>6. /\ \A h \in heads : Chain(h)' = Chain(h)
      /\ \A x \in Cluster : x # got[written + 1] => fat'[x] = fat[x]
      /\ fat'[got[written + 1]] = END
  BY <1>1, <1>4, <1>5, ChainsKept
<1>7. Loose' = Loose /\ heads \subseteq heads'
  <2>1. ~(task' = "free" /\ visited' = {}) /\ ~(task = "free" /\ visited = {})
    BY <1>1
  <2>2. Loose' = Loose
    BY <1>1, <2>1 DEF Loose, Top
  <2>. QED BY <1>1, <2>2
<1>8. op.parent \in heads /\ RootCluster \in heads /\ Changes
  BY <1>2 DEF Sem, ParentHeld, ChainsHeld, DirHead, Changes
<1>9. /\ ~torn' /\ EP!Sound' /\ ChainsHeld' /\ NamesApart'
      /\ Held' \subseteq Held /\ Records' = Records
      /\ \A s : At(s)' = At(s)
      /\ \A d \in heads : Slots(d)' = Slots(d) /\ Cleared(d)' = Cleared(d)
      /\ \A d \in heads : DirHead(d) => DirHead(d)'
  BY <1>1, <1>3, <1>6, <1>7, <1>8, KeptSem
<1>10. NewClusters'
  <2>1. CASE tail = 0
    <3>1. op.record.first = got[1] /\ op.clusters # << >> /\ op.record.first \in heads' \ {RootCluster}
      BY <1>1, <1>2, <1>4, <1>5, <1>8, <2>1 DEF Sem, NewClusters
    <3>2. \A s \in Held' : At(s)'.first # op.record.first
      BY <1>4, <1>5, <1>9, <3>1, ClusterFacts DEF Sem, ChainsHeld
    <3>3. ASSUME NEW i \in DOMAIN op.clusters
          PROVE  fat'[op.clusters[i]] = IF i = Len(op.clusters) THEN END ELSE op.clusters[i + 1]
      <4>1. CASE i = Len(op.clusters)
        BY <1>1, <1>2, <1>6, <2>1, <4>1
      <4>2. CASE i # Len(op.clusters)
        <5>1. i \in 1 .. written /\ i \in DOMAIN got /\ got[i] \in Cluster /\ i # written + 1
          BY <1>1, <1>2, <2>1, <4>2
        <5>2. got[i] # got[written + 1]
          BY <1>1, <1>4, <5>1 DEF Before, EP!TypeInv, EP!ChosenStillFree
        <5>3. fat[got[i]] = got[i + 1]
          BY <1>1, <5>1 DEF Sem, NewClusters
        <5>. QED BY <1>2, <1>6, <2>1, <4>2, <5>1, <5>2, <5>3
      <4>. QED BY <4>1, <4>2
    <3>. QED BY <1>1, <1>2, <2>1, <3>1, <3>2, <3>3 DEF Sem, NewClusters
  <2>2. CASE tail # 0
    <3>1. written = 0 /\ written + 1 = 1 /\ fat[got[1]] = 0
      <4>1. Len(got) = 1
        BY <1>2, <2>2
      <4>2. written = 0 /\ written + 1 = 1 /\ 1 > written
        BY <1>1, <4>1
      <4>. QED BY <1>1, <1>4, <4>2 DEF Before, EP!TypeInv, EP!ChosenStillFree, EP!FREE
    <3>2. ASSUME NEW i \in DOMAIN op.clusters, op.kind \in {"put", "mkdir"}
          PROVE  fat'[op.clusters[i]] = fat[op.clusters[i]]
      <4>1. op.clusters \in Seq(Cluster) /\ op.clusters # << >>
        BY <1>1, <3>2 DEF Before, Operation
      <4>2. op.clusters[i] \in Cluster
        BY <4>1
      <4>3. fat[op.clusters[i]] = END \/ (i # Len(op.clusters) /\ fat[op.clusters[i]] = op.clusters[i + 1])
        BY <1>1, <2>2, <3>2, <4>1 DEF Sem, NewClusters
      <4>4. i # Len(op.clusters) => op.clusters[i + 1] \in Cluster
        BY <4>1, <3>2
      <4>5. fat[op.clusters[i]] # 0
        BY <4>3, <4>4, ClusterFacts
      <4>. QED BY <1>6, <3>1, <4>2, <4>5
    <3>3. heads' = heads /\ task' = "link" /\ tail' = tail
      BY <1>1, <2>2
    <3>. QED BY <1>1, <1>2, <1>9, <2>2, <3>2, <3>3 DEF Sem, NewClusters
  <2>. QED BY <2>1, <2>2
<1>11. ParentHeld'
  BY <1>1, <1>2, <1>6, <1>8, <1>9 DEF Sem, ParentHeld, Changes
<1>12. Replaced'
  BY <1>1, <1>2, <1>9 DEF Sem, Replaced
<1>13. Freeing'
  BY <1>1, <1>2 DEF Freeing
<1>14. Moving'
  BY <1>1, <1>2, <1>6, <1>7, <1>9 DEF Sem, Moving, SameParent
<1>. QED BY <1>3, <1>9, <1>10, <1>11, <1>12, <1>13, <1>14 DEF Sem

LEMMA AppendLinkSem ==
  ASSUME Working, Sem, EP!AppendLink, pc' = "zero", UNCHANGED <<state, disk>>,
         got[1] \in Cluster, Chosen(FirstSlot(got[1]))
  PROVE  Expected /\ Sem'
<1>1. /\ Before /\ DOMAIN fat = Cluster /\ UNCHANGED <<heads, disk, torn>>
      /\ task = "link" /\ task' = "idle" /\ tail' = 0 /\ visited' = {} /\ tail # 0
      /\ tail \in Cluster
      /\ pc = "slot" /\ op.slot = NoSlot /\ op.kind \in {"put", "mkdir", "move"} /\ Changes
      /\ 1 \in DOMAIN got /\ 1 <= written + 1
      /\ fat' = [fat EXCEPT ![tail] = got[1]]
  BY DEF Working, Before, EditorTyped, EP!AppendLink, EP!Rest, DiskType, TaskOf, StepOf, Changes
<1>2. /\ op'.kind = op.kind /\ op'.parent = op.parent /\ op'.record = op.record
      /\ op'.freed = op.freed /\ op'.targets = op.targets /\ op'.from = op.from
      /\ op'.stack = op.stack /\ op'.clusters = op.clusters /\ op'.done = op.done
      /\ op'.size = op.size /\ op'.content = op.content
      /\ op'.slot[1] = got[1] /\ op'.slot # NoSlot /\ NoSlot \notin Records
  BY SlotFacts DEF Chosen, FirstSlot, NoSlot, Records, DirSlot
<1>3. Expected
  BY DEF Expected, EP!Next, EP!EditorStep
<1>4. ~op.freed
  BY <1>1, <1>2 DEF Sem, Replaced, Before, StepOf
<1>5. /\ ChainsApart /\ fat[got[1]] = END /\ fat[tail] = END /\ tail # got[1]
      /\ op.parent \in heads /\ tail \in Chain(op.parent) /\ RootCluster \in heads
  BY <1>1, SoundFacts
     DEF Sem, EP!Sound, EP!NewChain, ParentHeld, DirHead, ChainsHeld, Changes
<1>6. \A h \in heads : got[1] \notin Chain(h)
  BY <1>1, BuildApart
<1>7. /\ DOMAIN fat' = Cluster /\ fat'[tail] = got[1]
      /\ \A x \in Cluster : x # tail => fat'[x] = fat[x]
      /\ \A h \in heads : h # op.parent => Chain(h)' = Chain(h)
  <2>1. \A h \in heads : h # op.parent => tail \notin Chain(h)
    BY <1>5 DEF ChainsApart
  <2>. QED BY <1>1, <2>1, ChainsKept
<1>. DEFINE a == op.parent
<1>8. Chain(a) \subseteq Cluster /\ \A c \in Chain(a) : fat[c] \in Cluster => fat[c] \in Chain(a)
  BY <1>1, ChainFacts DEF ChainsRead
<1>9. \A c \in Cluster : c \in Chain(a) /\ c # got[1] <=> c \in Reach(fat', a, Cluster) /\ c # got[1]
  <2>1. IsFiniteSet(DOMAIN fat) /\ IsFiniteSet(DOMAIN fat') /\ END \notin Cluster /\ a \in Cluster
    BY <1>1, <1>5, <1>7, ClusterFacts DEF ChainsApart
  <2>. DEFINE C == Chain(a)
              D == Reach(fat', a, Cluster)
              E == C \cup {got[1]}
  <2>2. a \in C
    BY <1>1, <2>1, ChainFacts DEF ChainsRead
  <2>3. D \subseteq E
    <3>1. \A c \in E \cap Cluster : fat'[c] \in DOMAIN fat' => fat'[c] \in E
      BY <1>5, <1>7, <1>8, <2>1
    <3>. HIDE DEF E
    <3>2. a \in E
      BY <2>2 DEF E
    <3>. QED BY <2>1, <3>1, <3>2, ReachLeast
  <2>4. C \subseteq D
    <3>1. a \in D
      BY <1>7, <2>1, ReachIn
    <3>2. \A c \in D \cap Cluster : fat'[c] \in DOMAIN fat' => fat'[c] \in D
      BY <2>1, ReachClosed
    <3>. HIDE DEF D
    <3>3. \A c \in D \cap Cluster : fat[c] \in DOMAIN fat => fat[c] \in D
      BY <1>1, <1>5, <1>7, <2>1, <3>2
    <3>4. Reach(fat, a, Cluster) \subseteq D
      BY <2>1, <3>1, <3>3, ReachLeast
    <3>. QED BY <3>4 DEF Chain
  <2>. QED BY <1>8, <2>3, <2>4
<1>10. got[1] \in Reach(fat', a, Cluster) /\ Chain(a) \subseteq Reach(fat', a, Cluster)
  <2>1. Chain(a) \subseteq Reach(fat', a, Cluster)
    BY <1>5, <1>6, <1>8, <1>9
  <2>2. IsFiniteSet(DOMAIN fat')
    BY <1>7, ClusterFacts
  <2>. QED BY <1>1, <1>5, <1>7, <2>1, <2>2, ReachClosed
<1>11. PICK d : d = op.parent
  OBVIOUS
<1>12. /\ d \in heads /\ op'.parent = d /\ Chain(d) \subseteq Chain(d)' /\ got[1] \in Chain(d)'
       /\ \A c \in Cluster : c # got[1] /\ c \in Chain(d)' => c \in Chain(d)
       /\ \A h \in heads : h # d => Chain(h)' = Chain(h)
  BY <1>2, <1>5, <1>7, <1>9, <1>10, <1>11 DEF Chain
<1>13. Records' = Records /\ DirSlot' = DirSlot /\ \A s : At(s)' = At(s)
  BY <1>1, StillFacts DEF Records, DirSlot, At
<1>14. \A h \in heads : Chain(h) \subseteq Chain(h)' /\ Slots(h) \subseteq Slots(h)'
  BY <1>1, <1>12 DEF Slots, SlotsIn
<1>15. ASSUME NEW h \in heads PROVE Cleared(h)' \subseteq Cleared(h) /\ Cleared(h) = Slots(h)
  <2>1. Cleared(h) = Slots(h)
    BY <1>1 DEF Cleared
  <2>2. ASSUME NEW s \in Cleared(h)' PROVE s \in Slots(h)
    <3>1. s \in Slots(h)' /\ s[1] # got[1]
      BY <1>2, <2>2 DEF Cleared
    <3>2. s[1] \in Chain(h)' /\ s[1] \in OnDisk /\ s \in DirSlot'
      <4>1. AtTyped'
        <5>1. DiskType'
          BY <1>1, <1>7 DEF Before, DiskType
        <5>. QED BY <5>1, AtFacts, PTL
      <4>. QED BY <3>1, <4>1 DEF Slots, AtTyped
    <3>3. s[1] \in Chain(h)
      BY <1>12, <3>1, <3>2, ClusterFacts
    <3>. QED BY <1>1, <1>13, <3>2, <3>3, AtFacts DEF Slots, AtTyped, Before
  <2>. QED BY <2>1, <2>2
<1>16. Loose = {} /\ Loose' = {}
  BY <1>1, <1>2, <1>4 DEF Loose
<1>17. Held' = Held /\ Held = Records
  BY <1>13, <1>16 DEF Held
<1>18. ~torn' /\ EP!Sound'
  BY <1>1, <1>3, ExpectedSound DEF Before, Sem
<1>19. ChainsHeld'
  BY <1>1, <1>13, <1>17, FewerChains DEF Sem, ChainsHeld
<1>20. NamesApart'
  <2>1. Dirs' \subseteq Dirs
    BY <1>1, <1>2, <1>13, <1>17, FewerDirs DEF Dirs
  <2>2. \A h \in Dirs : h \in heads
    BY DirsHeld DEF Sem, DirHead
  <2>. QED BY <1>13, <1>15, <1>17, <2>1, <2>2, FewerNames DEF Sem
<1>21. \A h : DirHead(h)' <=> DirHead(h)
  BY <1>1, <1>13, <1>17 DEF DirHead
<1>22. NewClusters'
  <2>1. ASSUME op.kind \in {"put", "mkdir"}, NEW i \in DOMAIN op.clusters
        PROVE  fat'[op.clusters[i]] = fat[op.clusters[i]]
    <3>1. op.clusters # << >> /\ op.clusters \in Seq(Cluster)
      BY <1>1, <2>1 DEF Before, Operation
    <3>2. op.clusters[i] \notin Chain(op.parent)
      BY <1>1, <1>5, <2>1, <3>1, NewApart DEF Sem, NewClusters
    <3>3. op.clusters[i] \in Cluster
      BY <2>1, <3>1
    <3>. QED BY <1>5, <1>7, <3>2, <3>3
  <2>2. pc' = "zero" /\ pc' \notin {"alloc", "data"} /\ pc \notin {"alloc", "data"}
    BY <1>1
  <2>. QED BY <1>1, <1>2, <1>13, <1>17, <2>1, <2>2 DEF Sem, NewClusters
<1>23. ParentHeld'
  <2>1. ASSUME NEW s \in Records, s \in Cleared(d)', At(s).name = op.record.name PROVE FALSE
    <3>1. s \in Cleared(op.parent)
      BY <1>11, <1>12, <1>15, <2>1
    <3>. QED BY <1>1, <1>2, <2>1, <3>1 DEF Sem, ParentHeld
  <2>2. DirHead(d)'
    BY <1>1, <1>11, <1>21 DEF Sem, ParentHeld
  <2>. QED BY <1>1, <1>2, <1>12, <1>13, <2>1, <2>2 DEF ParentHeld
<1>24. Replaced'
  BY <1>1, <1>2, <1>4 DEF Replaced
<1>25. Freeing'
  BY <1>1 DEF Freeing
<1>26. Moving'
  <2>1. SUFFICES ASSUME op.kind = "move" PROVE Moving'
    BY <1>2 DEF Moving
  <2>2. PICK h \in heads \ {op.record.first} : DirHead(h) /\ op.from[1] \in Chain(h)
    BY <2>1 DEF Sem, Moving
  <2>3. op.from[1] # got[1] /\ op.from[1] \in Chain(h)' /\ DirHead(h)'
    BY <1>6, <1>14, <1>21, <2>2
  <2>4. \E x \in heads' \ {op'.record.first} : DirHead(x)' /\ op'.from[1] \in Chain(x)'
    BY <1>1, <1>2, <2>2, <2>3
  <2>. QED BY <1>1, <1>2, <1>13, <2>1, <2>3, <2>4 DEF Sem, Moving, SameParent
<1>. QED BY <1>3, <1>18, <1>19, <1>20, <1>22, <1>23, <1>24, <1>25, <1>26 DEF Sem

(* The record whose chain is given back.                                   *)
FreedSlot == IF op.kind = "put" THEN op.slot ELSE Top.slot

LEMMA FreeStepSem ==
  ASSUME Sem, Alone, EP!FreeStep
  PROVE  Expected /\ Sem'
<1>1. /\ Before /\ DOMAIN fat = Cluster
      /\ UNCHANGED <<disk, torn, op, pc, state>>
      /\ task = "free" /\ cur \in Cluster /\ tail = 0 /\ tail' = 0
      /\ heads' = heads \ {cur} /\ fat' = [fat EXCEPT ![cur] = 0]
      /\ \/ task' = "idle"
         \/ task' = "free" /\ visited' # {} /\ cur' = fat[cur]
      /\ pc \in {"alloc", "mark"} /\ op.freed
      /\ op.kind = "put" <=> pc = "alloc"
      /\ pc = "mark" => op.kind \in {"delete", "move"}
      /\ pc = "alloc" => op.clusters = << >> /\ op.kind = "put"
  BY ClusterFacts
     DEF Alone, Working, Before, TaskOf, StepOf, EditorTyped, EP!FreeStep, EP!Rest, DiskType,
         EP!FREE, EP!Cluster, Cluster
<1>2. Expected
  BY DEF Expected, EP!Next, EP!EditorStep
<1>3. ChainsApart /\ Source(fat, cur)
  BY <1>1, SoundFacts DEF Sem, EP!Sound, EP!FreePath, EP!Cluster, Cluster, Source
<1>4. \A h \in heads : h # cur => cur \notin Chain(h)
  <2>. DEFINE G == {cur}
  <2>1. \A g \in G : Source(fat, g) \/ \E b \in G \cap Cluster : fat[b] = g
    BY <1>3
  <2>2. ASSUME NEW h \in heads, h # cur PROVE cur \notin Chain(h)
    <3>1. h \notin G
      BY <2>2
    <3>2. Chain(h) \cap G = {}
      BY <1>3, <2>1, <3>1, ChainAvoids
    <3>. QED BY <3>2
  <2>. QED BY <2>2
<1>5. /\ \A h \in heads \cap heads' : Chain(h)' = Chain(h)
  BY <1>1, <1>4, ChainsKept
(* Nothing in use but the freed record itself leads to what is given back. *)
<1>6. /\ Loose' = {FreedSlot} /\ Loose \subseteq Loose'
      /\ IF visited = {}
         THEN Loose = {} /\ FreedSlot \in Held /\ At(FreedSlot).first = cur
         ELSE cur \notin heads
      /\ FreedSlot' = FreedSlot
  <2>1. FreedSlot' = FreedSlot
    BY <1>1 DEF FreedSlot, Top
  <2>2. Loose' = {FreedSlot}
    BY <1>1, <2>1 DEF Loose, FreedSlot
  <2>3. IF visited = {} THEN Loose = {} ELSE Loose = {FreedSlot}
    BY <1>1 DEF Loose, FreedSlot
  <2>4. IF visited = {} THEN FreedSlot \in Records /\ At(FreedSlot).first = cur
        ELSE cur \notin heads
    BY <1>1 DEF Sem, Freeing, FreedSlot
  <2>. QED BY <2>1, <2>2, <2>3, <2>4 DEF Held
<1>7. Held' = Records \ {FreedSlot} /\ Held' \subseteq Held /\ \A s : At(s)' = At(s)
  BY <1>1, <1>6 DEF Held, Records, DirSlot, At
<1>8. RootCluster \in heads /\ RootCluster \in heads'
  BY <1>1, <1>6 DEF Sem, ChainsHeld
<1>9. \A s \in Held' : At(s).first \in heads => At(s).first \in heads'
  <2>1. ASSUME NEW s \in Held', At(s).first = cur, cur \in heads PROVE FALSE
    <3>1. FreedSlot \in Held /\ At(FreedSlot).first = cur /\ s \in Held /\ s # FreedSlot
      BY <1>6, <1>7, <2>1
    <3>2. cur # 0
      BY <1>1, ClusterFacts
    <3>. QED BY <2>1, <3>1, <3>2 DEF Sem, ChainsHeld
  <2>. QED BY <1>1, <2>1
(* What is given back is no directory an operation works in.               *)
<1>10. ASSUME NEW d \in heads, DirHead(d), Changes PROVE d \in heads'
  <2>1. SUFFICES ASSUME d = cur PROVE FALSE
    BY <1>1, <1>10
  <2>2. FreedSlot \in Held /\ At(FreedSlot).first = d
    BY <1>6, <1>10, <2>1
  <2>3. At(FreedSlot).dir
    BY <1>10, <2>2 DEF DirHead
  <2>4. op.kind = "put" => ~At(FreedSlot).dir
    <3>1. op.slot # NoSlot /\ op.kind = "put" => ~At(op.slot).dir
      BY <1>1 DEF Sem, Replaced
    <3>2. op.slot \in Records => op.slot # NoSlot
      BY SlotFacts DEF Records, DirSlot
    <3>. QED BY <2>2, <3>1, <3>2 DEF FreedSlot, Held
  <2>5. op.kind # "put" => ~At(FreedSlot).dir
    BY <1>1, <1>10 DEF Sem, Moving, FreedSlot, Changes
  <2>. QED BY <2>3, <2>4, <2>5
<1>11. Changes => op.parent \in heads \cap heads' /\ DirHead(op.parent)
  BY <1>10 DEF Sem, ParentHeld, DirHead
<1>12. /\ ~torn' /\ EP!Sound' /\ ChainsHeld' /\ NamesApart'
       /\ Records' = Records
       /\ \A d \in heads \cap heads' : Slots(d)' = Slots(d) /\ Cleared(d)' = Cleared(d)
       /\ \A d \in heads \cap heads' : DirHead(d) => DirHead(d)'
  BY <1>1, <1>2, <1>5, <1>6, <1>8, <1>9, <1>11, KeptSem
<1>13. NewClusters'
  BY <1>1, <1>7 DEF Sem, NewClusters
<1>14. ParentHeld'
  BY <1>1, <1>7, <1>11, <1>12 DEF Sem, ParentHeld, Changes, Top
<1>15. Replaced'
  BY <1>1, <1>7, <1>12 DEF Sem, Replaced
<1>16. Freeing'
  <2>1. task' = "free" => visited' # {} /\ cur' \notin heads'
    BY <1>1, <1>3 DEF ChainsApart, Source
  <2>. QED BY <1>1, <2>1 DEF Freeing
<1>17. Moving'
  <2>1. SUFFICES ASSUME op.kind = "move" PROVE Moving'
    BY <1>1 DEF Moving
  <2>2. Changes /\ pc = "mark"
    BY <1>1, <2>1 DEF Changes
  <2>3. PICK d \in heads \ {op.record.first} : DirHead(d) /\ op.from[1] \in Chain(d)
    BY <2>1 DEF Sem, Moving
  <2>4. d \in heads' /\ DirHead(d)' /\ Chain(d)' = Chain(d)
    BY <1>5, <1>10, <1>12, <2>2, <2>3
  <2>5. \E x \in heads' \ {op'.record.first} : DirHead(x)' /\ op'.from[1] \in Chain(x)'
    BY <1>1, <2>3, <2>4
  <2>. QED BY <1>1, <1>7, <1>11, <1>12, <2>1, <2>2, <2>5 DEF Sem, Moving, SameParent, Top
<1>. QED BY <1>2, <1>12, <1>13, <1>14, <1>15, <1>16, <1>17 DEF Sem

-----------------------------------------------------------------------------
(* The undamaged volume: the service's writes to directories.              *)

LEMMA ClearAppendedSem ==
  ASSUME Sem, ClearAppendedFacts
  PROVE  Expected /\ Sem'
<1>. DEFINE c == op.slot[1]
<1>1. /\ Before /\ DiskType /\ Expected /\ DOMAIN fat = Cluster
      /\ UNCHANGED <<fat, heads, torn, task, visited, tail, written, op, state>>
      /\ pc = "zero" /\ task = "idle" /\ tail = 0 /\ pc' = "record"
      /\ op.kind \in {"put", "mkdir", "move"} /\ Changes /\ Changes'
      /\ op.slot \in Slot /\ c \in OnDisk /\ c \in Cluster
  BY ClusterFacts
     DEF ClearAppendedFacts, Working, Before, EditorTyped, Expected, chainMap, StepOf, Changes,
         DiskType
<1>2. ~op.freed /\ Loose = {} /\ Loose' = {}
  <2>1. ~op.freed
    BY <1>1 DEF Sem, Replaced, Before, StepOf
  <2>. QED BY <1>1, <2>1 DEF Loose
<1>3. /\ \A s \in Records' : s \in Records /\ At(s)' = At(s) /\ s[1] # c
      /\ \A s \in Records : s[1] # c => s \in Records' /\ At(s)' = At(s)
  BY DEF ClearAppendedFacts, Records
<1>4. Held' = Records' /\ Held = Records /\ Held' \subseteq Held
  BY <1>2, <1>3 DEF Held
<1>5. \A d : Chain(d)' = Chain(d)
  BY <1>1 DEF Chain
<1>6. AtTyped /\ AtTyped'
  <2>1. DiskType'
    BY <1>1 DEF ClearAppendedFacts, DiskType
  <2>. QED BY <1>1, <2>1, AtFacts, PTL
<1>7. ASSUME NEW d, NEW s \in Records', s \in Cleared(d)' PROVE s \in Cleared(d)
  <2>1. s \in Slots(d)' /\ s \in Records /\ s[1] # c
    BY <1>3, <1>7 DEF Cleared
  <2>2. s[1] \in Chain(d) /\ s[1] \in OnDisk /\ s \in DirSlot
    BY <1>5, <1>6, <2>1 DEF Slots, AtTyped
  <2>. QED BY <1>6, <2>1, <2>2 DEF Slots, AtTyped, Cleared
<1>8. ~torn' /\ EP!Sound'
  BY <1>1, ExpectedSound DEF Before, Sem
<1>9. ChainsHeld'
  BY <1>1, <1>3, <1>4, FewerChains DEF Sem, ChainsHeld
<1>10. NamesApart'
  <2>1. Dirs' \subseteq Dirs
    BY <1>1, <1>3, <1>4, FewerDirs DEF Dirs
  <2>. QED BY <1>3, <1>4, <1>7, <2>1, FewerNames DEF Sem
<1>11. NewClusters'
  <2>1. ASSUME op.kind \in {"put", "mkdir"}, NEW i \in 1 .. op.done
        PROVE  disk'[op.clusters[i]] = op.content
    <3>1. op.clusters \in Seq(Cluster) /\ op.done <= Len(op.clusters) /\ op.done \in Nat
      BY <1>1 DEF Before, Operation
    <3>2. i \in DOMAIN op.clusters /\ op.clusters[i] \in Cluster /\ op.clusters # << >>
      BY <2>1, <3>1
    <3>3. op.parent \in heads \ {op.record.first} /\ c \in Chain(op.parent)
      BY <1>1, <2>1, <3>2 DEF Sem, ParentHeld, DirHead, NewClusters, Changes
    <3>4. op.clusters[i] # c
      BY <1>1, <2>1, <3>2, <3>3, NewApart
    <3>5. disk[op.clusters[i]] = op.content
      BY <2>1 DEF Sem, NewClusters
    <3>. QED BY <3>2, <3>4, <3>5 DEF ClearAppendedFacts
  <2>. QED BY <1>1, <1>3, <1>4, <2>1 DEF Sem, NewClusters
<1>12. ParentHeld'
  <2>1. PICK d : d = op.parent
    OBVIOUS
  <2>2. op.slot \in Slots(d)'
    <3>1. c \in Chain(d)' /\ op.slot \in DirSlot'
      BY <1>1, <1>5, <2>1 DEF Sem, ParentHeld, ClearAppendedFacts
    <3>. QED BY <1>1, <1>6, <3>1 DEF Slots, AtTyped
  <2>3. ASSUME NEW s \in Records', s \in Cleared(d)', At(s)'.name = op.record.name
        PROVE  s = op.slot
    <3>1. s \in Records \cap Cleared(op.parent) /\ At(s).name = op.record.name
      BY <1>3, <1>7, <2>1, <2>3
    <3>. QED BY <1>1, <3>1 DEF Sem, ParentHeld
  <2>4. DirHead(d)'
    BY <1>1, <1>3, <1>4, <2>1 DEF Sem, ParentHeld, DirHead
  <2>. QED BY <1>1, <2>1, <2>2, <2>3, <2>4 DEF ParentHeld
<1>13. Replaced'
  <2>1. At(op.slot)' = FreeRecord /\ FreeRecord.first = 0
    BY RecordFacts DEF ClearAppendedFacts
  <2>. QED BY <1>1, <1>2, <2>1 DEF Replaced
<1>14. Freeing'
  BY <1>1 DEF Freeing
<1>15. Moving'
  <2>1. SUFFICES ASSUME op.kind = "move" PROVE Moving'
    BY <1>1 DEF Moving
  <2>2. op.from \in Records' /\ At(op.from)' = At(op.from)
    BY <1>1, <1>3, <2>1 DEF Sem, Moving
  <2>3. \A d : DirHead(d) => DirHead(d)'
    BY <1>1, <1>3, <1>4 DEF DirHead
  <2>. QED BY <1>1, <1>5, <2>1, <2>2, <2>3 DEF Sem, Moving, SameParent
<1>. QED BY <1>1, <1>8, <1>9, <1>10, <1>11, <1>12, <1>13, <1>14, <1>15 DEF Sem

(* One record is written.                                                  *)
LEMMA WrittenSlots ==
  ASSUME Before, NEW z, NEW r, Written(z, r)
  PROVE  /\ Records' = (Records \ {z}) \cup (IF r = FreeRecord THEN {} ELSE {z})
         /\ At(z)' = r /\ \A s \in Records : s # z => At(s)' = At(s)
         /\ \A d : Chain(d)' = Chain(d) /\ Slots(d)' = Slots(d)
         /\ UNCHANGED <<fat, heads, torn, task, visited, tail, written>>
         /\ task = "idle" /\ tail = 0 /\ Expected /\ z \in DirSlot
<1>1. /\ UNCHANGED <<fat, heads, torn, task, visited, tail, written>>
      /\ task = "idle" /\ tail = 0 /\ Expected /\ z \in DirSlot
  BY DEF Written, chainMap, Expected, Before, EditorTyped
<1>2. /\ Records' = (Records \ {z}) \cup (IF r = FreeRecord THEN {} ELSE {z})
      /\ At(z)' = r /\ \A s \in Records : s # z => At(s)' = At(s)
  BY DEF Written, Records
<1>3. AtTyped /\ AtTyped'
  <2>1. DiskType /\ DiskType'
    BY <1>1 DEF Written, DiskType, Before
  <2>. QED BY <2>1, AtFacts, PTL
<1>4. \A d : Chain(d)' = Chain(d)
  BY <1>1 DEF Chain
<1>5. ASSUME NEW d PROVE Slots(d)' = Slots(d)
  <2>1. \A s : s \in Slots(d) <=> s \in DirSlot /\ s[1] \in Chain(d) /\ s[1] \in OnDisk
    BY <1>3 DEF Slots, AtTyped
  <2>2. \A s : s \in Slots(d)' <=> s \in DirSlot' /\ s[1] \in Chain(d)' /\ s[1] \in OnDisk
    BY <1>3 DEF Slots, AtTyped
  <2>3. DirSlot' = DirSlot
    BY DEF Written
  <2>. QED BY <1>4, <2>1, <2>2, <2>3
<1>. QED BY <1>1, <1>2, <1>4, <1>5

(* A record that replaces one of its name, or has a name of its own.       *)
LEMMA PlacedSem ==
  ASSUME Before, Sem, NEW z, NEW r \in Record, Written(z, r),
         z \in Slots(op.parent), Changes, pc # "zero", pc' # "zero",
         Held' \subseteq Held \cup {z},
         r.first = 0 \/ r.first \in heads \ {RootCluster},
         r.dir => r.first # 0,
         \A t \in Held' : t # z /\ At(t).first = r.first => r.first = 0,
         \A t \in Records \cap Slots(op.parent) : At(t).name = r.name => t = z,
         r.dir => r.first \in Dirs \/ \A t \in Records \cup {z} : t \notin Slots(r.first),
         Changes' => op'.parent = op.parent
  PROVE  ~torn' /\ EP!Sound' /\ ChainsHeld' /\ NamesApart'
<1>1. /\ Records' = Records \cup {z}
      /\ At(z)' = r /\ \A s \in Records : s # z => At(s)' = At(s)
      /\ \A d : Chain(d)' = Chain(d) /\ Slots(d)' = Slots(d)
      /\ UNCHANGED <<heads, torn>> /\ Expected /\ DiskType
  BY WrittenSlots, RecordFacts DEF Written, Before
<1>2. \A s \in Held' : s # z => s \in Held /\ s \in Records /\ At(s)' = At(s)
  BY <1>1 DEF Held
<1>3. ~torn' /\ EP!Sound'
  BY <1>1, ExpectedSound DEF Before, Sem
<1>4. ChainsHeld'
  BY <1>1, <1>2 DEF Sem, ChainsHeld
<1>5. \A d : Cleared(d)' = Slots(d) /\ Cleared(d) = Slots(d)
  BY <1>1 DEF Cleared
<1>6. \A d \in Dirs' : d \in Dirs \/ (r.dir /\ d = r.first)
  BY <1>1, <1>2 DEF Dirs
<1>7. ChainsApart /\ op.parent \in heads /\ \A d \in Dirs : d \in heads
  BY <1>1, SoundFacts, DirsHeld DEF Sem, DirHead, ParentHeld
<1>8. ASSUME NEW d \in Dirs', NEW s \in Held', NEW t \in Held', s \in Slots(d), t \in Slots(d),
             At(s)'.name = At(t)'.name
      PROVE  s = t
  <2>1. CASE d \notin Dirs
    <3>1. \A x \in Records \cup {z} : x \notin Slots(d)
      BY <1>6, <1>8, <2>1
    <3>. QED BY <1>2, <1>8, <3>1
  <2>2. CASE d \in Dirs
    <3>1. z \in Slots(d) => d = op.parent
      <4>1. z \in Slots(d) => z[1] \in Chain(d)
        BY <1>1, AtFacts DEF Slots, AtTyped
      <4>. QED BY <1>1, <1>7, <2>2, <4>1, SlotsApart
    <3>2. CASE s # z /\ t # z
      BY <1>2, <1>5, <1>8, <2>2, <3>2 DEF Sem, NamesApart
    <3>3. CASE s = z \/ t = z
      <4>1. \A x \in Held' : x # z /\ x \in Slots(d) /\ d = op.parent => At(x)'.name # r.name
        BY <1>2
      <4>. QED BY <1>1, <1>8, <3>1, <3>3, <4>1
    <3>. QED BY <3>2, <3>3
  <2>. QED BY <2>1, <2>2
<1>9. NamesApart'
  BY <1>5, <1>8 DEF NamesApart
<1>. QED BY <1>3, <1>4, <1>9

(* A new directory holds no records.                                       *)
LEMMA NewDirectory ==
  ASSUME Before, Sem, pc = "record", task = "idle", op.kind = "mkdir", op.slot # NoSlot
  PROVE  \A t \in Records \cup {op.slot} : t \notin Slots(op.record.first)
<1>. DEFINE h == op.record.first
<1>1. /\ op.clusters \in Seq(Cluster) /\ Len(op.clusters) = 1 /\ op.done = 1
      /\ op.content = EmptyDirectory /\ op.record.first = op.clusters[1]
      /\ disk[op.clusters[1]] = op.content
      /\ op.clusters # << >> /\ h # op.parent
  <2>1. op.clusters \in Seq(Cluster) /\ op.content = EmptyDirectory
    BY DEF Before, Operation, StepOf
  <2>2. Len(op.clusters) = 1 /\ op.done = Len(op.clusters)
    BY DEF Sem, NewClusters
  <2>3. op.clusters # << >>
    <3>1. op.clusters \in Seq(Cluster) /\ Len(op.clusters) = 1
      BY <2>1, <2>2
    <3>. QED BY <3>1
  <2>. QED BY <2>1, <2>2, <2>3 DEF Sem, NewClusters
<1>2. 1 \in DOMAIN op.clusters /\ h \in heads /\ h \in Cluster
  <2>1. 1 \in DOMAIN op.clusters
    BY <1>1
  <2>2. h \in heads
    BY <1>1 DEF Sem, NewClusters
  <2>. QED BY <2>1, <2>2 DEF Before, EditorTyped
<1>3. fat[h] = END
  BY <1>1, <1>2 DEF Sem, NewClusters
<1>4. Chain(h) \subseteq {h}
  <2>. DEFINE S == {h}
  <2>1. \A c \in S \cap Cluster : fat[c] \in DOMAIN fat => fat[c] \in S
    BY <1>3, ClusterFacts DEF Before, DiskType
  <2>2. IsFiniteSet(DOMAIN fat) /\ h \in S
    BY ClusterFacts DEF Before, DiskType
  <2>. HIDE DEF S, h
  <2>3. Reach(fat, h, Cluster) \subseteq S
    BY <2>1, <2>2, ReachLeast
  <2>. QED BY <2>3 DEF S, Chain
<1>5. AtTyped
  BY AtFacts DEF Before
<1>6. ASSUME NEW t \in Records, t \in Slots(h) PROVE FALSE
  <2>1. t[1] = h /\ t \in Slot
    BY <1>4, <1>5, <1>6 DEF Slots, AtTyped
  <2>2. At(t) = FreeRecord
    BY <1>1, <2>1, SlotFacts, DirArrayFacts DEF At
  <2>. QED BY <2>2 DEF Records
<1>7. op.slot \notin Slots(h)
  <2>1. op.slot \in Slots(op.parent) /\ op.parent \in heads
    BY DEF Sem, ParentHeld, Changes, DirHead
  <2>2. ChainsApart /\ DiskType
    BY SoundFacts DEF Before, Sem
  <2>3. op.slot \in Slots(h) => op.slot[1] \in Chain(h)
    BY <1>5 DEF Slots, AtTyped
  <2>. QED BY <1>1, <1>2, <2>1, <2>2, <2>3, SlotsApart
<1>. QED BY <1>6, <1>7

(* The record of a new file or directory: the operation is complete.       *)
LEMMA WriteNewSem ==
  ASSUME Sem, WriteRecordFacts, op.kind # "move"
  PROVE  Expected /\ Sem'
<1>. DEFINE z == op.slot
            r == op.record
<1>1. /\ Before /\ Done /\ Written(z, r) /\ pc = "record" /\ z # NoSlot /\ r \in Record
      /\ op.kind \in {"put", "mkdir"} /\ Changes /\ ~Changes' /\ pc' = "idle" /\ op' = NoOp
      /\ op.freed => op.kind = "put"
  BY NoOpFacts DEF WriteRecordFacts, Working, Before, StepOf, Done, Changes
<1>2. /\ Records' = Records \cup {z} /\ task = "idle" /\ tail = 0 /\ Expected
      /\ task' = "idle" /\ tail' = 0
  BY <1>1, WrittenSlots, RecordFacts
<1>3. Loose \subseteq {z} /\ Loose' = {}
  BY <1>1, NoOpFacts DEF Loose
<1>4. Held' \subseteq Held \cup {z}
  BY <1>2, <1>3 DEF Held
<1>5. z \in Slots(op.parent) /\ \A t \in Records \cap Slots(op.parent) : At(t).name = r.name => t = z
  BY <1>1 DEF Sem, ParentHeld, Cleared
<1>6. /\ r.first = 0 \/ r.first \in heads \ {RootCluster}
      /\ \A t \in Held : At(t).first = r.first => r.first = 0
  BY <1>1, <1>2 DEF Sem, NewClusters
<1>7. \A t \in Held' : t # z /\ At(t).first = r.first => r.first = 0
  BY <1>4, <1>6
<1>8. r.dir => r.first # 0 /\ \A t \in Records \cup {z} : t \notin Slots(r.first)
  <2>1. SUFFICES ASSUME r.dir
                 PROVE  r.first # 0 /\ \A t \in Records \cup {z} : t \notin Slots(r.first)
    OBVIOUS
  <2>2. op.kind = "mkdir"
    BY <1>1, <2>1 DEF Before, StepOf
  <2>3. op.clusters # << >>
    <3>1. Len(op.clusters) = 1 /\ op.clusters \in Seq(Cluster)
      BY <1>1, <2>2 DEF Sem, NewClusters, Before, Operation
    <3>. QED BY <3>1
  <2>4. r.first \in heads /\ 0 \notin heads
    BY <1>1, <1>2, <2>2, <2>3, ClusterFacts DEF Sem, NewClusters, Before, EditorTyped
  <2>. QED BY <1>1, <1>2, <2>2, <2>4, NewDirectory
<1>9. pc # "zero" /\ pc' # "zero"
  BY <1>1
<1>. HIDE DEF z, r
<1>10. ~torn' /\ EP!Sound' /\ ChainsHeld' /\ NamesApart'
  BY <1>1, <1>4, <1>5, <1>6, <1>7, <1>8, <1>9, PlacedSem
<1>. QED BY <1>1, <1>2, <1>10, IdleSem

LEMMA RenameHereSem ==
  ASSUME Sem, RenameFacts, SameParent, Written(op.from, op.record), Done
  PROVE  Expected /\ Sem'
<1>. DEFINE z == op.from
            r == op.record
<1>1. /\ Before /\ pc = "rename" /\ r \in Record /\ op.kind = "move"
      /\ Changes /\ ~Changes' /\ pc' = "idle" /\ op' = NoOp /\ ~op.freed
  BY NoOpFacts DEF RenameFacts, Working, Before, StepOf, Done, Changes
<1>2. /\ Records' = Records \cup {z} /\ task = "idle" /\ tail = 0 /\ Expected
      /\ task' = "idle" /\ tail' = 0
  BY <1>1, WrittenSlots, RecordFacts
<1>3. Loose = {} /\ Loose' = {}
  BY <1>1, NoOpFacts DEF Loose
<1>4. Held = Records /\ Held' \subseteq Held \cup {z}
  BY <1>2, <1>3 DEF Held
<1>5. op.slot = NoSlot /\ NoSlot \notin Records
  BY <1>1, SlotFacts DEF Sem, Replaced, Records, DirSlot
<1>6. z \in Slots(op.parent) /\ \A t \in Records \cap Slots(op.parent) : At(t).name = r.name => t = z
  BY <1>1, <1>5 DEF Sem, ParentHeld, Cleared, Moving
<1>7. /\ z \in Records => At(z).first = r.first /\ At(z).dir = r.dir
      /\ z \notin Records => r.first = 0 /\ ~r.dir
  BY <1>1 DEF Sem, Moving
<1>8. /\ r.first = 0 \/ r.first \in heads \ {RootCluster}
      /\ r.dir => r.first # 0
      /\ \A t \in Held : t # z /\ At(t).first = r.first => r.first = 0
  BY <1>4, <1>7 DEF Sem, ChainsHeld
<1>9. r.dir => r.first \in Dirs
  BY <1>4, <1>7 DEF Dirs
<1>10. \A t \in Held' : t # z /\ At(t).first = r.first => r.first = 0
  BY <1>4, <1>8
<1>11. pc # "zero" /\ pc' # "zero" /\ Written(z, r)
  BY <1>1
<1>. HIDE DEF z, r
<1>12. ~torn' /\ EP!Sound' /\ ChainsHeld' /\ NamesApart'
  BY <1>1, <1>4, <1>6, <1>8, <1>9, <1>10, <1>11, PlacedSem
<1>. QED BY <1>1, <1>2, <1>12, IdleSem

LEMMA RenameSem ==
  ASSUME Sem, RenameFacts
  PROVE  Expected /\ Sem'
<1>1. CASE SameParent /\ Written(op.from, op.record) /\ Done
  BY <1>1, RenameHereSem
<1>2. CASE pc' = "slot" /\ UNCHANGED <<chainMap, disk, op, state>> /\ (op.targets = {} \/ ~SameParent)
  <2>1. /\ Before /\ pc = "rename" /\ op.kind = "move" /\ Expected /\ ~op.freed
        /\ UNCHANGED <<fat, heads, disk, torn, op, task, visited, tail, written>>
        /\ task' = "idle" /\ tail' = 0 /\ tail = 0
    BY <1>2 DEF RenameFacts, Working, Before, EditorTyped, Expected, chainMap, StepOf
  <2>2. /\ Changes' = Changes /\ Loose' = {} /\ Loose = {}
        /\ \A d : Cleared(d)' \subseteq Cleared(d)
    <3>1. Loose' = {} /\ Loose = {}
      BY <1>2, <2>1 DEF Loose
    <3>2. \A d : Cleared(d)' \subseteq Cleared(d)
      BY <2>1, StillFacts DEF Cleared
    <3>. QED BY <2>1, <3>1, <3>2 DEF Changes
  <2>3. /\ ~torn' /\ EP!Sound' /\ ChainsHeld' /\ NamesApart'
        /\ Held' \subseteq Held /\ Records' = Records
        /\ \A s : At(s)' = At(s)
        /\ \A c : Chain(c)' = Chain(c)
        /\ \A d : Slots(d)' = Slots(d)
    BY <2>1, <2>2, StillSem
  <2>4. NewClusters'
    BY <2>1, <2>3 DEF Sem, NewClusters
  <2>5. ParentHeld'
    BY <1>2, <2>1, <2>2, <2>3 DEF Sem, ParentHeld, DirHead
  <2>6. Replaced' /\ Freeing'
    BY <1>2, <2>1, <2>3 DEF Sem, Replaced, Freeing
  <2>7. Moving'
    <3>1. ~SameParent /\ op.from \in Records
      BY <1>2, <2>1 DEF Sem, Moving
    <3>. QED BY <1>2, <2>1, <2>3, <3>1 DEF Sem, Moving, SameParent, DirHead
  <2>. QED BY <2>1, <2>3, <2>4, <2>5, <2>6, <2>7 DEF Sem
<1>. QED BY <1>1, <1>2 DEF RenameFacts

(* The record of what moves: for a moment two records name its chain.      *)
LEMMA WriteMovedSem ==
  ASSUME Sem, WriteRecordFacts, op.kind = "move"
  PROVE  Expected /\ Sem'
<1>. DEFINE z == op.slot
            r == op.record
<1>1. /\ Before /\ Written(z, r) /\ pc = "record" /\ z # NoSlot /\ r \in Record /\ z \in DirSlot
      /\ Changes /\ Changes' /\ pc' = "unlink" /\ UNCHANGED op /\ ~op.freed
  BY DEF WriteRecordFacts, Working, Before, StepOf, Changes, Written
<1>2. /\ Records' = Records \cup {z} /\ At(z)' = r
      /\ \A s \in Records : s # z => At(s)' = At(s)
      /\ \A d : Chain(d)' = Chain(d) /\ Slots(d)' = Slots(d)
      /\ UNCHANGED <<fat, heads>> /\ task = "idle" /\ tail = 0 /\ Expected
      /\ task' = "idle" /\ tail' = 0
  BY <1>1, WrittenSlots, RecordFacts
<1>3. z \notin Records /\ \A s : s = z => At(s)' = r
  BY <1>1 DEF Sem, Replaced, Records, Written
<1>4. /\ op.from \in Records /\ At(op.from).first = r.first /\ At(op.from).dir = r.dir
      /\ op.from # z /\ ~SameParent /\ op.parent # r.first
  BY <1>1, <1>3 DEF Sem, Moving
<1>5. Loose = {} /\ Loose' = {op.from}
  BY <1>1 DEF Loose
<1>6. Held = Records /\ Held' = (Records \cup {z}) \ {op.from} /\ Held' \subseteq Held \cup {z}
  BY <1>2, <1>5 DEF Held
<1>7. z \in Slots(op.parent) /\ \A t \in Records \cap Slots(op.parent) : At(t).name = r.name => t = z
  BY <1>1 DEF Sem, ParentHeld, Cleared
<1>8. /\ r.first = 0 \/ r.first \in heads \ {RootCluster}
      /\ r.dir => r.first # 0
      /\ \A t \in Held : t # op.from /\ At(t).first = r.first => r.first = 0
  BY <1>4, <1>6 DEF Sem, ChainsHeld
<1>9. r.dir => r.first \in Dirs
  BY <1>4, <1>6 DEF Dirs
<1>10. \A t \in Held' : t # z /\ At(t).first = r.first => r.first = 0
  BY <1>6, <1>8
<1>11. pc # "zero" /\ pc' # "zero"
  BY <1>1
<1>. HIDE DEF z, r
<1>12. ~torn' /\ EP!Sound' /\ ChainsHeld' /\ NamesApart'
  BY <1>1, <1>6, <1>7, <1>8, <1>9, <1>10, <1>11, PlacedSem
<1>13. ASSUME NEW d, DirHead(d), d # r.first PROVE DirHead(d)'
  <2>1. \A s \in Held' : At(s)'.first = d => s \in Held /\ At(s)' = At(s)
    BY <1>2, <1>3, <1>6, <1>13
  <2>2. d \in heads'
    BY <1>2, <1>13 DEF DirHead
  <2>. QED BY <1>13, <2>1, <2>2 DEF DirHead
<1>14. ParentHeld'
  <2>1. PICK d : d = op.parent
    OBVIOUS
  <2>2. DirHead(d)'
    BY <1>1, <1>4, <1>13, <2>1 DEF Sem, ParentHeld
  <2>3. ASSUME NEW s \in Records', s \in Slots(d)', At(s)'.name = r.name PROVE s = z
    <3>1. s # z => s \in Records \cap Slots(d) /\ At(s).name = r.name
      BY <1>2, <2>3
    <3>. QED BY <1>7, <2>1, <3>1
  <2>4. op'.parent = d /\ op'.record = r /\ op'.slot = z
    BY <1>1, <2>1 DEF z, r
  <2>5. z \in Slots(d)'
    BY <1>2, <1>7, <2>1
  <2>. QED BY <1>1, <1>2, <2>2, <2>3, <2>4, <2>5 DEF ParentHeld, Cleared
<1>15. NewClusters' /\ Replaced' /\ Freeing'
  BY <1>1, <1>2 DEF NewClusters, Replaced, Freeing
<1>16. Moving'
  <2>1. op'.from \in Records' /\ At(op.from)' = At(op.from)
    <3>1. PICK f : f = op.from
      OBVIOUS
    <3>2. f \in Records' /\ At(f)' = At(f) /\ op'.from = f
      BY <1>1, <1>2, <1>4, <3>1
    <3>. QED BY <3>1, <3>2
  <2>2. \E d \in heads' \ {r.first} : DirHead(d)' /\ op.from[1] \in Chain(d)'
    <3>1. \E d \in heads \ {r.first} : DirHead(d) /\ op.from[1] \in Chain(d)
      BY DEF Sem, Moving, r
    <3>. QED BY <1>2, <1>13, <3>1
  <2>. QED BY <1>1, <1>2, <1>4, <1>8, <2>1, <2>2 DEF Sem, Moving, SameParent, z, r
<1>. QED BY <1>2, <1>12, <1>14, <1>15, <1>16 DEF Sem

LEMMA WriteRecordSem ==
  ASSUME Sem, WriteRecordFacts
  PROVE  Expected /\ Sem'
BY WriteNewSem, WriteMovedSem

(* A record that is marked free.                                           *)
LEMMA RemovedSem ==
  ASSUME Before, Sem, NEW z, Written(z, FreeRecord), Loose \subseteq {z}, Loose' = {},
         pc # "zero", pc' # "zero", Changes' => Changes /\ op'.parent = op.parent
  PROVE  /\ ~torn' /\ EP!Sound' /\ ChainsHeld' /\ NamesApart'
         /\ Held' \subseteq Held /\ Held' = Records' /\ Records' = Records \ {z}
         /\ \A s \in Records' : At(s)' = At(s)
         /\ \A d : DirHead(d) => DirHead(d)'
         /\ \A d : Cleared(d)' = Cleared(d)
<1>1. /\ Records' = Records \ {z}
      /\ \A s \in Records' : At(s)' = At(s)
      /\ \A d : Slots(d)' = Slots(d)
      /\ UNCHANGED <<heads, torn>> /\ Expected
  BY WrittenSlots
<1>2. Held' = Records' /\ Held' \subseteq Held
  BY <1>1 DEF Held
<1>3. ~torn' /\ EP!Sound'
  BY <1>1, ExpectedSound DEF Before, Sem
<1>4. ChainsHeld'
  BY <1>1, <1>2, FewerChains DEF Sem, ChainsHeld
<1>5. \A d : Cleared(d)' = Cleared(d)
  BY <1>1 DEF Cleared
<1>6. NamesApart'
  <2>1. Dirs' \subseteq Dirs
    BY <1>1, <1>2, FewerDirs DEF Dirs
  <2>. QED BY <1>1, <1>2, <1>5, <2>1, FewerNames DEF Sem
<1>7. \A d : DirHead(d) => DirHead(d)'
  BY <1>1, <1>2 DEF DirHead
<1>. QED BY <1>1, <1>2, <1>3, <1>4, <1>5, <1>6, <1>7

LEMMA UnlinkSem ==
  ASSUME Sem, UnlinkFacts
  PROVE  Expected /\ Sem'
<1>1. /\ Before /\ Done /\ Written(op.from, FreeRecord) /\ pc = "unlink"
      /\ ~Changes' /\ pc' = "idle" /\ op' = NoOp
  BY NoOpFacts DEF UnlinkFacts, Working, Done, Changes
<1>2. Loose \subseteq {op.from} /\ Loose' = {}
  BY <1>1, NoOpFacts DEF Loose
<1>3. /\ Expected /\ task' = "idle" /\ tail' = 0
  BY <1>1, WrittenSlots
<1>4. ~torn' /\ EP!Sound' /\ ChainsHeld' /\ NamesApart'
  BY <1>1, <1>2, RemovedSem
<1>. QED BY <1>1, <1>3, <1>4, IdleSem

-----------------------------------------------------------------------------
(* The undamaged volume: deleting.                                         *)

LEMMA DeleteChildSem ==
  ASSUME Sem, DeleteChildFacts
  PROVE  Expected /\ Sem'
<1>1. /\ Before /\ pc = "delete" /\ op.kind = "delete" /\ Expected /\ ~op.freed /\ ~op'.freed
      /\ UNCHANGED <<fat, heads, disk, torn, pc, task, visited, tail, written>>
      /\ op'.kind = "delete" /\ task' = "idle" /\ tail' = 0 /\ tail = 0
  BY DEF DeleteChildFacts, Working, Before, EditorTyped, Expected, chainMap, StepOf, Stacked
<1>2. ~Changes' /\ Loose' = {} /\ Loose = {} /\ \A d : Cleared(d)' \subseteq Cleared(d)
  <2>1. Loose' = {} /\ Loose = {}
    BY <1>1 DEF Loose
  <2>2. \A d : Cleared(d)' \subseteq Cleared(d)
    BY <1>1, StillFacts DEF Cleared
  <2>. QED BY <1>1, <2>1, <2>2 DEF Changes
<1>3. /\ ~torn' /\ EP!Sound' /\ ChainsHeld' /\ NamesApart'
      /\ Held' \subseteq Held /\ Records' = Records
      /\ \A s : At(s)' = At(s)
      /\ \A c : Chain(c)' = Chain(c)
      /\ \A d : Slots(d)' = Slots(d)
  BY <1>1, <1>2, StillSem
<1>4. NewClusters' /\ ParentHeld' /\ Replaced' /\ Freeing' /\ Moving'
  BY <1>1, <1>2 DEF NewClusters, ParentHeld, Replaced, Freeing, Moving
<1>. QED BY <1>1, <1>3, <1>4 DEF Sem

LEMMA DeleteChainSem ==
  ASSUME Sem, DeleteChainFacts
  PROVE  Expected /\ Sem'
<1>1. /\ Before /\ pc = "delete" /\ pc' = "mark" /\ op.kind \in {"delete", "move"} /\ ~op.freed
      /\ op'.kind = op.kind /\ op'.parent = op.parent /\ op'.record = op.record
      /\ op'.slot = op.slot /\ op'.from = op.from /\ op'.targets = op.targets
      /\ op'.stack = op.stack /\ op'.clusters = op.clusters /\ Top' = Top
      /\ UNCHANGED <<fat, heads, disk, torn, visited, tail, written>>
      /\ task = "idle" /\ visited = {} /\ tail' = 0 /\ tail = 0
  BY DEF DeleteChainFacts, Working, Before, EditorTyped, Sem, Freeing, Stacked, Top,
         EP!BeginFree, chainMap
<1>2. \/ At(Top.slot).first = 0 /\ ~op'.freed /\ task' = "idle" /\ UNCHANGED chainMap
      \/ /\ At(Top.slot).first \in Cluster /\ EP!BeginFree(At(Top.slot).first)
         /\ op'.freed /\ task' = "free" /\ cur' = At(Top.slot).first
  BY <1>1 DEF DeleteChainFacts, Stacked, EP!BeginFree, chainMap
<1>3. Loose = {} /\ Loose' = {} /\ Held = Records
  BY <1>1, <1>2 DEF Loose, Held
<1>4. op'.freed => Top.slot \in Records /\ At(Top.slot).first \in heads \ {RootCluster}
  <2>1. SUFFICES ASSUME op'.freed
                 PROVE  Top.slot \in Records /\ At(Top.slot).first \in heads \ {RootCluster}
    OBVIOUS
  <2>2. Top.slot \in Records /\ At(Top.slot).first # 0
    BY <1>2, <2>1, RecordFacts, ClusterFacts DEF DeleteChainFacts, Records
  <2>. QED BY <1>3, <2>2 DEF Sem, ChainsHeld
<1>5. Expected
  BY <1>2, <1>4 DEF Expected, EP!Next, EP!FreeChain
<1>6. Changes' = Changes /\ \A d : Cleared(d)' \subseteq Cleared(d)
  BY <1>1, StillFacts DEF Changes, Cleared
<1>7. /\ ~torn' /\ EP!Sound' /\ ChainsHeld' /\ NamesApart'
      /\ Held' \subseteq Held /\ Records' = Records
      /\ \A s : At(s)' = At(s)
      /\ \A c : Chain(c)' = Chain(c)
      /\ \A d : Slots(d)' = Slots(d)
  BY <1>1, <1>3, <1>5, <1>6, StillSem
<1>8. NewClusters' /\ Replaced'
  BY <1>1, <1>2, <1>7 DEF Sem, NewClusters, Replaced
<1>9. ParentHeld'
  BY <1>1, <1>2, <1>6, <1>7 DEF Sem, ParentHeld, DirHead
<1>10. Freeing'
  BY <1>1, <1>2, <1>4, <1>7 DEF Freeing
<1>11. Moving'
  BY <1>1, <1>7 DEF Sem, Moving, SameParent, DirHead
<1>. QED BY <1>5, <1>7, <1>8, <1>9, <1>10, <1>11 DEF Sem

LEMMA MarkDeletedSem ==
  ASSUME Sem, MarkDeletedFacts
  PROVE  Expected /\ Sem'
<1>. DEFINE z == Top.slot
<1>1. /\ Before /\ Written(z, FreeRecord) /\ pc = "mark" /\ op.kind \in {"delete", "move"}
  BY DEF MarkDeletedFacts, Working
<1>2. /\ Expected /\ task' = "idle" /\ tail' = 0 /\ task = "idle" /\ UNCHANGED <<fat, heads>>
      /\ \A d : Chain(d)' = Chain(d) /\ Slots(d)' = Slots(d)
  BY <1>1, WrittenSlots
<1>3. Loose \subseteq {z}
  BY <1>1 DEF Loose
<1>4. CASE Done
  <2>1. pc' = "idle" /\ op' = NoOp /\ ~Changes' /\ Loose' = {}
    BY <1>4, NoOpFacts DEF Done, Changes, Loose
  <2>2. ~torn' /\ EP!Sound' /\ ChainsHeld' /\ NamesApart'
    BY <1>1, <1>3, <2>1, RemovedSem
  <2>. QED BY <1>2, <2>1, <2>2, IdleSem
<1>5. CASE /\ op.kind = "move" => Len(op.stack) = 1
           /\ op.kind # "move" => Len(op.stack) > 1
           /\ pc' = IF op.kind = "move" THEN "rename" ELSE "delete"
           /\ Stacked(Parent(op.stack), FALSE) /\ UNCHANGED state
  <2>1. /\ op'.kind = op.kind /\ op'.parent = op.parent /\ op'.record = op.record
        /\ op'.slot = op.slot /\ op'.from = op.from /\ op'.targets = op.targets /\ ~op'.freed
        /\ pc' \in {"rename", "delete"} /\ (op.kind = "move" <=> pc' = "rename")
    BY <1>1, <1>5 DEF Stacked
  <2>2. Loose' = {} /\ Changes' = Changes
    BY <2>1 DEF Loose, Changes
  <2>3. /\ ~torn' /\ EP!Sound' /\ ChainsHeld' /\ NamesApart'
        /\ Held' \subseteq Held /\ Held' = Records' /\ Records' = Records \ {z}
        /\ \A s \in Records' : At(s)' = At(s)
        /\ \A d : DirHead(d) => DirHead(d)'
        /\ \A d : Cleared(d)' = Cleared(d)
    BY <1>1, <1>3, <2>1, <2>2, RemovedSem
  <2>4. NewClusters' /\ Freeing'
    BY <1>1, <1>2, <2>1 DEF NewClusters, Freeing
  <2>5. op.kind = "move" => op.slot = NoSlot
    BY <1>1 DEF Sem, Replaced
  <2>6. Replaced'
    BY <1>1, <2>1, <2>5 DEF Replaced
  <2>7. ParentHeld'
    <3>1. SUFFICES ASSUME op.kind = "move" PROVE ParentHeld'
      BY <1>1, <1>2, <2>1 DEF ParentHeld, Changes
    <3>2. PICK d : d = op.parent
      OBVIOUS
    <3>3. DirHead(d)'
      BY <2>3, <3>1, <3>2 DEF Sem, ParentHeld, Changes
    <3>4. ASSUME NEW s \in Records', s \in Cleared(d)', At(s)'.name = op.record.name
          PROVE  s = op.slot
      BY <1>1, <2>3, <3>1, <3>2, <3>4 DEF Sem, ParentHeld, Changes
    <3>. QED BY <1>2, <2>1, <2>5, <3>1, <3>2, <3>3, <3>4 DEF ParentHeld
  <2>8. Moving'
    <3>1. SUFFICES ASSUME op.kind = "move" PROVE Moving'
      BY <2>1 DEF Moving
    <3>2. PICK f : f = op.from
      OBVIOUS
    <3>3. /\ f \in Records /\ At(f).first = op.record.first /\ At(f).dir = op.record.dir
          /\ f = z => op.record.first = 0 /\ ~op.record.dir /\ SameParent
          /\ op.record.dir => op.record.first # 0
          /\ op.parent # op.record.first /\ op.targets # {}
          /\ SameParent => f \in Slots(op.parent)
      BY <1>1, <3>1, <3>2 DEF Sem, Moving
    <3>4. f \in Records' => At(f)' = At(f)
      BY <2>3
    <3>5. PICK d : d = op.parent
      OBVIOUS
    <3>6. SameParent' = SameParent /\ (SameParent => f \in Slots(d)')
      BY <1>2, <2>1, <3>3, <3>5 DEF SameParent
    <3>7. \E e \in heads' \ {op.record.first} : DirHead(e)' /\ f[1] \in Chain(e)'
      BY <1>1, <1>2, <2>3, <3>1, <3>2 DEF Sem, Moving
    <3>8. IF f \in Records'
          THEN At(f)'.first = op.record.first /\ At(f)'.dir = op.record.dir
          ELSE op.record.first = 0 /\ ~op.record.dir
      BY <2>3, <3>3, <3>4
    <3>9. f \in Records' \/ SameParent
      BY <2>3, <3>3
    <3>. HIDE DEF z
    <3>. QED BY <2>1, <3>1, <3>2, <3>3, <3>5, <3>6, <3>7, <3>8, <3>9 DEF Moving
  <2>. QED BY <1>2, <2>3, <2>4, <2>6, <2>7, <2>8 DEF Sem
<1>. QED BY <1>4, <1>5 DEF MarkDeletedFacts

-----------------------------------------------------------------------------
(* The undamaged volume: together.                                         *)

LEMMA SemInit == Init => Sem
<1>. SUFFICES ASSUME Init PROVE Sem
  OBVIOUS
<1>1. EP!Init
  BY Zenon DEF Init, Editor!Init, EP!Init, Editor!Idle, EP!Idle, Editor!Cluster, EP!Cluster,
     Editor!FREE, EP!FREE
<1>2. EP!IInv
  BY <1>1, EP!IInvInit, VolumeAssumption
     DEF EP!ClusterAssumption, EP!RootAssumption, EP!EndAssumption, EP!BadAssumption,
         EP!ChainAssumption
<1>3. ~torn /\ EP!Sound /\ task = "idle" /\ tail = 0 /\ heads = {RootCluster}
  BY <1>1, <1>2 DEF EP!IInv, EP!Init, EP!Idle
<1>4. Records = {}
  <2>1. \A s \in DirSlot : At(s) = FreeRecord
    BY SlotFacts, DirArrayFacts DEF DirSlot, At, Init
  <2>. QED BY <2>1 DEF Records
<1>5. op = NoOp /\ pc = "idle" /\ op.kind = "none" /\ op.slot = NoSlot /\ ~op.freed /\ ~Changes
  BY NoOpFacts DEF Init, Changes
<1>6. Held = {}
  BY <1>4 DEF Held
<1>7. ChainsHeld /\ NamesApart
  BY <1>3, <1>6 DEF ChainsHeld, NamesApart
<1>8. NewClusters /\ ParentHeld /\ Replaced /\ Freeing /\ Moving
  BY <1>3, <1>5 DEF NewClusters, ParentHeld, Replaced, Freeing, Moving
<1>. QED BY <1>3, <1>7, <1>8 DEF Sem

LEMMA StutterSem ==
  ASSUME TypeInv, Sem, UNCHANGED vars
  PROVE  Expected /\ Sem'
<1>1. /\ Before /\ Expected
      /\ UNCHANGED <<fat, heads, disk, torn, op, pc, task, got, cur, visited, tail, written>>
  BY BeforeStep DEF Expected, chainMap, vars, service
<1>2. /\ Changes' = Changes /\ Loose' = Loose /\ Top' = Top /\ SameParent' = SameParent
      /\ \A d : Cleared(d)' \subseteq Cleared(d)
  <2>1. Loose' = Loose
    BY <1>1 DEF Loose, Top
  <2>2. \A d : Cleared(d)' \subseteq Cleared(d)
    BY <1>1, StillFacts DEF Cleared
  <2>. QED BY <1>1, <2>1, <2>2 DEF Changes, Top, SameParent
<1>3. /\ ~torn' /\ EP!Sound' /\ ChainsHeld' /\ NamesApart'
      /\ Held' \subseteq Held /\ Records' = Records
      /\ \A s : At(s)' = At(s)
      /\ \A c : Chain(c)' = Chain(c)
      /\ \A d : Slots(d)' = Slots(d)
  BY <1>1, <1>2, StillSem
<1>4. NewClusters'
  BY <1>1, <1>3 DEF Sem, NewClusters
<1>5. ParentHeld'
  BY <1>1, <1>2, <1>3 DEF Sem, ParentHeld, DirHead
<1>6. Replaced' /\ Freeing'
  BY <1>1, <1>2, <1>3 DEF Sem, Replaced, Freeing
<1>7. Moving'
  BY <1>1, <1>2, <1>3 DEF Sem, Moving, DirHead
<1>. QED BY <1>1, <1>3, <1>4, <1>5, <1>6, <1>7 DEF Sem

LEMMA ServiceSem ==
  ASSUME IInv, Sem, ServiceStep, state' # "hurt"
  PROVE  Expected /\ Sem'
<1>1. TypeInv /\ Before
  BY BeforeStep DEF IInv
<1>2. CASE Allocate
  <2>1. Working /\ pc = "alloc" /\ task = "idle"
    BY <1>1, <1>2 DEF Allocate, Working
  <2>. QED BY <1>1, <1>2, <2>1, AllocateStep, EmptySem, AllocateSem, RefusedSem
<1>3. CASE WriteData
  <2>1. task = "idle"
    BY <1>3 DEF WriteData
  <2>. QED BY <1>1, <1>3, <2>1, WriteDataStep, WriteDataSem, RefusedSem
<1>4. CASE WritableRecord
  BY <1>1, <1>4, WritableRecordStep, WritableRecordSem
<1>5. CASE ClearAppended
  <2>1. task = "idle"
    BY <1>5 DEF ClearAppended
  <2>. QED BY <1>1, <1>5, <2>1, ClearAppendedStep, ClearAppendedSem, RefusedSem
<1>6. CASE WriteRecord
  BY <1>1, <1>6, WriteRecordStep, WriteRecordSem
<1>7. CASE DeleteChild
  <2>1. task = "idle"
    BY <1>7 DEF DeleteChild
  <2>. QED BY <1>1, <1>7, <2>1, DeleteChildStep, DeleteChildSem, RefusedSem
<1>8. CASE DeleteChain
  BY <1>1, <1>8, DeleteChainStep, DeleteChainSem
<1>9. CASE MarkDeleted
  BY <1>1, <1>9, MarkDeletedStep, MarkDeletedSem
<1>10. CASE Rename
  BY <1>1, <1>10, RenameStep, RenameSem
<1>11. CASE Unlink
  BY <1>1, <1>11, UnlinkStep, UnlinkSem
<1>. QED BY <1>2, <1>3, <1>4, <1>5, <1>6, <1>7, <1>8, <1>9, <1>10, <1>11 DEF ServiceStep

LEMMA EditorSem ==
  ASSUME TypeInv, Sem, EditorStep, state' # "hurt"
  PROVE  Expected /\ Sem'
<1>1. Working /\ UNCHANGED disk
  BY EditorCases
<1>2. CASE Alone /\ EP!AllocateLink
  BY <1>2, AllocateLinkSem
<1>3. CASE Alone /\ EP!AllocateEnd
  <2>1. EP!TypeInv'
    BY <1>3, TypeFacts, EditorTypes DEF EP!EditorStep
  <2>. QED BY <1>3, <2>1, AllocateEndSem
<1>4. CASE Alone /\ EP!WalkNext
  BY <1>4, WalkNextSem
<1>5. CASE Alone /\ EP!WalkEnd /\ EP!FreeClusters # {}
  BY <1>5, WalkEndSem
<1>6. CASE Alone /\ EP!FreeStep
  BY <1>6, FreeStepSem
<1>7. CASE /\ EP!AppendLink /\ pc' = "zero" /\ UNCHANGED state
           /\ got[1] \in Cluster /\ Chosen(FirstSlot(got[1]))
  BY <1>1, <1>7, AppendLinkSem
<1>8. CASE EP!WalkEnd /\ EP!FreeClusters = {} /\ Stop
  BY <1>1, <1>8, FullSem
<1>. QED BY <1>2, <1>3, <1>4, <1>5, <1>6, <1>7, <1>8, EditorCases

(* A damaged volume stays damaged.                                         *)
LEMMA StateSteps ==
  ASSUME [Next]_vars
  PROVE  /\ state = "hurt" => state' = "hurt"
         /\ state' = "clean" => state = "clean"
<1>1. UNCHANGED vars => UNCHANGED state
  BY DEF vars, service
<1>2. Stop => (state = "hurt" => state' = "hurt") /\ (state' = "clean" => state = "clean")
  BY DEF Stop
<1>3. Done => UNCHANGED state
  BY DEF Done
<1>4. ServiceStep => UNCHANGED state \/ Stop \/ Done
  BY DEF ServiceStep, Allocate, WriteData, WritableRecord, ClearAppended, WriteRecord,
         DeleteChild, DeleteChain, MarkDeleted, Rename, Unlink
<1>5. EditorStep \/ Interrupt => UNCHANGED state \/ Stop
  BY DEF EditorStep, Interrupt
<1>6. ASSUME NEW p, NEW q, NEW overwrite, Move(p, q, overwrite)
      PROVE  state # "hurt" /\ state' \in {state, "hurt"}
  <2>1. PICK s \in Lookup(p) :
          state' = IF (p = q /\ At(s).first # 0) \/ (At(s).dir /\ IsPrefix(p, q))
                   THEN "hurt" ELSE state
    BY <1>6 DEF Move
  <2>. QED BY <1>6, <2>1 DEF Move, Ready
<1>. QED BY <1>1, <1>2, <1>3, <1>4, <1>5, <1>6
         DEF Next, PutFile, CreateDirectory, Delete, Ready

LEMMA SemNext ==
  ASSUME IInv, [Next]_vars, state' # "hurt"
  PROVE  Sem /\ Expected /\ Sem'
<1>1. TypeInv /\ Sem
  BY StateSteps DEF IInv
<1>2. ASSUME NEW p \in Path \ {<< >>}, NEW size \in 0 .. MaxChain, NEW content \in Payload,
             PutFile(p, size, content)
      PROVE  Expected /\ Sem'
  BY <1>1, <1>2, PutFileStep, PutFileSem
<1>3. ASSUME NEW p \in Path \ {<< >>}, CreateDirectory(p) PROVE Expected /\ Sem'
  BY <1>1, <1>3, CreateDirectoryStep, CreateDirectorySem
<1>4. ASSUME NEW p \in Path \ {<< >>}, NEW recursive \in BOOLEAN, Delete(p, recursive)
      PROVE  Expected /\ Sem'
  <2>1. DeleteFacts(p)
    BY <1>1, <1>4, DeleteStep
  <2>2. p \in Seq(Name) /\ p # << >> /\ Parent(p) \in Seq(Name)
    BY PathSequences, ParentFacts
  <2>3. Directory(Parent(p)) # 0
    BY <1>4 DEF Delete
  <2>. QED BY <1>1, <2>1, <2>2, <2>3, DeleteSem
<1>5. ASSUME NEW p \in Path \ {<< >>}, NEW q \in Path \ {<< >>}, NEW overwrite \in BOOLEAN,
             Move(p, q, overwrite)
      PROVE  Expected /\ Sem'
  BY <1>1, <1>5, MoveStep, MoveSem
<1>6. CASE ServiceStep
  BY <1>1, <1>6, ServiceSem
<1>7. CASE EditorStep
  BY <1>1, <1>7, EditorSem
<1>8. CASE Interrupt
  BY <1>1, <1>8, InterruptSem
<1>9. CASE UNCHANGED vars
  BY <1>1, <1>9, StutterSem
<1>10. Expected /\ Sem'
  BY <1>2, <1>3, <1>4, <1>5, <1>6, <1>7, <1>8, <1>9 DEF Next
<1>. QED BY <1>1, <1>10

LEMMA IInvInit == Init => IInv
BY TypeInvInit, SemInit DEF IInv

LEMMA IInvNext == IInv /\ [Next]_vars => IInv'
BY TypeInvNext, SemNext DEF IInv

LEMMA IInvAlways == Spec => []IInv
BY IInvInit, IInvNext, PTL DEF Spec

-----------------------------------------------------------------------------
(* What follows for every volume and every history of it.                  *)

(* Every state is well formed, a damaged volume included: the service only *)
(* ever writes records and contents of files to the clusters of the volume *)
(* (FatxMutationService.cs:24-188).                                        *)
THEOREM TypeCorrect == Spec => []TypeOK
<1>1. IInv => TypeOK
  BY DEF IInv, TypeInv
<1>. QED BY <1>1, IInvAlways, PTL

LEMMA SameEditor == EP!Next => Editor!Next
<1>1. \A h : EP!AppendCluster(h) => Editor!AppendCluster(h)
  BY EditorSteps DEF EP!AppendCluster, Editor!AppendCluster
<1>2. \A h : EP!FreeChain(h) => Editor!FreeChain(h)
  BY EditorSteps DEF EP!FreeChain, Editor!FreeChain
<1>3. EP!ThrowCorrupt => Editor!ThrowCorrupt
  BY Zenon DEF EP!ThrowCorrupt, Editor!ThrowCorrupt, EP!ChainCorrupt, Editor!ChainCorrupt,
     EP!Rest, Editor!Rest, EP!Cluster, Editor!Cluster
<1>4. EP!EditorStep => Editor!EditorStep
  BY EditorSteps, <1>3, Zenon DEF EP!EditorStep, Editor!EditorStep
<1>. QED BY <1>1, <1>2, <1>4, EditorSteps, Zenon DEF EP!Next, Editor!Next

(* Up to the first damage every step of the service is a step of the chain *)
(* map editor under the assumptions FatxAllocation makes of its callers,   *)
(* so that what is proved there holds of this volume                       *)
(* (FatxMutationService.cs:48, 118, 123; FatxDirectoryEditor.cs:122).      *)
THEOREM ContractTheorem == Spec => ContractKept
<1>1. IInv /\ [Next]_vars => [state' # "hurt" => [Editor!Next]_chainMap]_vars
  BY SemNext, SameEditor DEF Expected
<1>2. Spec => [][state' # "hurt" => [Editor!Next]_chainMap]_vars
  BY <1>1, IInvAlways, PTL DEF Spec
<1>. QED BY <1>2 DEF ContractKept

LEMMA LiveFacts ==
  ASSUME TypeInv, Sem, pc = "idle"
  PROVE  /\ LiveSlots \subseteq Held /\ Directories \subseteq Dirs
         /\ ChainsApart /\ DiskType
<1>1. Before /\ DiskType /\ Held = Records
  BY BeforeStep, ReadyFacts DEF Before
<1>2. LiveSlots \subseteq Held
  BY <1>1, AtFacts DEF LiveSlots, Entries, Records, Slots, AtTyped
<1>3. Directories \subseteq Dirs
  BY ReadyFacts, PathSequences DEF Directories
<1>. QED BY <1>1, <1>2, <1>3, SoundFacts DEF Sem

(* A chain of the volume does not run into free clusters.                  *)
LEMMA UsedChains ==
  ASSUME TypeInv, Sem, pc = "idle", NEW h \in heads
  PROVE  \A c \in Chain(h) : c \in Cluster /\ fat[c] # 0
<1>. DEFINE S == {c \in Cluster : fat[c] # 0}
<1>1. ChainsApart /\ DOMAIN fat = Cluster /\ IsFiniteSet(DOMAIN fat)
  BY LiveFacts, ClusterFacts DEF DiskType
<1>2. \A c \in S \cap Cluster : fat[c] \in DOMAIN fat => fat[c] \in S
  BY <1>1, ReadyFacts DEF Sem, EP!Sound, EP!Links, EP!Cluster, EP!FREE, Cluster
<1>3. h \in S
  BY <1>1 DEF ChainsApart
<1>. HIDE DEF S
<1>4. Reach(fat, h, Cluster) \subseteq S
  BY <1>1, <1>2, <1>3, ReachLeast
<1>. QED BY <1>4 DEF Chain, S

(* Between operations no two records of an undamaged volume share a        *)
(* cluster, and no chain runs into free space or into the root directory   *)
(* (FatxMutationService.cs:48, 118, 123).                                  *)
THEOREM ExclusiveTheorem == Spec => []ChainsExclusive
<1>1. ASSUME TypeInv, Sem, pc = "idle" PROVE ChainsExclusive
  <2>1. LiveSlots \subseteq Held /\ ChainsApart /\ DiskType /\ DOMAIN fat = Cluster
    BY <1>1, LiveFacts DEF DiskType
  <2>2. Chain(0) = {}
    BY <2>1, ChainFacts DEF ChainsRead
  <2>3. \A h \in heads : \A c \in Chain(h) : fat[c] # 0
    BY <1>1, UsedChains
  <2>4. \A s \in LiveSlots : At(s).first = 0 \/ At(s).first \in heads \ {RootCluster}
    BY <1>1, <2>1 DEF Sem, ChainsHeld
  <2>5. RootCluster \in heads
    BY <1>1 DEF Sem, ChainsHeld
  <2>6. ASSUME NEW s \in LiveSlots
        PROVE  /\ \A c \in Chain(At(s).first) : fat[c] # 0
               /\ Chain(At(s).first) \cap Chain(RootCluster) = {}
    BY <2>1, <2>2, <2>3, <2>4, <2>5 DEF ChainsApart
  <2>7. ASSUME NEW s \in LiveSlots, NEW t \in LiveSlots \ {s}
        PROVE  Chain(At(s).first) \cap Chain(At(t).first) = {}
    <3>1. At(s).first = At(t).first => At(s).first = 0
      BY <1>1, <2>1 DEF Sem, ChainsHeld
    <3>2. CASE At(s).first = 0 \/ At(t).first = 0
      BY <2>2, <3>2
    <3>3. CASE At(s).first # 0 /\ At(t).first # 0
      BY <2>1, <2>4, <3>1, <3>3 DEF ChainsApart
    <3>. QED BY <3>2, <3>3
  <2>. QED BY <2>6, <2>7 DEF ChainsExclusive, Editor!FREE
<1>2. IInv => ChainsExclusive
  BY <1>1 DEF IInv, ChainsExclusive, Quiet
<1>. QED BY <1>2, IInvAlways, PTL

(* Between operations a path of an undamaged volume names at most one      *)
(* record, the new cluster of a grown directory included                   *)
(* (FatxDirectoryEditor.cs:101-105, 122-126).                              *)
THEOREM UniqueTheorem == Spec => []NamesUnique
<1>1. ASSUME TypeInv, Sem, pc = "idle" PROVE NamesUnique
  <2>1. ASSUME NEW d \in Directories, NEW n \in Name PROVE Cardinality(FindEntry(d, n)) <= 1
    <3>1. /\ d \in Dirs /\ DiskType /\ Held = Records /\ Cleared(d) = Slots(d)
      BY <1>1, LiveFacts, ReadyFacts
    <3>2. FindEntry(d, n) \subseteq Held \cap Cleared(d)
      BY <3>1, AtFacts DEF FindEntry, Slots, AtTyped
    <3>3. \A s, t \in FindEntry(d, n) : s = t
      BY <1>1, <3>1, <3>2 DEF Sem, NamesApart, FindEntry
    <3>4. CASE FindEntry(d, n) = {}
      BY <3>4, FS_EmptySet
    <3>5. CASE FindEntry(d, n) # {}
      <4>1. PICK s : FindEntry(d, n) = {s}
        BY <3>3, <3>5
      <4>2. Cardinality({s}) = 1
        BY FS_Singleton
      <4>. QED BY <4>1, <4>2
    <3>. QED BY <3>4, <3>5
  <2>. QED BY <2>1 DEF NamesUnique
<1>2. IInv => NamesUnique
  BY <1>1 DEF IInv, NamesUnique, Quiet
<1>. QED BY <1>2, IInvAlways, PTL

(* What moves, and where a move may write.                                 *)
LEMMA MovedFacts ==
  ASSUME Before, Sem, op.kind = "move", op.record.first # 0
  PROVE  /\ op.record.first \in heads /\ op.parent \in heads /\ ChainsApart /\ AtTyped
         /\ \A c \in Chain(op.parent) : c \notin Chain(op.record.first)
         /\ op.from[1] \notin Chain(op.record.first)
         /\ op.slot # NoSlot /\ pc # "zero" => op.slot[1] \notin Chain(op.record.first)
         /\ pc \in {"delete", "mark"} =>
              Top.slot # op.from /\ Top.slot[1] \notin Chain(op.record.first)
<1>1. ChainsApart /\ AtTyped /\ Changes
  BY SoundFacts, AtFacts DEF Sem, Before, Changes
<1>2. op.from \in Records /\ At(op.from).first = op.record.first /\ op.parent # op.record.first
  BY DEF Sem, Moving
<1>3. pc \in {"delete", "mark"} => Top.slot # op.from /\ Top.slot \in Slots(op.parent)
  BY DEF Sem, Moving
<1>4. op.record.first \in heads
  <2>1. CASE pc = "unlink"
    <3>1. At(op.slot) = op.record /\ op.slot # op.from /\ op.slot \in DirSlot
          /\ op.record # FreeRecord
      BY <2>1 DEF Sem, Moving, Before, SlotOf, StepOf
    <3>2. op.slot \in Held
      BY <2>1, <3>1 DEF Held, Loose, Records
    <3>. QED BY <3>1, <3>2 DEF Sem, ChainsHeld
  <2>2. CASE pc # "unlink"
    <3>1. op.freed => pc = "mark"
      BY DEF Before, StepOf
    <3>2. op.from \in Held
      BY <1>2, <1>3, <2>2, <3>1 DEF Held, Loose
    <3>. QED BY <1>2, <3>2 DEF Sem, ChainsHeld
  <2>. QED BY <2>1, <2>2
<1>5. op.parent \in heads
  BY <1>1 DEF Sem, ParentHeld, DirHead
<1>6. \A c \in Chain(op.parent) : c \notin Chain(op.record.first)
  BY <1>1, <1>2, <1>4, <1>5 DEF ChainsApart
<1>7. op.from[1] \notin Chain(op.record.first)
  <2>1. PICK d \in heads \ {op.record.first} : op.from[1] \in Chain(d)
    BY DEF Sem, Moving
  <2>. QED BY <1>1, <1>4, <2>1 DEF ChainsApart
<1>8. \A s \in Slots(op.parent) : s[1] \in Chain(op.parent)
  BY <1>1 DEF Slots, AtTyped
<1>9. op.slot # NoSlot /\ pc # "zero" => op.slot \in Slots(op.parent)
  BY <1>1 DEF Sem, ParentHeld
<1>. QED BY <1>1, <1>3, <1>4, <1>5, <1>6, <1>7, <1>8, <1>9

(* The editor leaves the chain of what moves alone.                        *)
LEMMA MovedLinks ==
  ASSUME TypeInv, Sem, EditorStep, op.kind = "move", op.record.first # 0,
         NEW c \in Chain(op.record.first)
  PROVE  fat'[c] = fat[c]
<1>1. /\ Before /\ Working /\ DOMAIN fat = Cluster /\ c \in Cluster
  BY BeforeStep, EditorCases, ChainFacts DEF Before, DiskType, ChainsRead
<1>2. op.record.first \in heads
  BY <1>1, MovedFacts
<1>3. CASE EP!AllocateLink \/ EP!AllocateEnd
  <2>1. task = "alloc" /\ written + 1 \in DOMAIN got /\ written + 1 <= written + 1
    BY <1>1, <1>3 DEF EP!AllocateLink, EP!AllocateEnd, Before, EditorTyped, EP!TypeInv, EP!Progress
  <2>2. got[written + 1] # c
    BY <1>1, <1>2, <2>1, BuildApart
  <2>. QED BY <1>1, <1>3, <2>2 DEF EP!AllocateLink, EP!AllocateEnd
<1>4. CASE EP!AppendLink
  <2>1. tail \in Chain(op.parent)
    BY <1>1, <1>4 DEF Sem, ParentHeld, EP!AppendLink, Before, EditorTyped
  <2>2. tail # c
    BY <1>1, <2>1, MovedFacts
  <2>. QED BY <1>1, <1>4, <2>2 DEF EP!AppendLink
<1>5. CASE EP!FreeStep
  <2>1. /\ task = "free" /\ fat' = [fat EXCEPT ![cur] = EP!FREE] /\ op.freed /\ pc = "mark"
    BY <1>1, <1>5 DEF EP!FreeStep, Before, TaskOf, StepOf
  <2>2. ChainsApart /\ Source(fat, cur)
    BY <1>1, <2>1, SoundFacts DEF Sem, EP!Sound, EP!FreePath, EP!Cluster, Cluster, Source, Before,
       DiskType
  <2>3. cur # op.record.first
    <3>1. CASE visited = {}
      <4>1. Top.slot \in Records /\ At(Top.slot).first = cur /\ Top.slot # op.from
        BY <1>1, <2>1, <3>1, MovedFacts DEF Sem, Freeing
      <4>2. op.from \in Records /\ At(op.from).first = op.record.first
        BY <2>1 DEF Sem, Moving
      <4>3. Held = Records
        BY <2>1, <3>1 DEF Held, Loose
      <4>. QED BY <4>1, <4>2, <4>3 DEF Sem, ChainsHeld
    <3>2. CASE visited # {}
      BY <1>2, <2>1, <3>2 DEF Sem, Freeing
    <3>. QED BY <3>1, <3>2
  <2>4. cur # c
    <3>. DEFINE G == {cur}
    <3>1. \A g \in G : Source(fat, g) \/ \E b \in G \cap Cluster : fat[b] = g
      BY <2>2
    <3>2. op.record.first \notin G
      BY <2>3
    <3>3. Chain(op.record.first) \cap G = {}
      BY <2>2, <3>1, <3>2, ChainAvoids
    <3>. QED BY <3>3
  <2>. QED BY <1>1, <2>1, <2>4
<1>6. CASE EP!WalkNext \/ EP!WalkEnd
  BY <1>6 DEF EP!WalkNext, EP!WalkEnd
<1>. QED BY <1>3, <1>4, <1>5, <1>6, EditorCases

(* The service writes to other clusters.                                   *)
LEMMA MovedContents ==
  ASSUME TypeInv, Sem, Next, op.kind = "move", op.record.first # 0,
         NEW c \in Chain(op.record.first)
  PROVE  disk'[c] = disk[c] /\ (UNCHANGED fat \/ EditorStep)
<1>1. /\ Before /\ pc # "idle" /\ DOMAIN fat = Cluster /\ c \in Cluster /\ ~Ready
  <2>1. Before
    BY BeforeStep
  <2>2. pc # "idle"
    BY <2>1, NoOpFacts DEF Before
  <2>. QED BY <2>1, <2>2, ChainFacts DEF Before, DiskType, ChainsRead, Ready
<1>2. pc \notin {"alloc", "data"}
  BY <1>1 DEF Before, StepOf
<1>3. ASSUME NEW z, NEW r, Written(z, r), z[1] \notin Chain(op.record.first)
      PROVE  disk'[c] = disk[c] /\ UNCHANGED fat
  BY <1>1, <1>3 DEF Written, chainMap
<1>4. CASE ServiceStep
  <2>1. CASE Allocate \/ WriteData
    BY <1>2, <2>1 DEF Allocate, WriteData
  <2>2. CASE WritableRecord
    BY <2>2 DEF WritableRecord, chainMap, Editor!BeginAppend
  <2>3. CASE ClearAppended
    <3>1. op.slot[1] \in Chain(op.parent)
      BY <2>3 DEF ClearAppended, Sem, ParentHeld
    <3>2. op.slot[1] # c
      BY <1>1, <3>1, MovedFacts
    <3>3. UNCHANGED <<chainMap, disk>> \/ ClearAppendedFacts
      BY <2>3, ClearAppendedStep
    <3>. QED BY <1>1, <3>2, <3>3 DEF ClearAppendedFacts, chainMap
  <2>4. CASE WriteRecord
    <3>1. WriteRecordFacts
      BY <2>4, WriteRecordStep
    <3>2. op.slot[1] \notin Chain(op.record.first)
      BY <1>1, <3>1, MovedFacts DEF WriteRecordFacts
    <3>. QED BY <1>3, <3>1, <3>2 DEF WriteRecordFacts
  <2>5. CASE DeleteChild
    BY <2>5 DEF DeleteChild, chainMap
  <2>6. CASE DeleteChain
    BY <2>6 DEF DeleteChain, chainMap, Editor!BeginFree
  <2>7. CASE MarkDeleted
    <3>1. MarkDeletedFacts
      BY <2>7, MarkDeletedStep
    <3>2. Top.slot[1] \notin Chain(op.record.first)
      BY <1>1, <3>1, MovedFacts DEF MarkDeletedFacts
    <3>. QED BY <1>3, <3>1, <3>2 DEF MarkDeletedFacts
  <2>8. CASE Rename
    <3>1. RenameFacts
      BY <2>8, RenameStep
    <3>2. op.from[1] \notin Chain(op.record.first)
      BY <1>1, MovedFacts
    <3>. QED BY <1>3, <3>1, <3>2 DEF RenameFacts, chainMap
  <2>9. CASE Unlink
    <3>1. UnlinkFacts
      BY <2>9, UnlinkStep
    <3>2. op.from[1] \notin Chain(op.record.first)
      BY <1>1, MovedFacts
    <3>. QED BY <1>3, <3>1, <3>2 DEF UnlinkFacts
  <2>. QED BY <1>4, <2>1, <2>2, <2>3, <2>4, <2>5, <2>6, <2>7, <2>8, <2>9 DEF ServiceStep
<1>5. CASE EditorStep
  BY <1>5 DEF EditorStep
<1>6. CASE Interrupt
  BY <1>6 DEF Interrupt, Editor!Interrupt, chainMap
<1>. QED BY <1>1, <1>4, <1>5, <1>6 DEF Next, PutFile, CreateDirectory, Delete, Move

(* A move never writes to the clusters of what it moves, nor to their      *)
(* links, and when it is over one record has the chain: the new one        *)
(* (FatxMutationService.cs:173-181).                                       *)
THEOREM MoveTheorem == Spec => MoveKeepsChain
<1>. DEFINE Kept == op.kind = "move" /\ state # "hurt" =>
       /\ \A c \in Chain(op.record.first) : fat'[c] = fat[c] /\ disk'[c] = disk[c]
       /\ Unlink => {s \in LiveSlots' : At(s)'.first = op.record.first /\ op.record.first # 0}
                      \subseteq {op.slot}
<1>1. ASSUME IInv, IInv', Next PROVE Kept
  <2>1. SUFFICES ASSUME op.kind = "move", state # "hurt"
                 PROVE  /\ \A c \in Chain(op.record.first) : fat'[c] = fat[c] /\ disk'[c] = disk[c]
                        /\ Unlink => {s \in LiveSlots' : At(s)'.first = op.record.first
                                                          /\ op.record.first # 0} \subseteq {op.slot}
    OBVIOUS
  <2>2. TypeInv /\ Sem /\ Before
    BY <1>1, <2>1, BeforeStep DEF IInv
  <2>3. ASSUME NEW c \in Chain(op.record.first) PROVE fat'[c] = fat[c] /\ disk'[c] = disk[c]
    <3>1. op.record.first # 0
      BY <2>2, <2>3, ChainFacts DEF ChainsRead, Before, DiskType
    <3>2. disk'[c] = disk[c] /\ (UNCHANGED fat \/ EditorStep)
      BY <1>1, <2>1, <2>2, <3>1, MovedContents
    <3>3. EditorStep => fat'[c] = fat[c]
      BY <2>1, <2>2, <3>1, MovedLinks
    <3>. QED BY <3>2, <3>3
  <2>4. ASSUME Unlink, NEW s \in LiveSlots', At(s)'.first = op.record.first, op.record.first # 0
        PROVE  s = op.slot
    <3>1. UnlinkFacts /\ pc = "unlink" /\ Written(op.from, FreeRecord)
      BY <2>2, <2>4, UnlinkStep DEF UnlinkFacts
    <3>2. Records' = Records \ {op.from} /\ \A t \in Records' : At(t)' = At(t)
      BY <2>2, <3>1, WrittenSlots
    <3>3. Held = Records \ {op.from}
      BY <3>1 DEF Held, Loose
    <3>4. s \in Records'
      <4>1. AtTyped'
        <5>1. DiskType'
          BY <2>2, <3>1, WrittenSlots DEF Written, DiskType, Before
        <5>. QED BY <5>1, AtFacts, PTL
      <4>. QED BY <2>4, <4>1 DEF LiveSlots, Entries, Records, Slots, AtTyped
    <3>5. op.slot \in Held /\ At(op.slot).first = op.record.first
      <4>1. At(op.slot) = op.record /\ op.slot # op.from /\ op.slot \in DirSlot
            /\ op.record # FreeRecord
        BY <2>1, <2>2, <3>1 DEF Sem, Moving, Before, SlotOf, StepOf
      <4>. QED BY <3>3, <4>1 DEF Records
    <3>6. s \in Held /\ At(s).first = op.record.first
      BY <2>4, <3>2, <3>3, <3>4
    <3>. QED BY <2>2, <2>4, <3>5, <3>6 DEF Sem, ChainsHeld
  <2>. QED BY <2>3, <2>4
<1>2. IInv /\ IInv' /\ [Next]_vars => [Kept]_vars
  BY <1>1
<1>. QED BY <1>2, IInvAlways, PTL DEF Spec, MoveKeepsChain

(* The chain of a directory has an end, so that a path leads through it.   *)
ChainsEnd ==
  \A s \in Held : At(s).dir => \E c \in Chain(At(s).first) : Editor!IsTerminalValue(fat[c])

LEMMA EndFacts == Before /\ Sem => ChainsEnd
<1>. SUFFICES ASSUME Before, Sem, NEW s \in Held, At(s).dir
              PROVE  \E c \in Chain(At(s).first) : Editor!IsTerminalValue(fat[c])
  BY DEF ChainsEnd
<1>. DEFINE h == At(s).first
<1>1. ChainsApart /\ DOMAIN fat = Cluster /\ IsFiniteSet(DOMAIN fat)
  BY SoundFacts, ClusterFacts DEF Before, DiskType, Sem
<1>2. h \in heads
  BY DEF Sem, ChainsHeld
<1>. HIDE DEF h
<1>3. h \in DOMAIN fat /\ Source(fat, h) /\ Injective(fat)
  BY <1>1, <1>2 DEF ChainsApart
<1>4. PICK c \in Reach(fat, h, DOMAIN fat) : fat[c] \notin DOMAIN fat
  BY <1>1, <1>3, ReachEnds
<1>5. c \in Chain(h) /\ fat[c] \notin Cluster
  BY <1>1, <1>4 DEF Chain
<1>6. fat[c] = 0 \/ fat[c] = END
  BY <1>1, <1>5, ChainFacts DEF ChainsApart, ChainsRead
<1>7. Editor!IsTerminalValue(fat[c])
  BY <1>6 DEF Editor!IsTerminalValue, Editor!FREE
<1>. QED BY <1>5, <1>7 DEF h

(* Prefixes, name by name.                                                 *)
LEMMA PrefixMeans ==
  ASSUME NEW S, NEW p \in Seq(S), NEW q \in Seq(S)
  PROVE  IsPrefix(p, q) <=> Len(p) <= Len(q) /\ \A i \in 1 .. Len(p) : q[i] = p[i]
<1>. SUFFICES ASSUME Len(p) <= Len(q)
              PROVE  SubSeq(q, 1, Len(p)) = p <=> \A i \in 1 .. Len(p) : q[i] = p[i]
  BY DEF IsPrefix
<1>1. PICK m \in Nat : m = Len(p)
  OBVIOUS
<1>. DEFINE r == SubSeq(q, 1, m)
<1>2. r \in Seq(S) /\ Len(r) = m
  BY <1>1
<1>3. \A i \in 1 .. m : r[i] = q[i]
  BY <1>1
<1>. HIDE DEF r
<1>4. r = p <=> \A i \in 1 .. m : r[i] = p[i]
  BY <1>1, <1>2
<1>. QED BY <1>1, <1>3, <1>4 DEF r

LEMMA PrefixFacts ==
  ASSUME NEW S, NEW p \in Seq(S), NEW q \in Seq(S)
  PROVE  /\ IsPrefix(p, p)
         /\ IsPrefix(p, q) => Len(p) <= Len(q)
         /\ q # << >> /\ IsPrefix(p, Parent(q)) => IsPrefix(p, q)
         /\ q # << >> => ~IsPrefix(q, Parent(q))
<1>1. IsPrefix(p, p)
  BY PrefixMeans
<1>2. IsPrefix(p, q) => Len(p) <= Len(q)
  BY DEF IsPrefix
<1>3. ASSUME q # << >>
      PROVE  (IsPrefix(p, Parent(q)) => IsPrefix(p, q)) /\ ~IsPrefix(q, Parent(q))
  <2>. DEFINE r == Parent(q)
  <2>1. r \in Seq(S) /\ Len(r) = Len(q) - 1 /\ \A i \in 1 .. Len(q) - 1 : r[i] = q[i]
    BY <1>3, ParentFacts
  <2>. HIDE DEF r
  <2>2. IsPrefix(p, r) <=> Len(p) <= Len(r) /\ \A i \in 1 .. Len(p) : r[i] = p[i]
    BY <2>1, PrefixMeans
  <2>3. IsPrefix(p, q) <=> Len(p) <= Len(q) /\ \A i \in 1 .. Len(p) : q[i] = p[i]
    BY PrefixMeans
  <2>4. IsPrefix(p, r) => IsPrefix(p, q)
    BY <2>1, <2>2, <2>3
  <2>5. ~IsPrefix(q, r)
    BY <2>1 DEF IsPrefix
  <2>. QED BY <2>4, <2>5 DEF r
<1>. QED BY <1>1, <1>2, <1>3

LEMMA PrefixTransitive ==
  ASSUME NEW S, NEW p \in Seq(S), NEW q \in Seq(S), NEW r \in Seq(S),
         IsPrefix(p, q), IsPrefix(q, r)
  PROVE  IsPrefix(p, r)
<1>1. Len(p) <= Len(q) /\ \A i \in 1 .. Len(p) : q[i] = p[i]
  BY PrefixMeans
<1>2. Len(q) <= Len(r) /\ \A i \in 1 .. Len(q) : r[i] = q[i]
  BY PrefixMeans
<1>3. Len(p) <= Len(r) /\ \A i \in 1 .. Len(p) : r[i] = p[i]
  BY <1>1, <1>2
<1>. QED BY <1>3, PrefixMeans

(* Paths outside the operation.                                            *)
Quieted == TypeInv /\ Before /\ Sem /\ Ways

LEMMA AimFacts ==
  ASSUME Quieted, NEW t \in Aims
  PROVE  t \in Seq(Name) /\ t # << >> /\ Parent(t) \in Seq(Name) /\ Calm(Parent(t))
<1>1. CASE op.kind = "delete"
  <2>1. pc \in {"delete", "mark"}
    BY <1>1, NoOpFacts DEF Quieted, Before, StepOf, TypeInv, TypeOK
  <2>2. Top \in Frames /\ Len(op.stack) \in DOMAIN op.stack /\ t = Top.path
    BY <1>1, <2>1, TopFacts DEF Quieted, Aims
  <2>3. t \in Seq(Name) /\ t # << >>
    BY <1>1, <2>2 DEF Frames, Quieted, Ways, Stack, FrameAt, Top
  <2>4. ~IsPrefix(t, Parent(t))
    BY <2>3, PrefixFacts
  <2>. QED BY <1>1, <2>2, <2>3, <2>4, ParentFacts DEF Calm, Aims
<1>2. CASE op.kind # "delete"
  <2>1. Aims = op.targets
    BY <1>2 DEF Aims
  <2>2. t \in Seq(Name) /\ t # << >> /\ \A u \in Aims : ~IsPrefix(u, Parent(t))
    BY <2>1 DEF Quieted, Ways, Aside
  <2>. QED BY <2>2, ParentFacts DEF Calm
<1>. QED BY <1>1, <1>2

LEMMA CalmParent ==
  ASSUME Quieted, NEW p \in Seq(Name), p # << >>, Calm(p)
  PROVE  Parent(p) \in Seq(Name) /\ Calm(Parent(p))
<1>1. ASSUME NEW t \in Aims PROVE ~IsPrefix(t, Parent(p))
  BY <1>1, AimFacts, PrefixFacts DEF Calm
<1>. QED BY <1>1, ParentFacts DEF Calm

LEMMA CalmDirs ==
  ASSUME Quieted, NEW p \in Seq(Name), Calm(p), Directory(p) # 0
  PROVE  /\ Directory(p) \in Dirs /\ DirHead(Directory(p)) /\ Directory(p) \in heads
         /\ p # << >> => Directory(p) # RootCluster /\ Directory(Parent(p)) # 0 /\ Stays(p)
<1>1. DiskType /\ Sem
  BY DEF Quieted, Before
<1>2. ASSUME p # << >>
      PROVE  /\ Stays(p) /\ Directory(p) \in Dirs
             /\ Directory(p) # RootCluster /\ Directory(Parent(p)) # 0
  <2>1. PICK s \in Held : /\ s \in ShownSlots(Directory(Parent(p)))
                          /\ At(s).dir /\ At(s).first = Directory(p)
    BY <1>2 DEF Quieted, Ways, CalmHeld, Stays
  <2>2. Directory(p) \in Dirs
    BY <2>1 DEF Dirs
  <2>3. Directory(p) # RootCluster
    BY <1>1, <2>1 DEF Sem, ChainsHeld
  <2>4. Directory(Parent(p)) # 0
    <3>1. Reach(fat, 0, OnDisk) = {}
      BY <1>1, ChainFacts DEF ChainsRead, DiskType
    <3>. QED BY <2>1, <3>1 DEF ShownSlots, SlotsIn
  <2>. QED BY <1>2, <2>2, <2>3, <2>4 DEF Quieted, Ways, CalmHeld
<1>3. p = << >> => Directory(p) \in Dirs
  BY <1>1, DirectorySteps DEF DirectoryFacts, Dirs
<1>4. DirHead(Directory(p))
  BY <1>1, <1>2, <1>3, DirsHeld DEF Sem
<1>. QED BY <1>2, <1>3, <1>4 DEF DirHead

LEMMA ShownFacts ==
  ASSUME DiskType, NEW d
  PROVE  /\ ShownSlots(d) \subseteq Slots(d)
         /\ \A s \in Slots(d) : s \in DirSlot /\ s[1] \in Chain(d)
         /\ \A s \in ShownSlots(d) : s \in DirSlot /\ s[1] \in Chain(d)
         /\ ShownSlots(0) = {}
<1>1. Reach(fat, d, OnDisk) \subseteq Chain(d) /\ Reach(fat, 0, OnDisk) \subseteq {}
  BY ChainFacts DEF DiskType, ChainsRead
<1>2. ShownSlots(d) \subseteq Slots(d) /\ ShownSlots(0) = {}
  BY <1>1 DEF ShownSlots, Slots, SlotsIn
<1>3. \A s \in Slots(d) : s \in DirSlot /\ s[1] \in Chain(d)
  BY AtFacts DEF AtTyped, Slots
<1>. QED BY <1>2, <1>3

NoneShown == ShownSlots(0) = {}

LEMMA ShownNone == DiskType => NoneShown
BY ShownFacts DEF NoneShown

(* They lead to different directories.                                     *)
LEMMA CalmApart ==
  ASSUME Quieted, NEW x \in Seq(Name), NEW y \in Seq(Name), Calm(x), Calm(y),
         Directory(x) = Directory(y), Directory(x) # 0
  PROVE  x = y
<1>. DEFINE Bad(p, q) == Calm(p) /\ Calm(q) /\ p # q /\ Directory(p) = Directory(q)
                           /\ Directory(p) # 0
            L == {n \in Nat : \E p, q \in Seq(Name) : Len(p) = n /\ Bad(p, q)}
<1>. SUFFICES ASSUME L # {} PROVE FALSE
  OBVIOUS
<1>1. PICK n \in L : \A m \in L : n <= m
  <2>. HIDE DEF L
  <2>1. L \subseteq Nat
    BY DEF L
  <2>. QED BY <2>1, Least
<1>2. PICK p \in Seq(Name), q \in Seq(Name) : Len(p) = n /\ Bad(p, q)
  OBVIOUS
<1>3. DiskType /\ ChainsApart /\ Directory(<< >>) = RootCluster /\ Sem
  BY SoundFacts, DirectorySteps DEF Quieted, Sem, DirectoryFacts, Before
<1>4. p # << >> /\ q # << >>
  BY <1>2, <1>3, CalmDirs
<1>5. Stays(p) /\ Stays(q) /\ Directory(Parent(p)) # 0 /\ Directory(Parent(q)) # 0
  BY <1>2, <1>4, CalmDirs
<1>6. PICK s \in Held : /\ s \in ShownSlots(Directory(Parent(p))) /\ At(s).name = Last(p)
                        /\ At(s).first = Directory(p)
  BY <1>5 DEF Stays
<1>7. PICK t \in Held : /\ t \in ShownSlots(Directory(Parent(q))) /\ At(t).name = Last(q)
                        /\ At(t).first = Directory(q)
  BY <1>5 DEF Stays
<1>8. s = t
  BY <1>2, <1>3, <1>6, <1>7 DEF Sem, ChainsHeld
<1>9. /\ Parent(p) \in Seq(Name) /\ Parent(q) \in Seq(Name)
      /\ Calm(Parent(p)) /\ Calm(Parent(q))
      /\ Len(Parent(p)) = n - 1 /\ n \in Nat \ {0}
  BY <1>2, <1>4, ParentFacts, CalmParent
<1>10. Directory(Parent(p)) = Directory(Parent(q))
  <2>1. Directory(Parent(p)) \in heads /\ Directory(Parent(q)) \in heads
    BY <1>5, <1>9, CalmDirs
  <2>2. s[1] \in Chain(Directory(Parent(p))) /\ s[1] \in Chain(Directory(Parent(q)))
    BY <1>3, <1>6, <1>7, <1>8, ShownFacts
  <2>. QED BY <1>3, <2>1, <2>2 DEF ChainsApart
<1>11. CASE Parent(p) = Parent(q)
  <2>1. p = q
    BY <1>4, <1>6, <1>7, <1>8, <1>11, SamePath
  <2>. QED BY <1>2, <2>1
<1>12. CASE Parent(p) # Parent(q)
  <2>1. n - 1 \in L
    BY <1>5, <1>9, <1>10, <1>12
  <2>. QED BY <1>1, <1>9, <2>1
<1>. QED BY <1>11, <1>12

(* A slot the operation may change has no name outside of it.              *)
LEMMA SpotAside ==
  ASSUME Quieted, NEW t \in Aims, NEW s, NEW n, Spot(s, n, t),
         NEW p \in Seq(Name), p # << >>, Calm(p), n = Last(p), s[1] \in Chain(Directory(Parent(p)))
  PROVE  FALSE
<1>1. /\ t \in Seq(Name) /\ t # << >> /\ Parent(t) \in Seq(Name) /\ Calm(Parent(t))
      /\ Parent(p) \in Seq(Name) /\ Calm(Parent(p))
  BY AimFacts, CalmParent
<1>2. DiskType /\ ChainsApart
  BY SoundFacts DEF Quieted, Before, Sem
<1>3. Directory(Parent(t)) # 0 /\ Directory(Parent(p)) # 0
  BY <1>2, ChainFacts DEF Spot, ChainsRead, DiskType
<1>4. Directory(Parent(t)) \in heads /\ Directory(Parent(p)) \in heads
  BY <1>1, <1>3, CalmDirs
<1>5. Directory(Parent(t)) = Directory(Parent(p))
  BY <1>2, <1>4 DEF ChainsApart, Spot
<1>6. Parent(t) = Parent(p)
  BY <1>1, <1>3, <1>5, CalmApart
<1>7. t = p
  BY <1>1, <1>6, SamePath DEF Spot
<1>. QED BY <1>7, PrefixFacts DEF Calm

LEMMA PlaceFacts ==
  ASSUME Quieted, Changes
  PROVE  \E t \in Aims : /\ Directory(Parent(t)) = op.parent /\ Last(t) = op.record.name
                         /\ \A s : s[1] \in Chain(op.parent) => Spot(s, op.record.name, t)
<1>1. Aims = op.targets
  BY DEF Aims, Changes
<1>2. PICK t \in op.targets : Directory(Parent(t)) = op.parent /\ Last(t) = op.record.name
  BY DEF Quieted, Ways, InPlace
<1>3. t # << >>
  BY <1>2 DEF Quieted, Ways, Aside
<1>. QED BY <1>1, <1>2, <1>3 DEF Spot

LEMMA TopSpot ==
  ASSUME Quieted, pc \in {"delete", "mark"}
  PROVE  Top.slot \in Records /\ \E t \in Aims : Spot(Top.slot, At(Top.slot).name, t)
<1>1. Before /\ DiskType /\ op.kind \in {"delete", "move"}
  BY DEF Quieted, Before, StepOf
<1>2. CASE op.kind = "delete"
  <2>1. Len(op.stack) \in DOMAIN op.stack
    BY <1>1, TopFacts
  <2>2. FrameAt(Top)
    BY <1>2, <2>1 DEF Quieted, Ways, Stack, Top
  <2>. QED BY <1>1, <1>2, <2>2, ShownFacts DEF FrameAt, Spot, Aims
<1>3. CASE op.kind = "move"
  <2>1. Top.slot \in Records \cap Slots(op.parent) /\ At(Top.slot).name = op.record.name
    BY <1>3 DEF Quieted, Sem, Moving
  <2>2. Top.slot[1] \in Chain(op.parent)
    BY <1>1, <2>1, ShownFacts
  <2>. QED BY <1>3, <2>1, <2>2, PlaceFacts DEF Changes
<1>. QED BY <1>1, <1>2, <1>3

(* The record that is about to lose its chain, or has lost it, is one of   *)
(* the operation's own.                                                    *)
LEMMA LooseSpot ==
  ASSUME Quieted, NEW s \in Records,
         s \in Loose \/ (op.freed /\ s = IF op.kind = "put" THEN op.slot ELSE Top.slot)
  PROVE  \E t \in Aims : Spot(s, At(s).name, t)
<1>1. Before /\ DiskType /\ s \in DirSlot /\ Sem
  BY DEF Quieted, Before, Records
<1>2. CASE pc = "unlink" /\ s = op.from
  <2>1. op.kind = "move" /\ Aims = op.targets
    BY <1>1, <1>2 DEF Before, StepOf, Aims
  <2>2. PICK t \in op.targets : op.from[1] \in Chain(Directory(Parent(t))) /\ At(op.from).name = Last(t)
    BY <1>2, <2>1 DEF Quieted, Ways, OldPlace
  <2>. QED BY <1>2, <2>1, <2>2 DEF Spot, Quieted, Ways, Aside
<1>3. CASE op.freed /\ op.kind = "put" /\ s = op.slot
  <2>1. op.slot # NoSlot
    BY <1>1, <1>3, SlotFacts DEF DirSlot
  <2>2. pc \in {"alloc", "data", "slot", "record"}
    BY <1>1, <1>3 DEF Quieted, TypeInv, TypeOK, Before, StepOf, Sem, Replaced
  <2>3. op.slot \in Slots(op.parent) /\ Changes
    BY <1>1, <1>3, <2>1, <2>2 DEF Sem, ParentHeld, Changes
  <2>4. At(op.slot).name = op.record.name
    BY <1>1, <1>3, <2>1, <2>2 DEF Sem, Replaced, Records
  <2>. QED BY <1>1, <1>3, <2>3, <2>4, ShownFacts, PlaceFacts
<1>4. CASE op.freed /\ op.kind # "put" /\ s = Top.slot
  <2>1. pc = "mark"
    BY <1>1, <1>4 DEF Before, StepOf
  <2>. QED BY <1>4, <2>1, TopSpot
<1>. QED BY <1>2, <1>3, <1>4 DEF Loose

-----------------------------------------------------------------------------
(* A step that changes only the operation's own slots changes no path      *)
(* outside of it.                                                          *)

SteadyPath(p) ==
  /\ Directory(p)' = Directory(p)
  /\ p # << >> => Value(p)' = Value(p) /\ (Directory(p) # 0 => Stays(p)')

Steady == \A p \in Seq(Name) : Calm(p) => SteadyPath(p)

(* The step changes records in the slots T only.                           *)
OnlyTouched(T) ==
  /\ \A s \in T, n \in Name :
       (s \in Records /\ At(s).name = n) \/ (s \in Records' /\ At(s)'.name = n)
         => \E t \in Aims : Spot(s, n, t)
  /\ \A s : s \notin T => (s \in Records' <=> s \in Records)
  /\ \A s \in Records \ T : At(s)' = At(s)
  /\ \A s \in Held \ T : s \in Held'
  /\ \A d \in Dirs : \A s \in Records \cup Records' : s \in ShownSlots(d)' <=> s \in ShownSlots(d)
  /\ \A s \in Held \ T : ~At(s).dir => \A h : h = At(s).first =>
       Chain(h)' = Chain(h) /\ \A c \in Chain(h) : disk'[c] = disk[c]

Data(s) == [c \in IF At(s).dir THEN {} ELSE Chain(At(s).first) |-> disk[c]]
Seen(s) == [dir |-> At(s).dir, data |-> Data(s)]

(* The records a path may go on through.                                   *)
Passed(d, n) ==
  {s \in ShownSlots(d) : /\ At(s).name = n /\ At(s).dir
                         /\ \E c \in Chain(At(s).first) : Editor!IsTerminalValue(fat[c])}

ChildRead ==
  \A d, n : Child(d, n) = IF Passed(d, n) = {} THEN 0
                          ELSE At(CHOOSE s \in Passed(d, n) : TRUE).first

LEMMA ChildIs == ChildRead
BY DEF ChildRead, Child, Passed

LEMMA SteadyStep ==
  ASSUME Quieted, Before', Sem', NEW T, OnlyTouched(T),
         NEW q \in Seq(Name), q # << >>, Calm(q), NEW d,
         d = Directory(Parent(q)), Directory(Parent(q))' = d
  PROVE  SteadyPath(q)
<1>. DEFINE n == Last(q)
            F == {s \in ShownSlots(d) : At(s).name = n}
            D == {s \in F : At(s).dir}
<1>1. /\ Quieted /\ DiskType /\ DiskType' /\ n \in Name
      /\ Parent(q) \in Seq(Name) /\ Calm(Parent(q))
  BY ParentFacts, CalmParent DEF Quieted, Before
<1>2. AtTyped /\ AtTyped' /\ ChainsEnd /\ ChainsEnd' /\ DirectoryFacts /\ DirectoryFacts'
  <2>1. AtTyped'
    BY <1>1, AtFacts, PTL
  <2>2. ChainsEnd'
    <3>1. Before' /\ Sem'
      OBVIOUS
    <3>. QED BY <3>1, EndFacts, PTL
  <2>3. DirectoryFacts'
    BY <1>1, DirectorySteps, PTL
  <2>. QED BY <1>1, <2>1, <2>2, <2>3, AtFacts, EndFacts, DirectorySteps DEF Quieted
<1>3. ShownSlots(d) \subseteq DirSlot /\ ShownSlots(d)' \subseteq DirSlot'
  BY <1>2 DEF ShownSlots, AtTyped
<1>. HIDE DEF n
<1>4. ASSUME d # 0 PROVE d \in Dirs
  BY <1>1, <1>4, CalmDirs
<1>5. ASSUME NEW s, s \in DirSlot \/ s \in DirSlot', s[1] \in Chain(d), NEW t \in Aims, Spot(s, n, t)
      PROVE  FALSE
  BY <1>1, <1>5, SpotAside DEF n
<1>6. ASSUME NEW s \in F
      PROVE  /\ s \in Held /\ s \notin T /\ s \in Held' /\ At(s)' = At(s) /\ s \in ShownSlots(d)'
  <2>1. s \in Records /\ s[1] \in Chain(d) /\ At(s).name = n /\ d # 0
    BY <1>1, <1>2, <1>3, ShownFacts DEF AtTyped
  <2>2. s \notin T
    BY <1>1, <1>3, <1>5, <2>1 DEF OnlyTouched
  <2>3. s \in Held
    BY <1>1, <1>3, <1>5, <2>1, LooseSpot DEF Held
  <2>. QED BY <1>4, <2>1, <2>2, <2>3 DEF OnlyTouched
<1>7. ASSUME NEW s \in ShownSlots(d)', At(s)'.name = n
      PROVE  s \in F
  <2>1. s \in Records'
    BY <1>1, <1>2, <1>3, <1>7 DEF AtTyped
  <2>2. d # 0
    <3>1. NoneShown'
      BY <1>1, ShownNone, PTL
    <3>. QED BY <1>7, <3>1 DEF NoneShown
  <2>3. s \in ShownSlots(d)
    BY <1>4, <2>1, <2>2 DEF OnlyTouched
  <2>4. s[1] \in Chain(d) /\ s \in DirSlot
    BY <1>1, <2>3, ShownFacts
  <2>5. s \notin T
    BY <1>1, <1>5, <1>7, <2>1, <2>4 DEF OnlyTouched
  <2>6. s \in Records /\ At(s)' = At(s)
    BY <2>1, <2>5 DEF OnlyTouched
  <2>. QED BY <1>7, <2>3, <2>6
<1>8. F' = F
  <2>1. F' = {s \in ShownSlots(d)' : At(s)'.name = n}
    BY DEF n
  <2>. QED BY <1>6, <1>7, <2>1
<1>9. PICK E : E = {s \in F : At(s).dir}
  OBVIOUS
<1>10. Passed(d, n) = E
  BY <1>2, <1>6, <1>9 DEF ChainsEnd, Passed
<1>11. Passed(d, n)' = E
  <2>1. \A s \in F : At(s).dir => (\E c \in Chain(At(s).first) : Editor!IsTerminalValue(fat[c]))'
    <3>1. ASSUME NEW s \in F, At(s).dir
          PROVE  (\E c \in Chain(At(s).first) : Editor!IsTerminalValue(fat[c]))'
      BY <1>2, <1>6, <3>1 DEF ChainsEnd
    <3>. QED BY <3>1
  <2>. QED BY <1>6, <1>7, <1>9, <2>1 DEF n, Passed
<1>12. Child(d, n)' = Child(d, n)
  <2>1. E # {} => (CHOOSE s \in E : TRUE) \in E
    OBVIOUS
  <2>2. E # {} => At(CHOOSE s \in E : TRUE)' = At(CHOOSE s \in E : TRUE)
    BY <1>6, <1>9, <2>1
  <2>3. ChildRead'
    BY ChildIs, PTL
  <2>. QED BY <1>10, <1>11, <2>2, <2>3, ChildIs DEF ChildRead
<1>13. Directory(q)' = Directory(q)
  BY <1>2, <1>12 DEF DirectoryFacts, n
<1>14. Value(q)' = Value(q)
  <2>1. ASSUME NEW s \in F
        PROVE  Seen(s)' = Seen(s)
    <3>1. PICK h : h = At(s).first
      OBVIOUS
    <3>2. CASE At(s).dir
      BY <1>6, <3>2 DEF Data, Seen
    <3>3. CASE ~At(s).dir
      <4>1. Chain(h)' = Chain(h) /\ \A c \in Chain(h) : disk'[c] = disk[c]
        BY <1>6, <3>1, <3>3 DEF OnlyTouched
      <4>2. Data(s) = [c \in Chain(h) |-> disk[c]] /\ Data(s)' = [c \in Chain(h)' |-> disk'[c]]
        BY <1>6, <3>1, <3>3 DEF Data
      <4>3. Data(s)' = Data(s)
        BY <4>1, <4>2
      <4>. QED BY <1>6, <4>3 DEF Seen
    <3>. QED BY <3>2, <3>3
  <2>2. PICK G : G = F
    OBVIOUS
  <2>3. Value(q) = {Seen(s) : s \in G}
    BY <2>2 DEF Value, Data, Seen, n
  <2>4. Value(q)' = {Seen(s)' : s \in G}
    BY <1>8, <2>2 DEF Value, Data, Seen, n
  <2>5. \A s \in G : Seen(s)' = Seen(s)
    BY <2>1, <2>2
  <2>. QED BY <2>3, <2>4, <2>5, Zenon
<1>15. ASSUME Directory(q) # 0 PROVE Stays(q)'
  <2>1. PICK s \in Held : /\ s \in ShownSlots(d) /\ At(s).name = n
                          /\ At(s).dir /\ At(s).first = Directory(q)
    BY <1>1, <1>15, CalmDirs DEF Stays, n
  <2>. QED BY <1>6, <1>13, <2>1 DEF Stays, n
<1>. QED BY <1>13, <1>14, <1>15 DEF SteadyPath

LEMMA SteadyPaths ==
  ASSUME Quieted, Before', Sem', NEW T, OnlyTouched(T)
  PROVE  Steady
<1>. DEFINE P == {n \in Nat : \A q \in Seq(Name) : Len(q) = n /\ Calm(q) => SteadyPath(q)}
<1>1. DirectoryFacts /\ DirectoryFacts'
  <2>1. DiskType /\ DiskType'
    BY DEF Quieted, Before
  <2>2. DirectoryFacts'
    BY <2>1, DirectorySteps, PTL
  <2>. QED BY <2>1, <2>2, DirectorySteps
<1>2. SteadyPath(<< >>)
  BY <1>1 DEF SteadyPath, DirectoryFacts
<1>3. 0 \in P
  BY <1>2
<1>4. ASSUME NEW n \in P PROVE n + 1 \in P
  <2>. SUFFICES ASSUME NEW q \in Seq(Name), Len(q) = n + 1, Calm(q) PROVE SteadyPath(q)
    OBVIOUS
  <2>1. q # << >>
    OBVIOUS
  <2>2. Parent(q) \in Seq(Name) /\ Calm(Parent(q)) /\ Len(Parent(q)) = n
    BY <2>1, ParentFacts, CalmParent
  <2>3. Directory(Parent(q))' = Directory(Parent(q))
    BY <2>2 DEF SteadyPath
  <2>4. PICK d : d = Directory(Parent(q))
    OBVIOUS
  <2>. QED BY <2>1, <2>3, <2>4, SteadyStep
<1>5. P = Nat
  <2>. HIDE DEF P
  <2>1. P \subseteq Nat
    BY DEF P
  <2>. QED BY <1>3, <1>4, <2>1, Induct
<1>. QED BY <1>5 DEF Steady

(* What a directory shows, cluster by cluster.                             *)
ShownIn ==
  \A d : \A s : s \in ShownSlots(d) <=> /\ s \in DirSlot /\ s[1] \in OnDisk
                                        /\ s[1] \in Reach(fat, d, OnDisk)

LEMMA ShownInFacts == DiskType => ShownIn
BY AtFacts DEF ShownIn, ShownSlots, AtTyped

SlotsIs == \A d : \A s : s \in Slots(d) <=> s \in DirSlot /\ s[1] \in OnDisk /\ s[1] \in Chain(d)

LEMMA SlotsIsFacts == DiskType => SlotsIs
BY AtFacts DEF SlotsIs, Slots, AtTyped

LEMMA ShownSame ==
  ASSUME DiskType, DiskType', NEW d, \A x \in Chain(d) : fat'[x] = fat[x]
  PROVE  \A s : (s \in DirSlot <=> s \in DirSlot') =>
                  (s \in ShownSlots(d)' <=> s \in ShownSlots(d))
<1>1. IsFiniteSet(DOMAIN fat) /\ DOMAIN fat' = DOMAIN fat
  BY ClusterFacts DEF DiskType
<1>2. Reach(fat, d, OnDisk) \subseteq Chain(d)
  BY ChainFacts DEF DiskType, ChainsRead
<1>3. Reach(fat', d, OnDisk) = Reach(fat, d, OnDisk)
  BY <1>1, <1>2, ReachSame
<1>4. ShownIn /\ ShownIn'
  <2>1. ShownIn'
    BY ShownInFacts, PTL
  <2>. QED BY <2>1, ShownInFacts
<1>. QED BY <1>3, <1>4 DEF ShownIn

(* Records stay as they are.                                               *)
Still(T) ==
  /\ Records' = Records /\ \A s \in Records : At(s)' = At(s)
  /\ \A s \in T : s \in Records => \E t \in Aims : Spot(s, At(s).name, t)
  /\ \A s \in Held \ T : s \in Held'
  /\ \A d \in Dirs : \A s \in Records : s \in ShownSlots(d)' <=> s \in ShownSlots(d)
  /\ \A s \in Held \ T : ~At(s).dir => \A h : h = At(s).first =>
       \A c \in Chain(h) : fat'[c] = fat[c] /\ disk'[c] = disk[c]

LEMMA StillTouched ==
  ASSUME DiskType, DiskType', NEW T, Still(T)
  PROVE  OnlyTouched(T)
<1>1. DOMAIN fat = Cluster /\ DOMAIN fat' = Cluster
  BY DEF DiskType
<1>2. ASSUME NEW h, \A c \in Chain(h) : fat'[c] = fat[c]
      PROVE  Chain(h)' = Chain(h)
  <2>1. Reach(fat', h, Cluster) = Chain(h)
    BY <1>1, <1>2, ChainSame
  <2>. QED BY <2>1 DEF Chain
<1>3. \A s \in T, n \in Name :
        (s \in Records /\ At(s).name = n) \/ (s \in Records' /\ At(s)'.name = n)
          => \E t \in Aims : Spot(s, n, t)
  BY DEF Still
<1>4. \A s \in Held \ T : ~At(s).dir => \A h : h = At(s).first =>
        Chain(h)' = Chain(h) /\ \A c \in Chain(h) : disk'[c] = disk[c]
  BY <1>2 DEF Still
<1>. QED BY <1>3, <1>4 DEF Still, OnlyTouched

LEMMA StillSteady ==
  ASSUME Quieted, Before', Sem', NEW T, Still(T)
  PROVE  Steady
<1>1. DiskType /\ DiskType'
  BY DEF Quieted, Before
<1>2. OnlyTouched(T)
  BY <1>1, StillTouched
<1>. QED BY <1>2, SteadyPaths

(* Nothing on the disk changes.                                            *)
LEMMA SameSteady ==
  ASSUME Quieted, Before', Sem', UNCHANGED <<fat, disk>>, Held \subseteq Held'
  PROVE  Steady
<1>. DEFINE T == {}
<1>1. Records' = Records /\ \A s \in Records : At(s)' = At(s)
  BY StillFacts
<1>2. \A d : ShownSlots(d)' = ShownSlots(d)
  BY DEF ShownSlots, SlotsIn
<1>3. Still(T)
  BY <1>1, <1>2 DEF Still
<1>. HIDE DEF T
<1>. QED BY <1>3, StillSteady

(* An entry of the chain map that is in no chain in use.                   *)
LEMMA MapSteady ==
  ASSUME Quieted, Before', Sem', UNCHANGED disk, Held \subseteq Held',
         NEW c, NEW v, fat' = [fat EXCEPT ![c] = v], \A h \in heads : c \notin Chain(h)
  PROVE  Steady
<1>. DEFINE T == {}
<1>1. Records' = Records /\ \A s \in Records : At(s)' = At(s)
  BY DEF Records, DirSlot, At
<1>2. DiskType /\ DiskType' /\ DOMAIN fat = Cluster /\ DirSlot' = DirSlot
  BY DEF Quieted, Before, DiskType, DirSlot
<1>3. \A x \in Cluster : x # c => fat'[x] = fat[x]
  BY <1>2
<1>4. \A h \in heads \cup {0} : \A x \in Chain(h) : fat'[x] = fat[x]
  BY <1>2, <1>3, ChainFacts DEF ChainsRead
<1>5. \A d \in Dirs : \A s \in Records : s \in ShownSlots(d)' <=> s \in ShownSlots(d)
  <2>1. ASSUME NEW d \in Dirs PROVE \A x \in Chain(d) : fat'[x] = fat[x]
    BY <1>4, DirsHeld DEF Quieted, Sem, DirHead
  <2>. QED BY <1>2, <2>1, ShownSame
<1>6. \A s \in Held : At(s).first \in heads \cup {0}
  BY DEF Quieted, Sem, ChainsHeld
<1>7. Still(T)
  BY <1>1, <1>4, <1>5, <1>6 DEF Still
<1>. HIDE DEF T
<1>. QED BY <1>7, StillSteady

(* A cluster without records is written, that no other file has.           *)
LEMMA DataSteady ==
  ASSUME Quieted, Before', Sem', UNCHANGED fat, Held \subseteq Held',
         Records' = Records, \A s \in Records : At(s)' = At(s),
         NEW c, \A x \in Cluster : x # c => disk'[x] = disk[x],
         \A s \in Held : ~At(s).dir => \A h : h = At(s).first => c \notin Chain(h)
  PROVE  Steady
<1>. DEFINE T == {}
<1>2. DiskType /\ DiskType' /\ DOMAIN fat = Cluster
  BY DEF Quieted, Before, DiskType
<1>3. \A s \in Records : s \in DirSlot /\ s \in DirSlot'
  <2>1. \A s \in Records : s \in DirSlot
    BY DEF Records
  <2>2. \A s \in Records' : s \in DirSlot'
    BY DEF Records
  <2>. QED BY <2>1, <2>2
<1>5. \A d \in Dirs : \A s \in Records : s \in ShownSlots(d)' <=> s \in ShownSlots(d)
  <2>1. ASSUME NEW d \in Dirs PROVE \A x \in Chain(d) : fat'[x] = fat[x]
    OBVIOUS
  <2>. QED BY <1>2, <1>3, <2>1, ShownSame
<1>6. \A h : \A x \in Chain(h) : x \in Cluster
  BY <1>2, ChainFacts DEF ChainsRead
<1>7. Still(T)
  BY <1>5, <1>6 DEF Still
<1>. HIDE DEF T
<1>. QED BY <1>7, StillSteady

(* A directory about to be given back is empty.                            *)
LEMMA NothingBelow ==
  ASSUME Quieted, pc = "mark", At(Top.slot).dir
  PROVE  /\ op.kind = "delete"
         /\ \A s \in Records : s \notin Slots(At(Top.slot).first)
<1>1. Before /\ op.kind \in {"delete", "move"}
  BY DEF Quieted, Before, StepOf
<1>2. op.kind = "delete"
  BY <1>1 DEF Quieted, Sem, Moving
<1>3. PICK n : n = Len(op.stack)
  OBVIOUS
<1>4. op.stack \in Seq(Frames) /\ n \in Nat \ {0} /\ n \in DOMAIN op.stack /\ Top = op.stack[n]
      /\ DOMAIN op.stack = 1 .. n /\ Top \in Frames
  BY <1>1, <1>3, TopFacts DEF Top
<1>5. ASSUME NEW i \in DOMAIN op.stack, Parent(op.stack[i].path) = Top.path
      PROVE  FALSE
  <2>1. op.stack[i].path \in Seq(Name) /\ Top.path \in Seq(Name)
    <3>1. op.stack[i] \in Frames
      BY <1>4
    <3>. QED BY <1>4, <3>1 DEF Frames
  <2>2. op.stack[i].path # << >> /\ Len(op.stack[i].path) <= Len(Top.path)
    <3>1. FrameAt(op.stack[i])
      BY <1>2 DEF Quieted, Ways, Stack
    <3>2. i < n => Len(op.stack[i].path) < Len(Top.path)
      BY <1>2, <1>4 DEF Quieted, Ways, Stack
    <3>3. i < n \/ i = n
      BY <1>4
    <3>. QED BY <1>4, <2>1, <3>1, <3>2, <3>3 DEF FrameAt
  <2>3. Len(Parent(op.stack[i].path)) = Len(op.stack[i].path) - 1
    BY <2>1, <2>2, ParentFacts
  <2>. QED BY <1>5, <2>1, <2>2, <2>3
<1>6. Emptied(Top) /\ Top.todo = {}
  BY <1>2, <1>4 DEF Quieted, Ways, Stack
<1>7. \A s \in Records : s \in Slots(At(Top.slot).first) => FALSE
  BY <1>5, <1>6 DEF Emptied
<1>. QED BY <1>2, <1>7

FreeFacts ==
  /\ cur \in Cluster /\ fat' = [fat EXCEPT ![cur] = 0] /\ heads' = heads \ {cur}
  /\ UNCHANGED <<disk, op, pc>> /\ op.freed /\ pc \in {"alloc", "mark"}
  /\ op.kind = "put" <=> pc = "alloc"
  /\ \A h \in heads : h # cur => cur \notin Chain(h)
  /\ Loose' = {FreedSlot}
  /\ \A s \in Held \ {FreedSlot} : At(s).first # cur
  /\ cur \in heads <=> FreedSlot \in Held
  /\ cur \in heads => At(FreedSlot).first = cur
  /\ cur \in heads /\ op.kind # "delete" => ~At(FreedSlot).dir

LEMMA FreeStepFacts ==
  ASSUME Sem, Alone, EP!FreeStep
  PROVE  FreeFacts
<1>1. /\ Before /\ DOMAIN fat = Cluster
      /\ UNCHANGED <<disk, torn, op, pc, state>>
      /\ task = "free" /\ cur \in Cluster
      /\ heads' = heads \ {cur} /\ fat' = [fat EXCEPT ![cur] = 0]
      /\ \/ task' = "idle"
         \/ task' = "free" /\ visited' # {}
      /\ pc \in {"alloc", "mark"} /\ op.freed
      /\ op.kind = "put" <=> pc = "alloc"
      /\ pc = "mark" => op.kind \in {"delete", "move"}
  BY ClusterFacts
     DEF Alone, Working, Before, TaskOf, StepOf, EditorTyped, EP!FreeStep, EP!Rest, DiskType,
         EP!FREE, EP!Cluster, Cluster
<1>3. ChainsApart /\ Source(fat, cur)
  BY <1>1, SoundFacts DEF Sem, EP!Sound, EP!FreePath, EP!Cluster, Cluster, Source
<1>4. \A h \in heads : h # cur => cur \notin Chain(h)
  <2>. DEFINE G == {cur}
  <2>1. \A g \in G : Source(fat, g) \/ \E b \in G \cap Cluster : fat[b] = g
    BY <1>3
  <2>2. ASSUME NEW h \in heads, h # cur PROVE cur \notin Chain(h)
    <3>1. h \notin G
      BY <2>2
    <3>2. Chain(h) \cap G = {}
      BY <1>3, <2>1, <3>1, ChainAvoids
    <3>. QED BY <3>2
  <2>. QED BY <2>2
<1>5. Loose' = {FreedSlot}
  <2>1. FreedSlot' = FreedSlot
    BY <1>1 DEF FreedSlot, Top
  <2>. QED BY <1>1, <2>1 DEF Loose, FreedSlot
<1>6. cur \in heads => Loose = {} /\ FreedSlot \in Held /\ At(FreedSlot).first = cur
  <2>1. cur \in heads => visited = {}
    BY <1>1 DEF Sem, Freeing, FreedSlot
  <2>2. cur \in heads => FreedSlot \in Records /\ At(FreedSlot).first = cur
    BY <1>1, <2>1 DEF Sem, Freeing, FreedSlot
  <2>3. cur \in heads => Loose = {}
    BY <1>1, <2>1 DEF Loose
  <2>. QED BY <2>2, <2>3 DEF Held
<1>7. ASSUME NEW s \in Held \ {FreedSlot}, At(s).first = cur PROVE FALSE
  <2>1. cur # 0 /\ cur \in heads
    BY <1>1, <1>7, ClusterFacts DEF Sem, ChainsHeld
  <2>. QED BY <1>6, <1>7, <2>1 DEF Sem, ChainsHeld
<1>8. ASSUME cur \in heads, op.kind # "delete" PROVE ~At(FreedSlot).dir
  <2>1. op.kind = "put" => ~At(FreedSlot).dir
    <3>1. op.slot # NoSlot /\ op.kind = "put" => ~At(op.slot).dir
      BY <1>1 DEF Sem, Replaced
    <3>2. op.slot \in Records => op.slot # NoSlot
      BY SlotFacts DEF Records, DirSlot
    <3>. QED BY <1>6, <1>8, <3>1, <3>2 DEF FreedSlot, Held
  <2>. QED BY <1>1, <1>8, <2>1 DEF Sem, Moving, FreedSlot
<1>9. FreedSlot \in Held => cur \in heads
  <2>1. FreedSlot \in Held => visited = {}
    BY <1>1 DEF Held, Loose, FreedSlot
  <2>2. FreedSlot \in Held /\ visited = {} => At(FreedSlot).first = cur
    BY <1>1 DEF Sem, Freeing, FreedSlot
  <2>. QED BY <1>1, <2>1, <2>2, ClusterFacts DEF Sem, ChainsHeld
<1>. QED BY <1>1, <1>4, <1>5, <1>6, <1>7, <1>8, <1>9 DEF FreeFacts

LEMMA FreeSteady ==
  ASSUME Quieted, Before', Sem', FreeFacts
  PROVE  Steady
<1>. DEFINE T == {FreedSlot}
<1>1. DiskType /\ DiskType' /\ DOMAIN fat = Cluster /\ ShownIn /\ ShownIn' /\ DirSlot' = DirSlot
  <2>1. DiskType /\ DiskType'
    BY DEF Quieted, Before
  <2>2. ShownIn'
    BY <2>1, ShownInFacts, PTL
  <2>. QED BY <2>1, <2>2, ShownInFacts DEF DiskType, FreeFacts, DirSlot
<1>2. Records' = Records /\ \A s \in Records : At(s)' = At(s)
  BY DEF FreeFacts, Records, DirSlot, At
<1>3. \A s \in T : s \in Records => \E t \in Aims : Spot(s, At(s).name, t)
  BY LooseSpot DEF FreeFacts, FreedSlot
<1>4. \A s \in Held \ T : s \in Held'
  BY <1>2 DEF Held, FreeFacts
<1>5. \A x \in Cluster : x # cur => fat'[x] = fat[x]
  BY <1>1 DEF FreeFacts
<1>6. \A h \in (heads \cup {0}) \ {cur} : \A x \in Chain(h) : fat'[x] = fat[x]
  BY <1>1, <1>5, ChainFacts DEF ChainsRead, FreeFacts
<1>7. ASSUME NEW d \in Dirs, NEW s \in Records
      PROVE  s \in ShownSlots(d)' <=> s \in ShownSlots(d)
  <2>1. CASE d # cur
    <3>1. \A x \in Chain(d) : fat'[x] = fat[x]
      BY <1>6, <2>1, DirsHeld DEF Quieted, Sem, DirHead
    <3>. QED BY <1>1, <3>1, ShownSame
  <2>2. CASE d = cur
    <3>1. d \in heads /\ \A t \in Held : At(t).first = d => At(t).dir
      BY DirsHeld DEF Quieted, Sem, DirHead
    <3>2. FreedSlot \in Held /\ At(FreedSlot).first = d
      BY <2>2, <3>1 DEF FreeFacts
    <3>3. At(FreedSlot).dir /\ op.kind = "delete" /\ pc = "mark" /\ FreedSlot = Top.slot
      BY <2>2, <3>1, <3>2 DEF FreeFacts, FreedSlot
    <3>4. s \notin Slots(d)
      BY <3>2, <3>3, NothingBelow
    <3>5. s \notin ShownSlots(d)
      BY <1>1, <3>4, ShownFacts
    <3>6. Reach(fat', d, OnDisk) \subseteq Reach(fat, d, OnDisk)
      <4>. DEFINE S == Reach(fat, d, OnDisk)
      <4>1. IsFiniteSet(DOMAIN fat) /\ IsFiniteSet(DOMAIN fat') /\ DOMAIN fat' = Cluster
            /\ fat'[cur] \notin Cluster
        BY <1>1, ClusterFacts DEF FreeFacts
      <4>2. d \in DOMAIN fat' => d \in S
        BY <1>1, <4>1, ReachIn
      <4>3. \A c \in S \cap OnDisk : fat'[c] \in DOMAIN fat' => fat'[c] \in S
        <5>1. ASSUME NEW c \in S \cap OnDisk, fat'[c] \in DOMAIN fat' PROVE fat'[c] \in S
          <6>1. c \in Cluster /\ c # cur
            BY <1>1, <4>1, <5>1, ReachIn
          <6>2. fat'[c] = fat[c]
            BY <1>5, <6>1
          <6>. QED BY <1>1, <4>1, <5>1, <6>2, ReachClosed
        <5>. QED BY <5>1
      <4>. HIDE DEF S
      <4>4. Reach(fat', d, OnDisk) \subseteq S
        BY <4>1, <4>2, <4>3, ReachLeast
      <4>. QED BY <4>4 DEF S
    <3>. QED BY <1>1, <3>5, <3>6 DEF ShownIn
  <2>. QED BY <2>1, <2>2
<1>8. ASSUME NEW s \in Held \ T, ~At(s).dir, NEW h, h = At(s).first
      PROVE  \A c \in Chain(h) : fat'[c] = fat[c] /\ disk'[c] = disk[c]
  <2>1. h \in (heads \cup {0}) \ {cur}
    BY <1>8 DEF Quieted, Sem, ChainsHeld, FreeFacts
  <2>. QED BY <1>6, <2>1 DEF FreeFacts
<1>9. Still(T)
  BY <1>2, <1>3, <1>4, <1>7, <1>8 DEF Still
<1>. HIDE DEF T
<1>. QED BY <1>9, StillSteady

(* No record lies in a cluster that is in no directory in use.             *)
LEMMA NoRecords ==
  ASSUME Quieted, NEW c, \A d \in Dirs : c \in Chain(d) => pc = "zero" /\ c = op.slot[1]
  PROVE  \A s \in Records : s[1] # c
<1>1. ASSUME NEW s \in Records, s[1] = c PROVE FALSE
  <2>1. PICK d \in Dirs : s \in Cleared(d)
    BY DEF Quieted, Ways, Placed
  <2>2. s \in Slots(d) /\ (pc = "zero" => s[1] # op.slot[1])
    BY <2>1 DEF Cleared
  <2>3. s[1] \in Chain(d)
    BY <2>2, ShownFacts DEF Quieted, Before
  <2>. QED BY <1>1, <2>2, <2>3
<1>. QED BY <1>1

AppendFacts ==
  /\ tail \in Cluster /\ got[1] \in Cluster /\ fat' = [fat EXCEPT ![tail] = got[1]]
  /\ UNCHANGED disk /\ Loose = {} /\ Loose' = {}
  /\ fat[tail] = END /\ fat[got[1]] = END /\ tail # got[1]
  /\ Changes /\ op.parent \in heads /\ tail \in Chain(op.parent)
  /\ \A h \in heads : got[1] \notin Chain(h)
  /\ \A h \in heads : h # op.parent => tail \notin Chain(h)
  /\ pc = "slot" /\ pc' = "zero" /\ Chosen(FirstSlot(got[1]))

LEMMA AppendLinkFacts ==
  ASSUME Working, Sem, EP!AppendLink, pc' = "zero", UNCHANGED <<state, disk>>,
         got[1] \in Cluster, Chosen(FirstSlot(got[1]))
  PROVE  AppendFacts
<1>1. /\ Before /\ DOMAIN fat = Cluster
      /\ UNCHANGED <<heads, disk, torn>>
      /\ task = "link" /\ task' = "idle" /\ tail' = 0 /\ visited' = {} /\ tail # 0
      /\ tail \in Cluster
      /\ pc = "slot" /\ op.slot = NoSlot /\ op.kind \in {"put", "mkdir", "move"} /\ Changes
      /\ 1 \in DOMAIN got /\ 1 <= written + 1
      /\ fat' = [fat EXCEPT ![tail] = got[1]]
  BY DEF Working, Before, EditorTyped, EP!AppendLink, EP!Rest, DiskType, TaskOf, StepOf, Changes
<1>2. op'.freed = op.freed /\ NoSlot \notin Records
  BY SlotFacts DEF Chosen, NoSlot, Records, DirSlot
<1>4. ~op.freed
  BY <1>1, <1>2 DEF Sem, Replaced, Before, StepOf
<1>5. /\ ChainsApart /\ fat[got[1]] = END /\ fat[tail] = END /\ tail # got[1]
      /\ op.parent \in heads /\ tail \in Chain(op.parent)
  BY <1>1, SoundFacts
     DEF Sem, EP!Sound, EP!NewChain, ParentHeld, DirHead, ChainsHeld, Changes
<1>6. \A h \in heads : got[1] \notin Chain(h)
  BY <1>1, BuildApart
<1>7. \A h \in heads : h # op.parent => tail \notin Chain(h)
  BY <1>5 DEF ChainsApart
<1>8. Loose = {} /\ Loose' = {}
  BY <1>1, <1>2, <1>4 DEF Loose
<1>. QED BY <1>1, <1>5, <1>6, <1>7, <1>8 DEF AppendFacts

LEMMA AppendSteady ==
  ASSUME Quieted, Before', Sem', AppendFacts
  PROVE  Steady
<1>. DEFINE T == {}
<1>1. DiskType /\ DiskType' /\ DOMAIN fat = Cluster /\ ShownIn /\ ShownIn' /\ DirSlot' = DirSlot
  <2>1. DiskType /\ DiskType'
    BY DEF Quieted, Before
  <2>2. ShownIn'
    BY <2>1, ShownInFacts, PTL
  <2>. QED BY <2>1, <2>2, ShownInFacts DEF DiskType, AppendFacts, DirSlot
<1>2. Records' = Records /\ \A s \in Records : At(s)' = At(s)
  BY DEF AppendFacts, Records, DirSlot, At
<1>3. \A s \in Held : s \in Held'
  BY <1>2 DEF Held, AppendFacts
<1>4. \A d \in Dirs : d \in heads
  BY DirsHeld DEF Quieted, Sem, DirHead
<1>5. \A s \in Records : s[1] # got[1]
  BY <1>4, NoRecords DEF AppendFacts
<1>6. \A x \in Cluster : x # tail => fat'[x] = fat[x]
  BY <1>1 DEF AppendFacts
<1>7. \A h \in heads \cup {0} : h # op.parent => \A x \in Chain(h) : fat'[x] = fat[x]
  BY <1>1, <1>6, ChainFacts DEF ChainsRead, AppendFacts
<1>8. ASSUME NEW d \in Dirs, NEW s \in Records
      PROVE  s \in ShownSlots(d)' <=> s \in ShownSlots(d)
  <2>1. CASE d # op.parent
    <3>1. \A x \in Chain(d) : fat'[x] = fat[x]
      BY <1>4, <1>7, <2>1
    <3>. QED BY <1>1, <3>1, ShownSame
  <2>2. CASE d = op.parent
    <3>1. /\ IsFiniteSet(DOMAIN fat) /\ IsFiniteSet(DOMAIN fat') /\ DOMAIN fat' = Cluster
          /\ END \notin Cluster /\ fat'[tail] = got[1] /\ fat'[got[1]] = END
      BY <1>1, ClusterFacts DEF AppendFacts
    <3>. DEFINE C == Reach(fat, d, OnDisk)
                D == Reach(fat', d, OnDisk)
                E == C \cup {got[1]}
    <3>2. C \subseteq Cluster /\ D \subseteq Cluster
      BY <1>1, <3>1, ReachIn
    <3>3. D \subseteq E
      <4>1. \A c \in E \cap OnDisk : fat'[c] \in DOMAIN fat' => fat'[c] \in E
        <5>1. ASSUME NEW c \in E \cap OnDisk, fat'[c] \in Cluster PROVE fat'[c] \in E
          <6>1. CASE c = tail
            BY <3>1, <6>1
          <6>2. CASE c # tail
            <7>1. c # got[1] /\ c \in C /\ fat'[c] = fat[c]
              BY <1>6, <3>1, <3>2, <5>1, <6>2
            <7>. QED BY <1>1, <3>1, <5>1, <7>1, ReachClosed
          <6>. QED BY <6>1, <6>2
        <5>. QED BY <3>1, <5>1
      <4>2. d \in DOMAIN fat' => d \in E
        BY <1>1, <3>1, ReachIn
      <4>. HIDE DEF E
      <4>. QED BY <3>1, <4>1, <4>2, ReachLeast
    <3>4. C \subseteq D
      <4>1. \A c \in D \cap OnDisk : fat[c] \in DOMAIN fat => fat[c] \in D
        <5>1. ASSUME NEW c \in D \cap OnDisk, fat[c] \in DOMAIN fat PROVE fat[c] \in D
          <6>1. c # tail /\ fat'[c] = fat[c]
            BY <1>1, <1>6, <3>1, <3>2, <5>1 DEF AppendFacts
          <6>. QED BY <1>1, <3>1, <5>1, <6>1, ReachClosed
        <5>. QED BY <5>1
      <4>2. d \in DOMAIN fat => d \in D
        BY <1>1, <3>1, ReachIn
      <4>. HIDE DEF D
      <4>. QED BY <1>1, <3>1, <4>1, <4>2, ReachLeast
    <3>5. s[1] \in C <=> s[1] \in D
      BY <1>5, <3>3, <3>4
    <3>. QED BY <1>1, <3>5 DEF ShownIn
  <2>. QED BY <2>1, <2>2
<1>9. ASSUME NEW s \in Held, ~At(s).dir, NEW h, h = At(s).first
      PROVE  \A c \in Chain(h) : fat'[c] = fat[c] /\ disk'[c] = disk[c]
  <2>1. h \in heads \cup {0} /\ h # op.parent
    BY <1>9 DEF Quieted, Sem, ChainsHeld, ParentHeld, DirHead, AppendFacts
  <2>. QED BY <1>7, <2>1 DEF AppendFacts
<1>10. Still(T)
  BY <1>2, <1>3, <1>8, <1>9 DEF Still
<1>. HIDE DEF T
<1>. QED BY <1>10, StillSteady

(* A record is written.  A record of a move leaves another one behind.     *)
LEMMA WrittenSteady ==
  ASSUME Quieted, Before', Sem', NEW z, NEW r, Written(z, r), z \in Records \cup Records',
         NEW T, z \in T,
         \A s \in T \cap Records : \E t \in Aims : Spot(s, At(s).name, t),
         \A s \in T \cap Records' : \E t \in Aims : Spot(s, At(s)'.name, t),
         \A s \in Held \ T : s \in Held'
  PROVE  Steady
<1>1. DiskType /\ DiskType' /\ DOMAIN fat = Cluster
  BY DEF Quieted, Before, DiskType
<1>2. /\ Records' = (Records \ {z}) \cup (IF r = FreeRecord THEN {} ELSE {z})
      /\ \A s \in Records : s # z => At(s)' = At(s)
      /\ UNCHANGED fat /\ DirSlot' = DirSlot /\ z \in DirSlot
      /\ \A c \in Cluster : c # z[1] => disk'[c] = disk[c]
      /\ \A d : Chain(d)' = Chain(d)
  BY WrittenSlots DEF Quieted, Written
<1>3. \A d : \A s : s \in ShownSlots(d)' <=> s \in ShownSlots(d)
  BY <1>1, <1>2, ShownSame
<1>4. ASSUME NEW s \in Held, ~At(s).dir, NEW h, h = At(s).first, NEW c \in Chain(h)
      PROVE  disk'[c] = disk[c]
  <2>1. c \in Cluster
    BY <1>1, <1>4, ChainFacts DEF ChainsRead
  <2>2. SUFFICES ASSUME c = z[1] PROVE FALSE
    BY <1>2, <2>1
  <2>3. \E d \in heads : z[1] \in Chain(d) /\ \A u \in Held : At(u).first = d => At(u).dir
    <3>1. CASE z \in Records
      <4>1. PICK d \in Dirs : z \in Cleared(d)
        BY <3>1 DEF Quieted, Ways, Placed
      <4>2. z \in Slots(d)
        BY <4>1 DEF Cleared
      <4>3. z[1] \in Chain(d) /\ DirHead(d)
        BY <1>1, <4>1, <4>2, ShownFacts, DirsHeld DEF Quieted, Sem
      <4>. QED BY <4>3 DEF DirHead
    <3>2. CASE z \in Records'
      <4>1. PICK t \in Aims : Spot(z, At(z)'.name, t)
        BY <3>2
      <4>2. Parent(t) \in Seq(Name) /\ Calm(Parent(t))
        BY AimFacts
      <4>3. Directory(Parent(t)) # 0
        BY <1>1, <4>1, ChainFacts DEF Spot, ChainsRead
      <4>4. DirHead(Directory(Parent(t)))
        BY <4>2, <4>3, CalmDirs
      <4>. QED BY <4>1, <4>4 DEF Spot, DirHead
    <3>. QED BY <3>1, <3>2
  <2>4. PICK d \in heads : z[1] \in Chain(d) /\ \A u \in Held : At(u).first = d => At(u).dir
    BY <2>3
  <2>5. h \in heads /\ h # d
    BY <1>1, <1>4, <2>4, ChainFacts DEF ChainsRead, Quieted, Sem, ChainsHeld
  <2>6. ChainsApart
    BY SoundFacts DEF Quieted, Sem
  <2>. QED BY <1>4, <2>2, <2>4, <2>5, <2>6 DEF ChainsApart
<1>5. \A s \in T, n \in Name :
        (s \in Records /\ At(s).name = n) \/ (s \in Records' /\ At(s)'.name = n)
          => \E t \in Aims : Spot(s, n, t)
  OBVIOUS
<1>6. OnlyTouched(T)
  BY <1>2, <1>3, <1>4, <1>5 DEF OnlyTouched
<1>. QED BY <1>6, SteadyPaths

-----------------------------------------------------------------------------
(* What the steps have to show of the paths.                               *)

NoLoose == Loose = {}

LEMMA LooseNone == DiskType /\ NoLoose => CalmHeld
<1>. SUFFICES ASSUME DiskType, NoLoose, NEW p \in Seq(Name), p # << >>, Directory(p) # 0
              PROVE  Stays(p)
  BY DEF CalmHeld
<1>1. Directory(p) = Child(Directory(Parent(p)), Last(p)) /\ Last(p) \in Name
  BY DirectorySteps, ParentFacts DEF DirectoryFacts
<1>2. PICK s \in Records : /\ s \in ShownSlots(Directory(Parent(p)))
                           /\ At(s).name = Last(p) /\ At(s).dir /\ At(s).first = Directory(p)
  BY <1>1, ChildFacts
<1>. QED BY <1>2 DEF Held, NoLoose, Stays

Resting == op = NoOp

LEMMA WaysRest == DiskType /\ Resting /\ NoLoose /\ Placed => Ways
<1>. SUFFICES ASSUME DiskType, Resting, NoLoose, Placed PROVE Ways
  OBVIOUS
<1>1. op.kind = "none" /\ op.targets = {} /\ ~Changes
  BY NoOpFacts DEF Resting, NoOp, Changes
<1>. QED BY <1>1, LooseNone DEF Ways, Aside, InPlace, OldPlace, Stack

LEMMA CalmKept ==
  ASSUME Steady, Aims' = Aims
  PROVE  CalmHeld'
<1>1. ASSUME NEW p \in Seq(Name), p # << >>, Calm(p)', Directory(p)' # 0 PROVE Stays(p)'
  <2>1. Calm(p)
    BY <1>1 DEF Calm
  <2>2. Directory(p) # 0 /\ Stays(p)'
    BY <1>1, <2>1 DEF Steady, SteadyPath
  <2>. QED BY <2>2
<1>. QED BY <1>1 DEF CalmHeld

(* The operation keeps its paths and its directory.                        *)
SameOp ==
  /\ op'.kind = op.kind /\ op'.targets = op.targets /\ op'.parent = op.parent
  /\ op'.from = op.from /\ op'.record.name = op.record.name

LEMMA WaysSame ==
  ASSUME Quieted, Steady, SameOp, op.kind # "delete",
         \A d \in Dirs : Chain(d) \subseteq Chain(d)',
         op.from \in Records' => op.from \in Records /\ At(op.from)' = At(op.from)
  PROVE  Aims' = Aims /\ Aside' /\ InPlace' /\ OldPlace' /\ Stack' /\ CalmHeld'
<1>1. Aims = op.targets /\ Aims' = op.targets
  BY DEF Aims, SameOp
<1>2. \A t \in op.targets : /\ Parent(t) \in Seq(Name)
                            /\ Directory(Parent(t))' = Directory(Parent(t))
                            /\ Directory(Parent(t)) # 0 => Directory(Parent(t)) \in Dirs
  BY <1>1, AimFacts, CalmDirs DEF Steady, SteadyPath
<1>3. Aside'
  BY DEF SameOp, Quieted, Ways, Aside
<1>4. InPlace'
  BY <1>2 DEF SameOp, Quieted, Ways, InPlace, Changes
<1>5. OldPlace'
  <2>1. SUFFICES ASSUME op.kind = "move" PROVE OldPlace'
    BY DEF SameOp, OldPlace
  <2>2. PICK t \in op.targets :
          /\ op.from[1] \in Chain(Directory(Parent(t)))
          /\ op.from \in Records => At(op.from).name = Last(t)
    BY <2>1 DEF Quieted, Ways, OldPlace
  <2>3. Directory(Parent(t)) # 0
    BY <2>2, ChainFacts DEF ChainsRead, Quieted, Before, DiskType
  <2>4. op.from[1] \in Chain(Directory(Parent(t)))'
    <3>1. PICK d : d = Directory(Parent(t))
      OBVIOUS
    <3>2. d \in Dirs /\ Directory(Parent(t))' = d
      BY <1>2, <2>3, <3>1
    <3>3. op.from[1] \in Chain(d)'
      BY <2>2, <3>1, <3>2
    <3>4. Chain(Directory(Parent(t)))' = Chain(d)'
      BY <3>2 DEF Chain
    <3>. QED BY <3>3, <3>4
  <2>5. op.from \in Records' => At(op.from)'.name = Last(t)
    BY <2>2
  <2>. QED BY <2>4, <2>5 DEF SameOp, OldPlace
<1>6. Stack'
  BY DEF SameOp, Stack
<1>7. CalmHeld'
  BY <1>1, CalmKept
<1>. QED BY <1>1, <1>3, <1>4, <1>5, <1>6, <1>7

(* The directory of an operation stays in use.                             *)
LEMMA ParentKept ==
  ASSUME Quieted, Steady, DiskType', Changes
  PROVE  op.parent \in Dirs'
<1>1. PICK t \in Aims : Directory(Parent(t)) = op.parent
  BY PlaceFacts
<1>2. Parent(t) \in Seq(Name) /\ Calm(Parent(t)) /\ op.parent # 0
  BY <1>1, AimFacts DEF Quieted, Before, StepOf, Changes
<1>3. CASE Parent(t) = << >>
  <2>1. op.parent = RootCluster
    BY <1>1, <1>3, DirectorySteps DEF DirectoryFacts, Quieted, Before
  <2>. QED BY <2>1 DEF Dirs
<1>4. CASE Parent(t) # << >>
  <2>1. Stays(Parent(t))' /\ Directory(Parent(t))' = op.parent
    BY <1>1, <1>2, <1>4 DEF Steady, SteadyPath
  <2>2. \E s \in Held' : At(s)'.dir /\ At(s)'.first = op.parent
    BY <2>1 DEF Stays
  <2>. QED BY <2>2 DEF Dirs
<1>. QED BY <1>3, <1>4

LEMMA DirsKept ==
  ASSUME Quieted, Steady, DiskType',
         \A s \in Held : At(s).dir => \E t \in Held' : At(t)'.dir /\ At(t)'.first = At(s).first
  PROVE  Dirs \subseteq Dirs'
<1>1. ASSUME NEW s \in Held, At(s).dir PROVE At(s).first \in Dirs'
  <2>1. PICK t \in Held' : At(t)'.dir /\ At(t)'.first = At(s).first
    BY <1>1
  <2>. QED BY <2>1 DEF Dirs
<1>2. RootCluster \in Dirs'
  BY DEF Dirs
<1>. QED BY <1>1, <1>2, ParentKept DEF Dirs

LEMMA PlacedKept ==
  ASSUME Quieted, DiskType', pc' = "zero" => \A s \in Records' : s[1] # op'.slot[1],
         \A d \in Dirs : \A s \in Records' : s \in Slots(d) =>
           d \in Dirs' /\ Chain(d) \subseteq Chain(d)',
         \A s \in Records' : s \in Records \/ \E d \in Dirs : s \in Slots(d)
  PROVE  Placed'
<1>1. ASSUME NEW s \in Records' PROVE \E d \in Dirs' : s \in Cleared(d)'
  <2>1. PICK d \in Dirs : s \in Slots(d)
    BY <1>1 DEF Quieted, Ways, Placed, Cleared
  <2>2. d \in Dirs' /\ s[1] \in Chain(d)' /\ s[1] \in OnDisk /\ s \in DirSlot'
    BY <1>1, <2>1, SlotsIsFacts DEF Quieted, Before, SlotsIs, Records
  <2>3. SlotsIs'
    BY SlotsIsFacts, PTL
  <2>4. s \in Slots(d)'
    BY <2>2, <2>3 DEF SlotsIs
  <2>. QED BY <1>1, <2>2, <2>4 DEF Cleared
<1>. QED BY <1>1 DEF Placed

(* The same records in the same chains.                                    *)
LEMMA PlacedSame ==
  ASSUME Quieted, Steady, DiskType', Records' \subseteq Records,
         pc' = "zero" => \A s \in Records' : s[1] # op'.slot[1],
         \A d \in Dirs : Chain(d) \subseteq Chain(d)',
         \A s \in Held : At(s).dir => s \in Held' /\ At(s)' = At(s)
  PROVE  Placed'
BY DirsKept, PlacedKept

-----------------------------------------------------------------------------
(* The paths of an operation that begins.                                  *)

Went == Steady /\ Ways'

(* A name that leads on stands in a record of a directory, and in no other. *)
LEMMA FoundRecord ==
  ASSUME Quieted, Loose = {}, pc # "zero", NEW p \in Seq(Name), p # << >>, Calm(Parent(p)),
         Directory(p) # 0
  PROVE  /\ \E t \in Records : /\ t \in Slots(Directory(Parent(p))) /\ At(t).name = Last(p)
                               /\ At(t).dir /\ At(t).first = Directory(p)
         /\ \A s \in Records : s \in Slots(Directory(Parent(p))) /\ At(s).name = Last(p)
              => At(s).dir /\ At(s).first = Directory(p)
<1>1. /\ Directory(p) = Child(Directory(Parent(p)), Last(p)) /\ Last(p) \in Name
      /\ Parent(p) \in Seq(Name) /\ DiskType /\ Held = Records
  BY DirectorySteps, ParentFacts DEF DirectoryFacts, Quieted, Before, Held
<1>2. PICK t \in Records : /\ t \in Slots(Directory(Parent(p))) /\ At(t).name = Last(p)
                           /\ At(t).dir /\ At(t).first = Directory(p)
  BY <1>1, ChildFacts
<1>3. Directory(Parent(p)) # 0
  BY <1>1, <1>2, ShownFacts, ChainFacts DEF ChainsRead, DiskType
<1>4. Directory(Parent(p)) \in Dirs
  BY <1>1, <1>3, CalmDirs
<1>5. ASSUME NEW s \in Records, s \in Slots(Directory(Parent(p))), At(s).name = Last(p)
      PROVE  s = t
  BY <1>1, <1>2, <1>4, <1>5 DEF Quieted, Sem, NamesApart, Cleared
<1>. QED BY <1>2, <1>5

LEMMA BeyondNone ==
  ASSUME DiskType, NEW p \in Seq(Name), p # << >>, Directory(p) # 0
  PROVE  Directory(Parent(p)) # 0
<1>1. /\ Directory(p) = Child(Directory(Parent(p)), Last(p)) /\ Last(p) \in Name
  BY DirectorySteps, ParentFacts DEF DirectoryFacts
<1>2. PICK t \in Records : t \in Slots(Directory(Parent(p)))
  BY <1>1, ChildFacts
<1>. QED BY <1>2, ShownFacts, ChainFacts DEF ChainsRead, DiskType

(* A path that leads somewhere leads there by way of its beginnings.       *)
LEMMA ByWayOf ==
  ASSUME DiskType, NEW x \in Seq(Name), NEW y \in Seq(Name), IsPrefix(x, y), Directory(y) # 0
  PROVE  Directory(x) # 0
<1>. DEFINE P == {n \in Nat : \A q \in Seq(Name) : Len(q) = n /\ IsPrefix(x, q)
                                /\ Directory(q) # 0 => Directory(x) # 0}
<1>1. ASSUME NEW q \in Seq(Name), IsPrefix(x, q), Len(q) <= Len(x) PROVE x = q
  <2>1. Len(q) = Len(x)
    BY <1>1, PrefixFacts
  <2>2. \A i \in 1 .. Len(x) : q[i] = x[i]
    BY <1>1, PrefixMeans
  <2>. QED BY <2>1, <2>2
<1>2. 0 \in P
  <2>1. \A q \in Seq(Name) : Len(q) = 0 => Len(q) <= Len(x)
    OBVIOUS
  <2>. QED BY <1>1, <2>1
<1>3. ASSUME NEW n \in P PROVE n + 1 \in P
  <2>. SUFFICES ASSUME NEW q \in Seq(Name), Len(q) = n + 1, IsPrefix(x, q), Directory(q) # 0
                PROVE  Directory(x) # 0
    OBVIOUS
  <2>1. CASE Len(q) <= Len(x)
    BY <1>1, <2>1
  <2>2. CASE ~(Len(q) <= Len(x))
    <3>1. q # << >>
      OBVIOUS
    <3>. DEFINE r == Parent(q)
    <3>2. r \in Seq(Name) /\ Len(r) = n /\ \A i \in 1 .. n : r[i] = q[i]
      <4>1. /\ r \in Seq(Name) /\ Len(r) = Len(q) - 1
            /\ \A i \in 1 .. Len(q) - 1 : r[i] = q[i]
        BY <3>1, ParentFacts
      <4>2. Len(q) - 1 = n
        OBVIOUS
      <4>. QED BY <4>1, <4>2
    <3>3. Directory(r) # 0
      BY <3>1, BeyondNone
    <3>. HIDE DEF r
    <3>4. Len(x) <= Len(r) /\ \A i \in 1 .. Len(x) : i \in 1 .. n
      BY <2>2, <3>2
    <3>5. \A i \in 1 .. Len(x) : q[i] = x[i]
      BY PrefixMeans
    <3>6. \A i \in 1 .. Len(x) : r[i] = x[i]
      BY <3>2, <3>4, <3>5
    <3>7. IsPrefix(x, r)
      BY <3>2, <3>4, <3>6, PrefixMeans
    <3>. QED BY <3>2, <3>3, <3>7
  <2>. QED BY <2>1, <2>2
<1>4. P = Nat
  <2>. HIDE DEF P
  <2>1. P \subseteq Nat
    BY DEF P
  <2>. QED BY <1>2, <1>3, <2>1, Induct
<1>. QED BY <1>4

WaysBegun ==
  /\ Steady /\ CalmHeld' /\ Placed'
  /\ \A p \in Seq(Name) : Calm(p) /\ Directory(p)' = Directory(p)
  /\ Records' = Records /\ (\A s : At(s)' = At(s)) /\ Held = Records /\ Loose = {}
  /\ \A d : Slots(d)' = Slots(d) /\ Chain(d)' = Chain(d)
  /\ \A s \in Records : s \in DirSlot /\ s[1] \in Cluster
  /\ \A d : \A s \in Slots(d) : s[1] \in Chain(d)

LEMMA BeginWays ==
  ASSUME Quieted, Before', Sem', pc = "idle", UNCHANGED <<fat, disk>>,
         pc' \notin {"unlink", "zero"}, op'.freed => task' = "free" /\ visited' = {}
  PROVE  WaysBegun
<1>1. /\ Held = Records /\ Loose = {} /\ op = NoOp /\ DiskType /\ DiskType'
  BY ReadyFacts DEF Quieted, Before
<1>2. /\ Records' = Records /\ \A s : At(s)' = At(s)
      /\ \A d : Slots(d)' = Slots(d) /\ Chain(d)' = Chain(d)
  BY StillFacts
<1>3. Loose' = {}
  BY DEF Loose
<1>4. Held' = Records
  BY <1>2, <1>3 DEF Held
<1>5. Steady
  BY <1>1, <1>4, SameSteady
<1>6. Aims = {}
  BY <1>1, NoOpFacts DEF Aims, NoOp
<1>7. \A p \in Seq(Name) : Calm(p) /\ Directory(p)' = Directory(p)
  BY <1>5, <1>6 DEF Calm, Steady, SteadyPath
<1>8. CalmHeld'
  <2>1. DiskType' /\ NoLoose'
    BY <1>1, <1>3 DEF NoLoose
  <2>. QED BY <2>1, LooseNone, PTL
<1>9. Placed'
  BY <1>1, <1>2, <1>4, <1>5, PlacedSame
<1>10. /\ \A s \in Records : s \in DirSlot /\ s[1] \in Cluster
       /\ \A d : \A s \in Slots(d) : s[1] \in Chain(d)
  BY <1>1, ShownFacts, AtFacts DEF AtTyped
<1>. QED BY <1>1, <1>2, <1>5, <1>7, <1>8, <1>9, <1>10 DEF WaysBegun

LEMMA PutFileWays ==
  ASSUME Quieted, Before', Sem', NEW p, NEW size, NEW content, PutFileFacts(p, size, content)
  PROVE  Went
<1>1. /\ pc = "idle" /\ pc' = "alloc" /\ UNCHANGED disk /\ p \in Seq(Name) /\ p # << >>
      /\ op'.kind = "put" /\ op'.targets = {p} /\ op'.parent = Directory(Parent(p))
      /\ op'.record.name = Last(p)
  BY DEF PutFileFacts, Begun, Ready
<1>2. UNCHANGED fat /\ (op'.freed => task' = "free" /\ visited' = {})
  BY <1>1, ReadyFacts DEF PutFileFacts, chainMap, EP!BeginFree, Quieted
<1>3. WaysBegun
  BY <1>1, <1>2, BeginWays
<1>4. Parent(p) \in Seq(Name) /\ ~IsPrefix(p, Parent(p))
  BY <1>1, ParentFacts, PrefixFacts
<1>5. Aside' /\ InPlace' /\ OldPlace' /\ Stack'
  BY <1>1, <1>3, <1>4 DEF Aside, InPlace, OldPlace, Stack, WaysBegun
<1>. QED BY <1>3, <1>5 DEF Went, Ways, WaysBegun

LEMMA CreateDirectoryWays ==
  ASSUME Quieted, Before', Sem', NEW p, CreateDirectoryFacts(p)
  PROVE  Went
<1>1. /\ pc = "idle" /\ pc' = "alloc" /\ UNCHANGED <<fat, disk>> /\ p \in Seq(Name) /\ p # << >>
      /\ op'.kind = "mkdir" /\ op'.targets = {p} /\ op'.parent = Directory(Parent(p))
      /\ op'.record.name = Last(p) /\ ~op'.freed
  BY DEF CreateDirectoryFacts, Begun, Ready, chainMap
<1>3. WaysBegun
  BY <1>1, BeginWays
<1>4. Parent(p) \in Seq(Name) /\ ~IsPrefix(p, Parent(p))
  BY <1>1, ParentFacts, PrefixFacts
<1>5. Aside' /\ InPlace' /\ OldPlace' /\ Stack'
  BY <1>1, <1>3, <1>4 DEF Aside, InPlace, OldPlace, Stack, WaysBegun
<1>. QED BY <1>3, <1>5 DEF Went, Ways, WaysBegun

LEMMA MoveWays ==
  ASSUME Quieted, Before', Sem', NEW p, NEW q, MoveFacts(p, q), state' # "hurt"
  PROVE  Went
<1>1. /\ pc = "idle" /\ pc' \in {"rename", "delete"} /\ UNCHANGED <<fat, disk>>
      /\ p \in Seq(Name) /\ p # << >> /\ q \in Seq(Name) /\ q # << >>
      /\ Parent(p) \in Seq(Name) /\ Parent(q) \in Seq(Name)
      /\ op'.kind = "move" /\ op'.targets = {p, q} /\ op'.parent = Directory(Parent(q))
      /\ op'.record.name = Last(q) /\ ~op'.freed /\ op'.from \in Lookup(p)
      /\ Directory(Parent(p)) # 0 /\ Directory(Parent(q)) # 0
      /\ At(op'.from).dir => ~IsPrefix(p, q)
      /\ \A d \in Lookup(q) : Lookup(q) # {}
      /\ Lookup(q) # {} => \E d \in Lookup(q) : ~At(d).dir
  BY ParentFacts, ClusterFacts DEF MoveFacts, Begun, Ready, chainMap
<1>2. DiskType
  BY DEF Quieted, Before
<1>3. WaysBegun
  BY <1>1, BeginWays
<1>4. /\ op'.from \in Records /\ op'.from \in Slots(Directory(Parent(p)))
      /\ At(op'.from).name = Last(p)
  BY <1>1, <1>2, LookupFacts
<1>5. ~IsPrefix(p, Parent(p)) /\ ~IsPrefix(q, Parent(q))
  BY <1>1, PrefixFacts
<1>6. ~IsPrefix(p, Parent(q))
  <2>1. SUFFICES ASSUME IsPrefix(p, Parent(q)) PROVE FALSE
    OBVIOUS
  <2>2. Directory(p) # 0
    BY <1>1, <1>2, <2>1, ByWayOf
  <2>3. At(op'.from).dir
    BY <1>1, <1>3, <1>4, <2>2, FoundRecord DEF WaysBegun
  <2>4. IsPrefix(p, q)
    BY <1>1, <2>1, PrefixFacts
  <2>. QED BY <1>1, <2>3, <2>4
<1>7. ~IsPrefix(q, Parent(p))
  <2>1. SUFFICES ASSUME IsPrefix(q, Parent(p)) PROVE FALSE
    OBVIOUS
  <2>2. Directory(q) # 0
    BY <1>1, <1>2, <2>1, ByWayOf
  <2>3. /\ Calm(Parent(q)) /\ Loose = {} /\ pc # "zero"
    BY <1>1, <1>3 DEF WaysBegun
  <2>4. /\ \E t \in Records : t \in Slots(Directory(Parent(q))) /\ At(t).name = Last(q)
        /\ \A s \in Records : s \in Slots(Directory(Parent(q))) /\ At(s).name = Last(q)
             => At(s).dir
    BY <1>1, <2>2, <2>3, FoundRecord
  <2>5. Lookup(q) # {} /\ \A s \in Lookup(q) : At(s).dir
    BY <1>1, <1>2, <2>4, LookupFacts
  <2>. QED BY <1>1, <2>5
<1>8. Aside'
  BY <1>1, <1>5, <1>6, <1>7 DEF Aside
<1>9. InPlace'
  BY <1>1, <1>3 DEF InPlace, WaysBegun
<1>10. OldPlace'
  <2>1. op'.from[1] \in Chain(Directory(Parent(p)))
    BY <1>3, <1>4 DEF WaysBegun
  <2>2. PICK d : d = Directory(Parent(p))
    OBVIOUS
  <2>3. Directory(Parent(p))' = d /\ op'.from[1] \in Chain(d)'
    BY <1>1, <1>3, <2>1, <2>2 DEF WaysBegun
  <2>4. Chain(Directory(Parent(p)))' = Chain(d)'
    BY <2>3 DEF Chain
  <2>5. At(op.from)'.name = Last(p)
    <3>1. PICK z : z = op'.from
      OBVIOUS
    <3>2. At(z)' = At(z) /\ At(op.from)' = At(z)'
      BY <1>3, <3>1 DEF WaysBegun, At
    <3>. QED BY <1>4, <3>1, <3>2
  <2>. QED BY <1>1, <2>3, <2>4, <2>5 DEF OldPlace
<1>11. Stack'
  BY <1>1 DEF Stack
<1>. QED BY <1>3, <1>8, <1>9, <1>10, <1>11 DEF Went, Ways, WaysBegun

-----------------------------------------------------------------------------
(* The stack of a deletion.                                                *)

StackOf(t) ==
  /\ op.stack = t
  /\ \A i \in DOMAIN t : FrameAt(t[i]) /\ Emptied(t[i])
  /\ \A i, j \in DOMAIN t : i < j =>
       Len(t[i].path) < Len(t[j].path) /\ At(t[i].slot).dir
  /\ \A i \in DOMAIN t :
       At(t[i].slot).dir /\ (pc = "delete" \/ t[i].path # t[Len(t)].path)
         => Directory(t[i].path) = At(t[i].slot).first
  /\ pc = "mark" => t[Len(t)].todo = {}

StackStands == op.stack \in Seq(Frames) /\ StackOf(op.stack)

LEMMA StackStandsFacts == StackStands => Stack
BY DEF StackStands, StackOf, Stack, Top

LEMMA StackMade ==
  ASSUME NEW t \in Seq(Frames), StackOf(t)'
  PROVE  Stack'
<1>1. StackStands'
  BY DEF StackOf, StackStands, FrameAt, Emptied
<1>. QED BY <1>1, StackStandsFacts, PTL

LowFrame(f) ==
  /\ f.path \in Seq(Name) /\ f.path # << >> /\ Parent(f.path) \in Seq(Name)
  /\ Calm(Parent(f.path)) /\ Directory(Parent(f.path)) \in Dirs
  /\ Directory(Parent(f.path)) \in heads
  /\ FrameAt(f) /\ Emptied(f)

HighFrame(f) ==
  /\ f.path # Top.path /\ f.slot # Top.slot
  /\ Calm(f.path) /\ f.slot \in Held /\ At(f.slot).dir
  /\ Directory(f.path) = At(f.slot).first /\ Directory(f.path) \in Dirs
  /\ Directory(f.path) \in heads

LEMMA StackFrames ==
  ASSUME Quieted, op.kind = "delete"
  PROVE  /\ op.stack \in Seq(Frames) /\ Len(op.stack) \in Nat \ {0}
         /\ Top = op.stack[Len(op.stack)] /\ Top.path \in Seq(Name)
         /\ Aims = {Top.path} /\ Loose \subseteq {Top.slot}
         /\ pc \in {"delete", "mark"}
         /\ \A i \in DOMAIN op.stack : LowFrame(op.stack[i])
         /\ \A i \in DOMAIN op.stack : i # Len(op.stack) => HighFrame(op.stack[i])
<1>1. /\ Before /\ DiskType /\ pc \in {"delete", "mark"} /\ Sem /\ Stack
  BY NoOpFacts DEF Quieted, Before, StepOf, TypeInv, TypeOK, Ways
<1>2. PICK n : n = Len(op.stack)
  OBVIOUS
<1>3. /\ op.stack \in Seq(Frames) /\ n \in Nat \ {0} /\ n \in DOMAIN op.stack
      /\ Top = op.stack[n] /\ DOMAIN op.stack = 1 .. n
      /\ \A i \in DOMAIN op.stack : op.stack[i] \in Frames
  BY <1>1, <1>2, TopFacts DEF Top
<1>4. Aims = {Top.path} /\ Loose \subseteq {Top.slot}
  BY <1>1 DEF Aims, Loose
<1>5. ASSUME NEW i \in DOMAIN op.stack
      PROVE  /\ op.stack[i].path \in Seq(Name) /\ op.stack[i].path # << >>
             /\ Parent(op.stack[i].path) \in Seq(Name)
             /\ Len(Parent(op.stack[i].path)) = Len(op.stack[i].path) - 1
             /\ Len(op.stack[i].path) \in Nat \ {0}
             /\ FrameAt(op.stack[i]) /\ Emptied(op.stack[i])
  <2>1. op.stack[i].path \in Seq(Name)
    BY <1>3 DEF Frames
  <2>2. FrameAt(op.stack[i]) /\ Emptied(op.stack[i])
    BY <1>1 DEF Stack
  <2>3. op.stack[i].path # << >>
    BY <2>2 DEF FrameAt
  <2>. QED BY <2>1, <2>2, <2>3, ParentFacts
<1>6. \A i \in DOMAIN op.stack : i # n => /\ Len(op.stack[i].path) < Len(Top.path)
                                          /\ At(op.stack[i].slot).dir
  BY <1>1, <1>3 DEF Stack
<1>7. Top.path \in Seq(Name) /\ Len(Top.path) \in Nat
  BY <1>3, <1>5
<1>8. ASSUME NEW q \in Seq(Name), Len(q) < Len(Top.path) PROVE Calm(q)
  BY <1>4, <1>7, <1>8, PrefixFacts DEF Calm
<1>9. ASSUME NEW i \in DOMAIN op.stack PROVE LowFrame(op.stack[i])
  <2>1. Len(Parent(op.stack[i].path)) < Len(Top.path)
    <3>1. i = n \/ Len(op.stack[i].path) < Len(Top.path)
      BY <1>6
    <3>. QED BY <1>3, <1>5, <1>7, <3>1
  <2>2. Calm(Parent(op.stack[i].path))
    BY <1>5, <1>8, <2>1
  <2>3. Directory(Parent(op.stack[i].path)) # 0
    BY <1>1, <1>5, ShownFacts, ChainFacts DEF FrameAt, ChainsRead, DiskType
  <2>. QED BY <1>5, <2>2, <2>3, CalmDirs DEF LowFrame
<1>10. ASSUME NEW i \in DOMAIN op.stack, i # n PROVE HighFrame(op.stack[i])
  <2>1. op.stack[i].path # Top.path /\ Calm(op.stack[i].path) /\ At(op.stack[i].slot).dir
    BY <1>5, <1>6, <1>7, <1>8, <1>10
  <2>2. Directory(op.stack[i].path) = At(op.stack[i].slot).first
    BY <1>1, <2>1 DEF Stack
  <2>3. op.stack[i].slot # Top.slot
    <3>1. SUFFICES ASSUME op.stack[i].slot = Top.slot PROVE FALSE
      OBVIOUS
    <3>2. LowFrame(op.stack[i]) /\ LowFrame(Top)
      BY <1>3, <1>9
    <3>3. /\ Top.slot \in Slots(Directory(Parent(op.stack[i].path)))
          /\ Top.slot \in Slots(Directory(Parent(Top.path)))
      BY <3>1, <3>2 DEF LowFrame, FrameAt
    <3>4. Top.slot[1] \in Chain(Directory(Parent(Top.path))) /\ ChainsApart
      BY <1>1, <3>3, ShownFacts, SoundFacts DEF Sem
    <3>5. Directory(Parent(op.stack[i].path)) = Directory(Parent(Top.path))
      BY <1>1, <3>2, <3>3, <3>4, SlotsApart DEF LowFrame
    <3>6. Directory(Parent(Top.path)) # 0
      BY <1>1, <3>3, ShownFacts, ChainFacts DEF ChainsRead, DiskType
    <3>7. Parent(op.stack[i].path) = Parent(Top.path)
      BY <3>2, <3>5, <3>6, CalmApart DEF LowFrame
    <3>8. Len(op.stack[i].path) - 1 = Len(Top.path) - 1
      BY <1>3, <1>5, <3>7
    <3>. QED BY <1>3, <1>5, <1>6, <1>7, <1>10, <3>8
  <2>4. op.stack[i].slot \in Held
    BY <1>4, <1>5, <2>3 DEF Held, FrameAt
  <2>5. Directory(op.stack[i].path) \in Dirs
    BY <2>1, <2>2, <2>4 DEF Dirs
  <2>6. Directory(op.stack[i].path) \in heads
    BY <1>1, <2>5, DirsHeld DEF Sem, DirHead
  <2>. QED BY <2>1, <2>2, <2>3, <2>4, <2>5, <2>6 DEF HighFrame
<1>. QED BY <1>1, <1>2, <1>3, <1>4, <1>7, <1>9, <1>10

-----------------------------------------------------------------------------
(* The paths of a deletion, step by step.                                  *)

LEMMA TodoFacts ==
  ASSUME DiskType, NEW p \in Seq(Name), NEW s \in Records
  PROVE  /\ Frame(p, s) \in Frames /\ Frame(p, s).path = p /\ Frame(p, s).slot = s
         /\ At(s).dir => \A e \in Records \cap Slots(At(s).first) : At(e).name \in Frame(p, s).todo
<1>1. Frame(p, s) \in Frames /\ Frame(p, s).path = p /\ Frame(p, s).slot = s
  BY FrameFacts DEF Frames
<1>2. ASSUME At(s).dir, NEW e \in Records \cap Slots(At(s).first)
      PROVE  At(e).name \in Frame(p, s).todo
  BY <1>2 DEF Frame, Entries, Records
<1>. QED BY <1>1, <1>2

(* Reading changes nothing.                                                *)
SameView ==
  /\ Steady /\ CalmHeld' /\ Placed' /\ Loose = {} /\ Held = Records
  /\ \A p \in Seq(Name) : Directory(p)' = Directory(p)
  /\ Records' = Records /\ (\A s : At(s)' = At(s))
  /\ \A d : Slots(d)' = Slots(d) /\ Chain(d)' = Chain(d)

LEMMA DirectorySame ==
  ASSUME DiskType, DiskType', UNCHANGED <<fat, disk>>
  PROVE  \A p \in Seq(Name) : Directory(p)' = Directory(p)
<1>. DEFINE P == {n \in Nat : \A q \in Seq(Name) : Len(q) = n => Directory(q)' = Directory(q)}
<1>1. DirectoryFacts /\ DirectoryFacts' /\ ChildRead /\ ChildRead'
  <2>1. DirectoryFacts' /\ ChildRead'
    BY DirectorySteps, ChildIs, PTL
  <2>. QED BY <2>1, DirectorySteps, ChildIs
<1>2. \A d, n : Child(d, n)' = Child(d, n)
  <2>1. \A d, n : Passed(d, n)' = Passed(d, n)
    BY DEF Passed, ShownSlots, SlotsIn, At, Chain
  <2>. QED BY <1>1, <2>1, StillFacts DEF ChildRead
<1>3. 0 \in P
  BY <1>1 DEF DirectoryFacts
<1>4. ASSUME NEW n \in P PROVE n + 1 \in P
  <2>. SUFFICES ASSUME NEW q \in Seq(Name), Len(q) = n + 1 PROVE Directory(q)' = Directory(q)
    OBVIOUS
  <2>1. q # << >>
    OBVIOUS
  <2>2. Parent(q) \in Seq(Name) /\ Len(Parent(q)) = n
    BY <2>1, ParentFacts
  <2>3. Directory(Parent(q))' = Directory(Parent(q))
    BY <2>2
  <2>4. Directory(q) = Child(Directory(Parent(q)), Last(q))
    BY <1>1, <2>1 DEF DirectoryFacts
  <2>5. Directory(q)' = Child(Directory(Parent(q)), Last(q))'
    BY <1>1, <2>1 DEF DirectoryFacts
  <2>6. PICK d : d = Directory(Parent(q))
    OBVIOUS
  <2>7. Child(Directory(Parent(q)), Last(q))' = Child(d, Last(q))'
    BY <2>3, <2>6 DEF Child
  <2>. QED BY <1>2, <2>4, <2>5, <2>6, <2>7
<1>5. P = Nat
  <2>. HIDE DEF P
  <2>1. P \subseteq Nat
    BY DEF P
  <2>. QED BY <1>3, <1>4, <2>1, Induct
<1>. QED BY <1>5

LEMMA ReadOnly ==
  ASSUME Quieted, Before', Sem', UNCHANGED <<fat, disk>>, pc' # "zero", Loose = {}, Loose' = {}
  PROVE  SameView
<1>1. DiskType /\ DiskType' /\ Held = Records
  BY DEF Quieted, Before, Held
<1>2. /\ Records' = Records /\ \A s : At(s)' = At(s)
      /\ \A d : Slots(d)' = Slots(d) /\ Chain(d)' = Chain(d)
  BY StillFacts
<1>3. Held' = Held
  BY <1>1, <1>2 DEF Held
<1>4. Steady
  BY <1>3, SameSteady
<1>5. CalmHeld'
  <2>1. DiskType' /\ NoLoose'
    BY <1>1 DEF NoLoose
  <2>. QED BY <2>1, LooseNone, PTL
<1>6. Placed'
  BY <1>1, <1>2, <1>3, <1>4, PlacedSame
<1>7. \A p \in Seq(Name) : Directory(p)' = Directory(p)
  BY <1>1, DirectorySame
<1>. QED BY <1>1, <1>2, <1>4, <1>5, <1>6, <1>7 DEF SameView

(* A new frame, and the frames of an unchanged view.                       *)
LEMMA FrameSeen ==
  ASSUME SameView, NEW f, Parent(f.path) \in Seq(Name),
         FrameAt(f) \/ (/\ f.path # << >> /\ f.slot \in Records
                        /\ f.slot \in Slots(Directory(Parent(f.path)))
                        /\ At(f.slot).name = Last(f.path)),
         \E t \in op'.targets : IsPrefix(t, f.path)
  PROVE  FrameAt(f)'
<1>1. /\ f.path # << >> /\ f.slot \in Records /\ f.slot \in Slots(Directory(Parent(f.path)))
      /\ At(f.slot).name = Last(f.path)
  BY DEF FrameAt
<1>2. PICK d : d = Directory(Parent(f.path))
  OBVIOUS
<1>3. Directory(Parent(f.path))' = d /\ f.slot \in Slots(d)'
  BY <1>1, <1>2 DEF SameView
<1>4. Slots(Directory(Parent(f.path)))' = Slots(d)'
  BY <1>3 DEF Slots, Chain
<1>. QED BY <1>1, <1>3, <1>4 DEF SameView, FrameAt

LEMMA DeleteWays ==
  ASSUME Quieted, Before', Sem', NEW p \in Path \ {<< >>}, NEW recursive \in BOOLEAN,
         Delete(p, recursive), DeleteFacts(p)
  PROVE  Went
<1>1. /\ pc = "idle" /\ pc' = "delete" /\ UNCHANGED <<fat, disk>>
      /\ p \in Seq(Name) /\ p # << >> /\ Parent(p) \in Seq(Name)
      /\ op'.kind = "delete" /\ op'.targets = {p} /\ ~op'.freed
      /\ Directory(Parent(p)) # 0 /\ DiskType
  BY PathSequences, ParentFacts DEF DeleteFacts, Begun, Ready, chainMap, Delete, Before
<1>2. PICK s \in Lookup(p) : /\ At(s).dir => Directory(p) # 0
                             /\ op'.stack = <<Frame(p, s)>>
  BY DEF Delete, NoOp
<1>3. WaysBegun /\ Loose' = {}
  BY <1>1, BeginWays DEF Loose
<1>4. SameView
  BY <1>1, <1>3, ReadOnly DEF WaysBegun
<1>5. s \in Records /\ s \in Slots(Directory(Parent(p))) /\ At(s).name = Last(p)
  BY <1>1, <1>2, LookupFacts
<1>6. At(s).dir => At(s).first = Directory(p)
  BY <1>1, <1>2, <1>3, <1>5, FoundRecord DEF WaysBegun
<1>7. PICK f \in Frames : f = Frame(p, s)
  BY <1>1, <1>5, TodoFacts
<1>8. /\ f.path = p /\ f.slot = s
      /\ At(s).dir => \A e \in Records \cap Slots(At(s).first) : At(e).name \in f.todo
  BY <1>1, <1>5, <1>7, TodoFacts
<1>9. IsPrefix(p, p) /\ ~IsPrefix(p, Parent(p))
  BY <1>1, PrefixFacts
<1>10. FrameAt(f)'
  BY <1>1, <1>4, <1>5, <1>8, <1>9, FrameSeen
<1>11. Emptied(f)'
  BY <1>4, <1>8 DEF SameView, Emptied
<1>12. At(f.slot)'.dir => Directory(f.path)' = At(f.slot)'.first
  BY <1>1, <1>4, <1>6, <1>8 DEF SameView
<1>13. PICK t \in Seq(Frames) : t = <<f>> /\ DOMAIN t = {1} /\ t[1] = f /\ Len(t) = 1
  <2>1. <<f>> \in Seq(Frames) /\ DOMAIN <<f>> = {1} /\ <<f>>[1] = f /\ Len(<<f>>) = 1
    OBVIOUS
  <2>. QED BY <2>1, Zenon
<1>14. StackOf(t)'
  <2>1. op'.stack = t
    BY <1>2, <1>7, <1>13
  <2>2. \A i, j \in DOMAIN t : ~(i < j)
    BY <1>13
  <2>. QED BY <1>1, <1>10, <1>11, <1>12, <1>13, <2>1, <2>2 DEF StackOf
<1>15. Stack'
  BY <1>14, StackMade
<1>16. Aside' /\ InPlace' /\ OldPlace'
  BY <1>1, <1>9 DEF Aside, InPlace, OldPlace, Changes
<1>. QED BY <1>4, <1>15, <1>16 DEF SameView, Went, Ways

LEMMA DeleteChildWays ==
  ASSUME Quieted, Before', Sem', DeleteChild, DeleteChildFacts
  PROVE  Went
<1>1. /\ pc = "delete" /\ pc' = "delete" /\ UNCHANGED <<fat, disk>> /\ op.kind = "delete"
      /\ op'.kind = "delete" /\ op'.targets = op.targets /\ ~op.freed /\ ~op'.freed
      /\ DiskType /\ Sem /\ Before
  BY DEF DeleteChildFacts, Working, Stacked, chainMap, Before, StepOf, Quieted
<1>2. Loose = {} /\ Loose' = {} /\ Held = Records
  BY <1>1 DEF Loose, Held
<1>3. SameView
  BY <1>1, <1>2, ReadOnly
<1>4. PICK x, s :
        /\ x \in Top.todo /\ s \in Lookup(Append(Top.path, x))
        /\ \E r \in Lookup(Append(Top.path, x)) : At(r).dir => Directory(Append(Top.path, x)) # 0
        /\ op' = [op EXCEPT !.stack = Append(Append(Parent(@), [Top EXCEPT !.todo = @ \ {x}]),
                                             Frame(Append(Top.path, x), s))]
  BY <1>1 DEF DeleteChild, Stop
<1>5. PICK n : n = Len(op.stack)
  OBVIOUS
<1>6. /\ op.stack \in Seq(Frames) /\ n \in Nat \ {0} /\ Top = op.stack[n]
      /\ Top \in Frames /\ DOMAIN op.stack = 1 .. n
      /\ Parent(op.stack) \in Seq(Frames) /\ Len(Parent(op.stack)) = n - 1
      /\ \A i \in 1 .. n - 1 : Parent(op.stack)[i] = op.stack[i]
      /\ LowFrame(Top)
      /\ \A i \in 1 .. n - 1 : LowFrame(op.stack[i]) /\ HighFrame(op.stack[i])
  BY <1>1, <1>5, StackFrames, TopFacts, ParentFacts
<1>7. PICK p \in Seq(Name) : /\ p = Append(Top.path, x) /\ p # << >> /\ Parent(p) = Top.path
                             /\ Last(p) = x /\ Len(p) = Len(Top.path) + 1
  <2>1. Top.path \in Seq(Name) /\ x \in Name
    BY <1>4, <1>6 DEF Frames
  <2>. QED BY <2>1, Extended
<1>8. s \in Records /\ s \in Slots(Directory(Top.path)) /\ At(s).name = x
  BY <1>1, <1>4, <1>7, LookupFacts
<1>9. At(Top.slot).dir /\ At(Top.slot).first = Directory(Top.path) /\ Directory(Top.path) \in Dirs
  <2>1. Directory(Top.path) # 0
    BY <1>1, <1>8, ShownFacts, ChainFacts DEF ChainsRead, DiskType
  <2>2. /\ Top.path \in Seq(Name) /\ Top.path # << >> /\ Calm(Parent(Top.path))
        /\ Top.slot \in Records /\ Top.slot \in Slots(Directory(Parent(Top.path)))
        /\ At(Top.slot).name = Last(Top.path)
    BY <1>6 DEF LowFrame, FrameAt
  <2>3. At(Top.slot).dir /\ At(Top.slot).first = Directory(Top.path)
    BY <1>1, <1>2, <2>1, <2>2, FoundRecord
  <2>. QED BY <1>2, <2>2, <2>3 DEF Dirs
<1>10. ASSUME NEW r \in Records, r \in Slots(Directory(Top.path)), At(r).name = x
       PROVE  r = s
  BY <1>1, <1>2, <1>8, <1>9, <1>10 DEF Sem, NamesApart, Cleared
<1>11. At(s).dir => Directory(p) = At(s).first
  <2>1. At(s).dir => Directory(p) # 0
    BY <1>1, <1>4, <1>7, <1>10, LookupFacts
  <2>2. Directory(p) # 0 => \E r \in Records : /\ r \in Slots(Directory(Top.path)) /\ At(r).name = x
                                               /\ At(r).first = Directory(p)
    <3>1. Directory(p) = Child(Directory(Top.path), x) /\ x \in Name
      BY <1>1, <1>7, DirectorySteps, ParentFacts DEF DirectoryFacts
    <3>. QED BY <1>1, <3>1, ChildFacts
  <2>. QED BY <1>10, <2>1, <2>2
<1>12. PICK g \in Frames : g = Frame(p, s)
  BY <1>1, <1>8, TodoFacts
<1>13. /\ g.path = p /\ g.slot = s
       /\ At(s).dir => \A e \in Records \cap Slots(At(s).first) : At(e).name \in g.todo
  BY <1>1, <1>8, <1>12, TodoFacts
<1>14. PICK f \in Frames : /\ f = [Top EXCEPT !.todo = @ \ {x}]
                           /\ f.path = Top.path /\ f.slot = Top.slot /\ f.todo = Top.todo \ {x}
  <2>. DEFINE f == [Top EXCEPT !.todo = @ \ {x}]
  <2>1. f \in Frames /\ f.path = Top.path /\ f.slot = Top.slot /\ f.todo = Top.todo \ {x}
    BY <1>6 DEF Frames
  <2>. QED BY <2>1, Zenon
<1>15. PICK t \in Seq(Frames) : /\ op'.stack = t /\ Len(t) = n + 1 /\ DOMAIN t = 1 .. n + 1
                                /\ \A i \in 1 .. n - 1 : t[i] = op.stack[i]
                                /\ t[n] = f /\ t[n + 1] = g
  <2>. DEFINE u == Append(Parent(op.stack), f)
              t == Append(u, g)
  <2>1. u \in Seq(Frames) /\ Len(u) = n /\ u[n] = f /\ \A i \in 1 .. n - 1 : u[i] = op.stack[i]
    BY <1>6
  <2>2. op' = [op EXCEPT !.stack = t]
    BY <1>4, <1>7, <1>12, <1>14
  <2>. HIDE DEF u
  <2>3. t \in Seq(Frames) /\ Len(t) = n + 1 /\ DOMAIN t = 1 .. n + 1 /\ t[n + 1] = g
    BY <1>6, <2>1
  <2>4. t[n] = f /\ \A i \in 1 .. n - 1 : t[i] = op.stack[i]
    BY <1>6, <2>1
  <2>5. op'.stack = t
    BY <1>1, <2>2 DEF Before, Operation
  <2>. HIDE DEF t
  <2>. QED BY <2>3, <2>4, <2>5
<1>16. /\ \A i \in 1 .. n + 1 : i \in 1 .. n - 1 \/ i = n \/ i = n + 1
       /\ \A i, j \in 1 .. n + 1 : i < j => /\ i \in 1 .. n - 1 \/ (i = n /\ j = n + 1)
                                            /\ j \in 1 .. n - 1 \/ j = n \/ j = n + 1
       /\ \A i \in 1 .. n - 1 : i \in 1 .. n /\ i < n /\ i # n
       /\ n \in 1 .. n /\ n \in 1 .. n + 1 /\ n + 1 \in 1 .. n + 1
  BY <1>6
<1>17. FrameAt(f)' /\ FrameAt(g)' /\ \A i \in 1 .. n - 1 : FrameAt(t[i])'
  <2>1. ASSUME NEW h, LowFrame(h) PROVE FrameAt(h)'
    <3>1. FrameAt(h) /\ Parent(h.path) \in Seq(Name)
      BY <2>1 DEF LowFrame
    <3>2. \E u \in op'.targets : IsPrefix(u, h.path)
      BY <1>1, <3>1 DEF FrameAt
    <3>. QED BY <1>3, <3>1, <3>2, FrameSeen
  <2>2. \A i \in 1 .. n - 1 : FrameAt(t[i])'
    BY <1>6, <1>15, <2>1
  <2>3. FrameAt(f)'
    <3>1. LowFrame(Top)
      BY <1>6
    <3>3. FrameAt(Top) /\ Parent(f.path) \in Seq(Name)
      BY <1>14, <3>1 DEF LowFrame
    <3>4. FrameAt(f)
      BY <1>14, <3>3 DEF FrameAt
    <3>5. \E u \in op'.targets : IsPrefix(u, f.path)
      BY <1>1, <3>4 DEF FrameAt
    <3>. QED BY <1>3, <3>3, <3>4, <3>5, FrameSeen
  <2>4. FrameAt(g)'
    <3>1. PICK u \in op.targets : IsPrefix(u, Top.path)
      BY <1>6 DEF LowFrame, FrameAt
    <3>2. u \in Seq(Name)
      <4>1. op.targets \in SUBSET Path
        BY <1>1 DEF Before, Operation
      <4>. QED BY <4>1, PathSequences
    <3>3. IsPrefix(u, p)
      <4>1. IsPrefix(u, Parent(p)) /\ p # << >>
        BY <1>7, <3>1
      <4>. QED BY <3>2, <4>1, PrefixFacts
    <3>4. Parent(g.path) \in Seq(Name)
      BY <1>7, <1>13, ParentFacts
    <3>. QED BY <1>1, <1>3, <1>7, <1>8, <1>13, <3>3, <3>4, FrameSeen
  <2>. QED BY <2>2, <2>3, <2>4
<1>18. ASSUME NEW i \in DOMAIN op.stack
       PROVE  \E j \in DOMAIN t : t[j].slot = op.stack[i].slot /\ t[j].path = op.stack[i].path
  <2>1. i \in 1 .. n - 1 \/ i = n
    BY <1>6, <1>18
  <2>2. i \in DOMAIN t
    BY <1>6, <1>15, <2>1
  <2>. QED BY <1>6, <1>14, <1>15, <2>1, <2>2
<1>19. ASSUME NEW h, Emptied(h)
       PROVE  At(h.slot)'.dir =>
                \A e \in Records' \cap Slots(At(h.slot).first)' :
                  \/ At(e)'.name \in h.todo
                  \/ \E j \in DOMAIN op'.stack : op'.stack[j].slot = e /\ Parent(op'.stack[j].path) = h.path
  <2>. SUFFICES ASSUME At(h.slot).dir, NEW e \in Records \cap Slots(At(h.slot).first),
                       ~(At(e).name \in h.todo)
                PROVE  \E j \in DOMAIN t : t[j].slot = e /\ Parent(t[j].path) = h.path
    <3>1. At(h.slot)' = At(h.slot) /\ Records' = Records /\ op'.stack = t
          /\ \A e : At(e)' = At(e)
      BY <1>3, <1>15 DEF SameView
    <3>2. PICK d : d = At(h.slot).first
      OBVIOUS
    <3>3. Slots(At(h.slot).first)' = Slots(d)' /\ Slots(d)' = Slots(d)
      BY <1>3, <3>1, <3>2 DEF SameView, Slots, Chain
    <3>. QED BY <3>1, <3>2, <3>3
  <2>1. PICK i \in DOMAIN op.stack : op.stack[i].slot = e /\ Parent(op.stack[i].path) = h.path
    BY <1>19 DEF Emptied
  <2>. QED BY <1>18, <2>1
<1>20. \A i \in 1 .. n - 1 : Emptied(t[i])'
  <2>1. ASSUME NEW i \in 1 .. n - 1 PROVE Emptied(t[i])'
    <3>1. t[i] = op.stack[i] /\ Emptied(op.stack[i])
      BY <1>6, <1>15 DEF LowFrame
    <3>2. PICK h : h = t[i]
      OBVIOUS
    <3>. QED BY <1>19, <3>1, <3>2 DEF Emptied
  <2>. QED BY <2>1
<1>21. Emptied(f)'
  <2>1. Emptied(Top)
    BY <1>6 DEF LowFrame
  <2>2. PICK h : h = Top
    OBVIOUS
  <2>3. ASSUME NEW e \in Records, e \in Slots(Directory(Top.path))
        PROVE  \/ At(e).name \in f.todo
               \/ \E j \in DOMAIN t : t[j].slot = e /\ Parent(t[j].path) = f.path
    <3>1. CASE At(e).name = x
      <4>1. e = s /\ n + 1 \in DOMAIN t
        BY <1>10, <1>15, <1>16, <2>3, <3>1
      <4>. QED BY <1>7, <1>13, <1>14, <1>15, <4>1
    <3>2. CASE At(e).name # x
      <4>1. \/ At(e).name \in h.todo
            \/ \E j \in DOMAIN t : t[j].slot = e /\ Parent(t[j].path) = h.path
        BY <1>3, <1>9, <1>15, <1>19, <2>1, <2>2, <2>3 DEF SameView
      <4>. QED BY <1>14, <2>2, <3>2, <4>1
    <3>. QED BY <3>1, <3>2
  <2>4. /\ At(f.slot)' = At(f.slot) /\ Records' = Records /\ op'.stack = t
        /\ At(f.slot).first = Directory(Top.path) /\ \A e : At(e)' = At(e)
    BY <1>3, <1>9, <1>14, <1>15 DEF SameView
  <2>5. PICK d : d = Directory(Top.path)
    OBVIOUS
  <2>6. Slots(At(f.slot).first)' = Slots(d)' /\ Slots(d)' = Slots(d)
    BY <1>3, <2>4, <2>5 DEF SameView, Slots, Chain
  <2>. QED BY <2>3, <2>4, <2>5, <2>6 DEF Emptied
<1>22. Emptied(g)'
  BY <1>3, <1>13 DEF SameView, Emptied
<1>23. \A i, j \in 1 .. n + 1 : i < j =>
         Len(t[i].path) < Len(t[j].path) /\ At(t[i].slot).dir
  <2>1. /\ Top.path \in Seq(Name) /\ Len(Top.path) \in Nat /\ Len(p) = Len(Top.path) + 1
        /\ t[n].path = Top.path /\ t[n].slot = Top.slot /\ t[n + 1].path = p
    <3>1. Top.path \in Seq(Name) /\ Len(Top.path) \in Nat
      BY <1>6 DEF Frames
    <3>2. Len(p) = Len(Top.path) + 1
      BY <1>7
    <3>3. t[n].path = Top.path /\ t[n].slot = Top.slot
      BY <1>14, <1>15
    <3>4. t[n + 1].path = p
      BY <1>13, <1>15
    <3>. QED BY <3>1, <3>2, <3>3, <3>4
  <2>2. Stack
    BY DEF Quieted, Ways
  <2>3. \A i, j \in 1 .. n : i < j =>
          Len(op.stack[i].path) < Len(op.stack[j].path) /\ At(op.stack[i].slot).dir
    BY <1>1, <1>6, <2>2 DEF Stack
  <2>4. \A i \in 1 .. n - 1 : /\ t[i] = op.stack[i] /\ At(t[i].slot).dir
                              /\ Len(t[i].path) < Len(Top.path) /\ Len(t[i].path) \in Nat
    <3>1. ASSUME NEW i \in 1 .. n - 1
          PROVE  /\ t[i] = op.stack[i] /\ At(t[i].slot).dir
                 /\ Len(t[i].path) < Len(Top.path) /\ Len(t[i].path) \in Nat
      <4>1. t[i] = op.stack[i] /\ i \in 1 .. n /\ n \in 1 .. n /\ i < n
        BY <1>15, <1>16
      <4>2. Len(op.stack[i].path) < Len(op.stack[n].path) /\ At(op.stack[i].slot).dir
        BY <2>3, <4>1
      <4>3. op.stack[i] \in Frames
        BY <1>6, <4>1
      <4>4. Len(op.stack[i].path) \in Nat
        BY <4>3 DEF Frames
      <4>. QED BY <1>6, <4>1, <4>2, <4>4
    <3>. QED BY <3>1
  <2>5. ASSUME NEW i \in 1 .. n + 1, NEW j \in 1 .. n + 1, i < j
        PROVE  Len(t[i].path) < Len(t[j].path) /\ At(t[i].slot).dir
    <3>1. CASE i \in 1 .. n - 1 /\ j \in 1 .. n - 1
      <4>1. i \in 1 .. n /\ j \in 1 .. n /\ t[i] = op.stack[i] /\ t[j] = op.stack[j]
        BY <1>15, <1>16, <3>1
      <4>. QED BY <2>3, <2>5, <4>1
    <3>2. CASE i \in 1 .. n - 1 /\ j = n
      BY <2>1, <2>4, <3>2
    <3>3. CASE i \in 1 .. n - 1 /\ j = n + 1
      <4>1. Len(t[i].path) < Len(Top.path) /\ Len(t[i].path) \in Nat /\ At(t[i].slot).dir
            /\ t[j].path = p
        BY <2>1, <2>4, <3>3
      <4>2. Len(t[i].path) < Len(Top.path) + 1
        BY <2>1, <4>1
      <4>. QED BY <2>1, <4>1, <4>2
    <3>4. CASE i = n /\ j = n + 1
      <4>1. Len(Top.path) < Len(Top.path) + 1
        BY <2>1
      <4>. QED BY <1>9, <2>1, <3>4, <4>1
    <3>. QED BY <1>16, <2>5, <3>1, <3>2, <3>3, <3>4
  <2>. QED BY <2>5
<1>24. \A i \in 1 .. n + 1 : At(t[i].slot).dir => Directory(t[i].path) = At(t[i].slot).first
  <2>1. \A i \in 1 .. n - 1 : Directory(t[i].path) = At(t[i].slot).first
    BY <1>6, <1>15 DEF HighFrame
  <2>2. Directory(t[n].path) = At(t[n].slot).first
    BY <1>9, <1>14, <1>15
  <2>3. At(t[n + 1].slot).dir => Directory(t[n + 1].path) = At(t[n + 1].slot).first
    BY <1>11, <1>13, <1>15
  <2>. QED BY <1>16, <2>1, <2>2, <2>3
<1>25. StackOf(t)'
  <2>1. \A i \in DOMAIN t : FrameAt(t[i])' /\ Emptied(t[i])'
    BY <1>15, <1>16, <1>17, <1>20, <1>21, <1>22
  <2>2. \A i \in 1 .. n + 1 : At(t[i].slot)' = At(t[i].slot)
    BY <1>3 DEF SameView
  <2>3. \A i \in 1 .. n + 1 : Directory(t[i].path)' = Directory(t[i].path)
    <3>1. \A i \in 1 .. n + 1 : t[i] \in Frames
      BY <1>15
    <3>. QED BY <1>3, <3>1 DEF SameView, Frames
  <2>. QED BY <1>1, <1>15, <1>23, <1>24, <2>1, <2>2, <2>3 DEF StackOf
<1>26. Stack'
  BY <1>25, StackMade
<1>27. Aside' /\ InPlace' /\ OldPlace'
  BY <1>1 DEF Aside, InPlace, OldPlace, Changes, Quieted, Ways
<1>. QED BY <1>3, <1>26, <1>27 DEF SameView, Went, Ways

(* The same frames, at the step after.                                     *)
LEMMA DeleteAside ==
  ASSUME Quieted, op.kind = "delete", op'.kind = "delete", op'.targets = op.targets
  PROVE  Aside' /\ InPlace' /\ OldPlace'
BY DEF Aside, InPlace, OldPlace, Changes, Quieted, Ways

LEMMA DeleteChainWays ==
  ASSUME Quieted, Before', Sem', DeleteChain, DeleteChainFacts
  PROVE  Went
<1>1. /\ pc = "delete" /\ pc' = "mark" /\ UNCHANGED <<fat, disk>> /\ Top.todo = {}
      /\ op'.kind = op.kind /\ op'.targets = op.targets /\ op'.stack = op.stack
      /\ op'.parent = op.parent /\ op'.from = op.from /\ op'.record = op.record
      /\ Top' = Top /\ ~op.freed /\ (op'.freed => task' = "free" /\ visited' = {})
      /\ op.kind \in {"delete", "move"} /\ Sem /\ DiskType
  BY DEF DeleteChain, DeleteChainFacts, Working, Before, Quieted, Stacked, chainMap, Sem, Freeing,
         EP!BeginFree, EditorTyped, Top, StepOf
<1>2. Loose = {} /\ Loose' = {}
  BY <1>1 DEF Loose
<1>3. SameView
  BY <1>1, <1>2, ReadOnly
<1>4. CASE op.kind = "move"
  <2>1. \A d \in Dirs : Chain(d) \subseteq Chain(d)'
    BY <1>3 DEF SameView
  <2>2. op.from \in Records' => op.from \in Records /\ At(op.from)' = At(op.from)
    <3>1. PICK z : z = op.from
      OBVIOUS
    <3>2. At(op.from)' = At(z)' /\ At(z)' = At(z)
      BY <1>1, <1>3, <3>1 DEF SameView, At
    <3>. QED BY <1>3, <3>1, <3>2 DEF SameView
  <2>3. Aside' /\ InPlace' /\ OldPlace' /\ Stack'
    BY <1>1, <1>3, <1>4, <2>1, <2>2, WaysSame DEF SameOp, SameView
  <2>. QED BY <1>3, <2>3 DEF SameView, Went, Ways
<1>5. CASE op.kind = "delete"
  <2>1. PICK t \in Seq(Frames) : t = op.stack
    BY <1>5, StackFrames
  <2>2. /\ Top = t[Len(t)] /\ \A i \in DOMAIN t : LowFrame(t[i]) /\ t[i] \in Frames
    BY <1>5, <2>1, StackFrames
  <2>3. Stack
    BY DEF Quieted, Ways
  <2>4. ASSUME NEW i \in DOMAIN t PROVE FrameAt(t[i])'
    <3>1. FrameAt(t[i]) /\ Parent(t[i].path) \in Seq(Name)
      BY <2>2 DEF LowFrame
    <3>2. \E u \in op'.targets : IsPrefix(u, t[i].path)
      BY <1>1, <3>1 DEF FrameAt
    <3>. QED BY <1>3, <3>1, <3>2, FrameSeen
  <2>5. ASSUME NEW i \in DOMAIN t PROVE Emptied(t[i])'
    <3>1. Emptied(t[i])
      BY <2>2 DEF LowFrame
    <3>2. PICK h, d : h = t[i] /\ d = At(h.slot).first
      OBVIOUS
    <3>3. /\ At(h.slot)' = At(h.slot) /\ Records' = Records /\ op'.stack = op.stack
          /\ \A e : At(e)' = At(e)
      BY <1>1, <1>3 DEF SameView
    <3>4. Slots(At(h.slot).first)' = Slots(d)' /\ Slots(d)' = Slots(d)
      BY <1>3, <3>2, <3>3 DEF SameView, Slots, Chain
    <3>. QED BY <3>1, <3>2, <3>3, <3>4 DEF Emptied
  <2>6. \A i \in DOMAIN t : /\ At(t[i].slot)' = At(t[i].slot)
                            /\ Directory(t[i].path)' = Directory(t[i].path)
    BY <1>3, <2>2 DEF SameView, Frames
  <2>7. StackOf(t)'
    <3>1. \A i, j \in DOMAIN t : i < j => Len(t[i].path) < Len(t[j].path) /\ At(t[i].slot).dir
      BY <1>5, <2>1, <2>3 DEF Stack
    <3>2. \A i \in DOMAIN t : At(t[i].slot).dir => Directory(t[i].path) = At(t[i].slot).first
      BY <1>1, <1>5, <2>1, <2>3 DEF Stack
    <3>3. op'.stack = t /\ t[Len(t)].todo = {}
      BY <1>1, <2>1, <2>2
    <3>4. \A i \in DOMAIN t : FrameAt(t[i])' /\ Emptied(t[i])'
      BY <2>4, <2>5
    <3>. QED BY <2>6, <3>1, <3>2, <3>3, <3>4 DEF StackOf
  <2>8. Stack'
    BY <2>7, StackMade
  <2>. QED BY <1>1, <1>3, <1>5, <2>8, DeleteAside DEF SameView, Went, Ways
<1>. QED BY <1>1, <1>4, <1>5

(* What is emptied next is no directory in use any more.                   *)
LEMMA EmptiedDirs ==
  ASSUME Quieted, pc = "mark", NEW d \in Dirs, NEW s \in Records, s \in Slots(d),
         \A r \in Held \ {Top.slot} : r \in Held' /\ At(r)' = At(r), Changes => op'.parent = op.parent,
         Changes => Changes'
  PROVE  d \in Dirs'
<1>1. CASE d = RootCluster
  BY <1>1 DEF Dirs
<1>2. CASE Changes /\ d = op.parent
  BY <1>2 DEF Dirs
<1>3. ASSUME NEW r \in Held, At(r).dir, d = At(r).first PROVE d \in Dirs'
  <2>1. r # Top.slot
    BY <1>3, NothingBelow
  <2>. QED BY <1>3, <2>1 DEF Dirs
<1>. QED BY <1>1, <1>2, <1>3 DEF Dirs

LEMMA FreeShrinks ==
  ASSUME DOMAIN fat = Cluster, NEW c, fat' = [fat EXCEPT ![c] = 0]
  PROVE  \A h : Chain(h)' \subseteq Chain(h)
<1>. SUFFICES ASSUME NEW h PROVE Chain(h)' \subseteq Chain(h)
  OBVIOUS
<1>. DEFINE S == Reach(fat, h, Cluster)
<1>1. /\ IsFiniteSet(DOMAIN fat) /\ IsFiniteSet(DOMAIN fat') /\ DOMAIN fat' = Cluster
      /\ \A x \in Cluster : fat'[x] = fat[x] \/ fat'[x] = 0
      /\ 0 \notin Cluster
  BY ClusterFacts
<1>2. h \in DOMAIN fat' => h \in S
  BY <1>1, ReachIn
<1>3. \A x \in S \cap Cluster : fat'[x] \in DOMAIN fat' => fat'[x] \in S
  <2>1. ASSUME NEW x \in S \cap Cluster, fat'[x] \in DOMAIN fat' PROVE fat'[x] \in S
    <3>1. fat'[x] = fat[x]
      BY <1>1, <2>1
    <3>. QED BY <1>1, <2>1, <3>1, ReachClosed
  <2>. QED BY <2>1
<1>. HIDE DEF S
<1>4. Reach(fat', h, Cluster) \subseteq S
  BY <1>1, <1>2, <1>3, ReachLeast
<1>. QED BY <1>4 DEF S, Chain

LEMMA FreeWays ==
  ASSUME Quieted, Before', Sem', FreeFacts
  PROVE  Went
<1>1. /\ DiskType /\ DiskType' /\ DOMAIN fat = Cluster /\ Sem /\ Before
      /\ UNCHANGED <<disk, op, pc>> /\ fat' = [fat EXCEPT ![cur] = 0]
      /\ pc' # "zero" /\ Top' = Top
  BY DEF Quieted, Before, DiskType, FreeFacts, Top
<1>2. Steady
  BY FreeSteady
<1>3. /\ Records' = Records /\ \A s : At(s)' = At(s)
      /\ \A h : h # cur /\ h \in heads => Chain(h)' = Chain(h)
      /\ \A h : Chain(h)' \subseteq Chain(h)
  <2>1. Records' = Records /\ \A s : At(s)' = At(s)
    BY <1>1 DEF Records, DirSlot, At
  <2>2. \A h : h # cur /\ h \in heads => Chain(h)' = Chain(h)
    BY <1>1, ChainsKept DEF FreeFacts
  <2>3. \A h : Chain(h)' \subseteq Chain(h)
    BY <1>1, FreeShrinks
  <2>. QED BY <2>1, <2>2, <2>3
<1>4. /\ SlotsIs /\ SlotsIs' /\ DirSlot' = DirSlot
  <2>1. SlotsIs'
    BY <1>1, SlotsIsFacts, PTL
  <2>. QED BY <1>1, <2>1, SlotsIsFacts DEF DirSlot
<1>5. /\ \A h : h # cur /\ h \in heads => Slots(h)' = Slots(h)
      /\ \A h : Slots(h)' \subseteq Slots(h)
  <2>1. \A h : \A s : s \in Slots(h)' <=> s \in DirSlot /\ s[1] \in OnDisk /\ s[1] \in Chain(h)'
    BY <1>4 DEF SlotsIs
  <2>2. \A h : \A s : s \in Slots(h) <=> s \in DirSlot /\ s[1] \in OnDisk /\ s[1] \in Chain(h)
    BY <1>4 DEF SlotsIs
  <2>3. ASSUME NEW h PROVE Slots(h)' \subseteq Slots(h)
    BY <1>3, <2>1, <2>2
  <2>4. ASSUME NEW h, h # cur, h \in heads PROVE Slots(h)' = Slots(h)
    <3>1. \A s : s \in Slots(h)' <=> s \in Slots(h)
      BY <1>3, <2>1, <2>2, <2>4
    <3>. QED BY <3>1
  <2>. QED BY <2>3, <2>4
<1>6. \A d \in Dirs : d \in heads /\ \A t \in Held : At(t).first = d => At(t).dir
  BY <1>1, DirsHeld DEF Sem, DirHead
<1>7. CASE op.kind # "delete"
  <2>1. cur \notin Dirs
    BY <1>6, <1>7 DEF FreeFacts
  <2>2. \A d \in Dirs : Chain(d) \subseteq Chain(d)'
    BY <1>3, <1>6, <2>1
  <2>3. SameOp /\ (op.from \in Records' => op.from \in Records /\ At(op.from)' = At(op.from))
    BY <1>1, <1>3 DEF SameOp, At
  <2>4. Aside' /\ InPlace' /\ OldPlace' /\ Stack' /\ CalmHeld'
    BY <1>2, <1>7, <2>2, <2>3, WaysSame
  <2>5. \A s \in Held : At(s).dir => s \in Held' /\ At(s)' = At(s)
    BY <1>3, <1>7 DEF FreeFacts, Held
  <2>6. Placed'
    BY <1>1, <1>2, <1>3, <2>2, <2>5, PlacedSame
  <2>. QED BY <1>2, <2>4, <2>6 DEF Went, Ways
<1>8. CASE op.kind = "delete"
  <2>1. PICK t \in Seq(Frames) : t = op.stack
    BY <1>8, StackFrames
  <2>2. /\ Top = t[Len(t)] /\ pc = "mark" /\ Aims = {Top.path}
        /\ \A i \in DOMAIN t : LowFrame(t[i]) /\ t[i] \in Frames
        /\ \A i \in DOMAIN t : i # Len(t) => HighFrame(t[i])
    BY <1>8, <2>1, StackFrames DEF FreeFacts
  <2>3. Stack
    BY DEF Quieted, Ways
  <2>4. cur \in Dirs => \A s \in Records : s \notin Slots(cur)
    <3>1. cur \in Dirs => FreedSlot = Top.slot /\ At(Top.slot).dir /\ At(Top.slot).first = cur
      BY <1>6, <1>8 DEF FreeFacts, FreedSlot
    <3>. QED BY <2>2, <3>1, NothingBelow
  <2>5. ASSUME NEW i \in DOMAIN t PROVE FrameAt(t[i])'
    <3>1. FrameAt(t[i]) /\ LowFrame(t[i])
      BY <2>2 DEF LowFrame
    <3>2. PICK d : d = Directory(Parent(t[i].path))
      OBVIOUS
    <3>3. d \in Dirs /\ Directory(Parent(t[i].path))' = d /\ t[i].slot \in Slots(d) /\ t[i].slot \in Records
      BY <1>2, <3>1, <3>2 DEF LowFrame, FrameAt, Steady, SteadyPath
    <3>4. t[i].slot \in Slots(d)'
      BY <1>5, <1>6, <2>4, <3>3
    <3>5. Slots(Directory(Parent(t[i].path)))' = Slots(d)'
      BY <3>3 DEF Slots, Chain
    <3>. QED BY <1>1, <1>3, <3>1, <3>4, <3>5 DEF FrameAt
  <2>6. ASSUME NEW i \in DOMAIN t PROVE Emptied(t[i])'
    <3>1. Emptied(t[i])
      BY <2>2 DEF LowFrame
    <3>2. PICK h, d : h = t[i] /\ d = At(h.slot).first
      OBVIOUS
    <3>3. Slots(At(h.slot).first)' = Slots(d)' /\ Slots(d)' \subseteq Slots(d)
      BY <1>3, <1>5, <3>2 DEF Slots, Chain
    <3>. QED BY <1>1, <1>3, <3>1, <3>2, <3>3 DEF Emptied
  <2>7. StackOf(t)'
    <3>1. \A i, j \in DOMAIN t : i < j => Len(t[i].path) < Len(t[j].path) /\ At(t[i].slot).dir
      BY <1>8, <2>1, <2>3 DEF Stack
    <3>2. \A i \in DOMAIN t : t[i].path # t[Len(t)].path =>
            Directory(t[i].path) = At(t[i].slot).first /\ Directory(t[i].path)' = Directory(t[i].path)
      <4>1. ASSUME NEW i \in DOMAIN t, i # Len(t)
            PROVE  Directory(t[i].path) = At(t[i].slot).first /\ Directory(t[i].path)' = Directory(t[i].path)
        BY <1>2, <2>2, <4>1 DEF HighFrame, Frames, Steady, SteadyPath
      <4>. QED BY <4>1
    <3>3. op'.stack = t /\ t[Len(t)].todo = {} /\ pc' = "mark"
      BY <1>1, <1>8, <2>1, <2>2, <2>3 DEF Stack
    <3>4. \A i \in DOMAIN t : FrameAt(t[i])' /\ Emptied(t[i])'
      BY <2>5, <2>6
    <3>. QED BY <1>3, <3>1, <3>2, <3>3, <3>4 DEF StackOf
  <2>8. Stack'
    BY <2>7, StackMade
  <2>9. CalmHeld'
    <3>1. Aims' = Aims
      BY <1>1, <1>8 DEF Aims
    <3>. QED BY <1>2, <3>1, CalmKept
  <2>10. Placed'
    <3>1. \A r \in Held \ {Top.slot} : r \in Held' /\ At(r)' = At(r)
      BY <1>3, <1>8 DEF FreeFacts, FreedSlot, Held
    <3>2. \A d \in Dirs : \A s \in Records' : s \in Slots(d) =>
            d \in Dirs' /\ Chain(d) \subseteq Chain(d)'
      <4>1. ASSUME NEW d \in Dirs, NEW s \in Records', s \in Slots(d)
            PROVE  d \in Dirs' /\ Chain(d) \subseteq Chain(d)'
        <5>1. d # cur /\ s \in Records
          BY <1>3, <2>4, <4>1
        <5>2. d \in Dirs'
          BY <1>8, <2>2, <3>1, <4>1, <5>1, EmptiedDirs DEF Changes
        <5>. QED BY <1>3, <1>6, <5>1, <5>2
      <4>. QED BY <4>1
    <3>. QED BY <1>1, <1>3, <3>2, PlacedKept
  <2>. QED BY <1>1, <1>2, <1>8, <2>8, <2>9, <2>10, DeleteAside DEF Went, Ways
<1>. QED BY <1>7, <1>8

LEMMA MarkDeletedWays ==
  ASSUME Quieted, Before', Sem', MarkDeletedFacts
  PROVE  Went
<1>1. /\ Before /\ Written(Top.slot, FreeRecord) /\ pc = "mark" /\ op.kind \in {"delete", "move"}
      /\ DiskType /\ DiskType' /\ Sem
  BY DEF MarkDeletedFacts, Working, Quieted, Before
<1>2. PICK z : z = Top.slot
  OBVIOUS
<1>3. /\ z \in Records /\ Records' = Records \ {z} /\ \A s \in Records' : At(s)' = At(s)
      /\ \A d : Chain(d)' = Chain(d) /\ Slots(d)' = Slots(d)
      /\ \E t \in Aims : Spot(z, At(z).name, t)
  BY <1>1, <1>2, WrittenSlots, TopSpot DEF Quieted
<1>4. Loose \subseteq {z} /\ pc' \notin {"zero", "unlink"} /\ ~op'.freed
  BY <1>1, <1>2, NoOpFacts DEF Loose, MarkDeletedFacts, Done, Stacked
<1>5. Loose' = {} /\ Held' = Records' /\ \A r \in Held \ {z} : r \in Held' /\ At(r)' = At(r)
  <2>1. Loose' = {}
    BY <1>4 DEF Loose
  <2>. QED BY <1>3, <2>1 DEF Held
<1>6. Steady
  <2>. DEFINE T == {z}
  <2>1. /\ z \in T /\ \A s \in T \cap Records : \E t \in Aims : Spot(s, At(s).name, t)
        /\ \A s \in T \cap Records' : \E t \in Aims : Spot(s, At(s)'.name, t)
        /\ \A s \in Held \ T : s \in Held'
    BY <1>3, <1>5
  <2>. HIDE DEF T
  <2>. QED BY <1>1, <1>2, <1>3, <2>1, WrittenSteady
<1>7. CalmHeld'
  <2>1. DiskType' /\ NoLoose'
    BY <1>1, <1>5 DEF NoLoose
  <2>. QED BY <2>1, LooseNone, PTL
<1>8. op.kind = "delete" => Placed'
  <2>1. SUFFICES ASSUME op.kind = "delete" PROVE Placed'
    OBVIOUS
  <2>2. \A d \in Dirs : \A s \in Records' : s \in Slots(d) => d \in Dirs' /\ Chain(d) \subseteq Chain(d)'
    <3>1. ~Changes /\ \A s \in Records' : s \in Records
      BY <1>3, <2>1 DEF Changes
    <3>. QED BY <1>1, <1>2, <1>3, <1>5, <3>1, EmptiedDirs
  <2>. QED BY <1>1, <1>3, <1>4, <2>2, PlacedKept
<1>9. CASE Done
  <2>1. Resting' /\ op.kind = "delete" /\ DiskType' /\ NoLoose'
    <3>1. op.kind = "delete"
      BY <1>1, <1>9, NoOpFacts DEF MarkDeletedFacts, Done, Stacked
    <3>. QED BY <1>1, <1>5, <1>9, <3>1 DEF Done, Resting, NoLoose
  <2>2. Placed'
    BY <1>8, <2>1
  <2>3. Ways'
    BY <2>1, <2>2, WaysRest, PTL
  <2>. QED BY <1>6, <2>3 DEF Went
<1>10. CASE op.kind = "move"
  <2>1. /\ op'.kind = "move" /\ op'.targets = op.targets /\ op'.parent = op.parent
        /\ op'.from = op.from /\ op'.record = op.record
    BY <1>1, <1>10 DEF MarkDeletedFacts, Stacked
  <2>2. SameOp
    BY <1>10, <2>1 DEF SameOp
  <2>3. op.from \in Records' => op.from \in Records /\ At(op.from)' = At(op.from)
    <3>1. PICK f : f = op.from
      OBVIOUS
    <3>2. At(op.from)' = At(f)'
      BY <2>1, <3>1 DEF At
    <3>. QED BY <1>3, <3>1, <3>2
  <2>4. Aside' /\ InPlace' /\ OldPlace' /\ Stack'
    BY <1>3, <1>6, <1>10, <2>2, <2>3, WaysSame
  <2>5. \A s \in Held : At(s).dir => s \in Held' /\ At(s)' = At(s)
    <3>1. ~At(z).dir
      BY <1>1, <1>2, <1>10 DEF Sem, Moving
    <3>. QED BY <1>5, <3>1
  <2>6. Placed'
    BY <1>1, <1>3, <1>4, <1>6, <2>5, PlacedSame
  <2>. QED BY <1>6, <1>7, <2>4, <2>6 DEF Went, Ways
<1>11. CASE op.kind = "delete" /\ ~Done
  <2>1. /\ Len(op.stack) > 1 /\ pc' = "delete" /\ op'.stack = Parent(op.stack)
        /\ op'.kind = "delete" /\ op'.targets = op.targets
    BY <1>1, <1>11 DEF MarkDeletedFacts, Stacked
  <2>2. PICK n : n = Len(op.stack)
    OBVIOUS
  <2>3. PICK u : u = op.stack
    OBVIOUS
  <2>4. /\ u \in Seq(Frames) /\ n \in Nat \ {0} /\ Len(u) = n /\ DOMAIN u = 1 .. n
        /\ Top = u[n]
        /\ \A i \in 1 .. n : LowFrame(u[i])
        /\ \A i \in 1 .. n : i # n => HighFrame(u[i])
    <3>1. /\ u \in Seq(Frames) /\ n \in Nat \ {0} /\ Len(u) = n /\ Top = u[n]
          /\ \A i \in DOMAIN u : LowFrame(u[i])
          /\ \A i \in DOMAIN u : i # n => HighFrame(u[i])
      BY <1>11, <2>2, <2>3, StackFrames
    <3>2. DOMAIN u = 1 .. n
      BY <3>1
    <3>. QED BY <3>1, <3>2
  <2>5. PICK t \in Seq(Frames) : /\ t = Parent(u) /\ Len(t) = n - 1 /\ DOMAIN t = 1 .. n - 1
                                 /\ \A i \in 1 .. n - 1 : t[i] = u[i]
    <3>. DEFINE t == Parent(u)
    <3>1. t \in Seq(Frames) /\ Len(t) = n - 1 /\ \A i \in 1 .. n - 1 : t[i] = u[i]
      <4>1. u # << >>
        BY <2>4
      <4>. QED BY <2>4, <4>1, ParentFacts
    <3>. HIDE DEF t
    <3>2. DOMAIN t = 1 .. n - 1
      BY <3>1
    <3>. QED BY <3>1, <3>2 DEF t
  <2>6. \A i \in 1 .. n - 1 : i \in 1 .. n /\ i # n
    BY <2>4
  <2>7. ASSUME NEW i \in DOMAIN t
        PROVE  /\ t[i] \in Frames /\ LowFrame(t[i]) /\ HighFrame(t[i]) /\ t[i] = u[i]
    <3>1. t[i] \in Frames
      BY <2>7
    <3>. QED BY <2>4, <2>5, <2>6, <2>7, <3>1
  <2>8. Stack
    BY DEF Quieted, Ways
  <2>9. ASSUME NEW i \in DOMAIN t PROVE FrameAt(t[i])'
    <3>1. FrameAt(t[i]) /\ LowFrame(t[i]) /\ t[i].slot # z
      BY <1>2, <2>7 DEF LowFrame, HighFrame
    <3>2. PICK d : d = Directory(Parent(t[i].path))
      OBVIOUS
    <3>3. Directory(Parent(t[i].path))' = d /\ t[i].slot \in Slots(d) /\ t[i].slot \in Records
      BY <1>6, <3>1, <3>2 DEF LowFrame, FrameAt, Steady, SteadyPath
    <3>4. t[i].slot \in Slots(d)' /\ t[i].slot \in Records' /\ At(t[i].slot)' = At(t[i].slot)
      BY <1>3, <3>1, <3>3
    <3>5. Slots(Directory(Parent(t[i].path)))' = Slots(d)'
      BY <3>3 DEF Slots, Chain
    <3>. QED BY <2>1, <3>1, <3>4, <3>5 DEF FrameAt
  <2>10. ASSUME NEW i \in DOMAIN t PROVE Emptied(t[i])'
    <3>1. Emptied(t[i]) /\ t[i].slot \in Records'
      BY <1>2, <1>3, <2>7 DEF LowFrame, HighFrame, FrameAt
    <3>2. PICK h, d : h = t[i] /\ d = At(h.slot).first
      OBVIOUS
    <3>3. At(h.slot)' = At(h.slot)
      BY <1>3, <3>1, <3>2
    <3>4. Slots(At(h.slot).first)' = Slots(d)' /\ Slots(d)' = Slots(d)
      BY <1>3, <3>2, <3>3 DEF Slots, Chain
    <3>5. ASSUME At(h.slot).dir, NEW e \in Records', e \in Slots(d)
          PROVE  \/ At(e)'.name \in h.todo
                 \/ \E j \in DOMAIN t : t[j].slot = e /\ Parent(t[j].path) = h.path
      <4>1. e \in Records /\ e # z /\ At(e)' = At(e)
        BY <1>3, <3>5
      <4>2. \/ At(e).name \in h.todo
            \/ \E j \in DOMAIN u : u[j].slot = e /\ Parent(u[j].path) = h.path
        BY <2>3, <3>1, <3>2, <3>5, <4>1 DEF Emptied
      <4>3. ASSUME NEW j \in DOMAIN u, u[j].slot = e, Parent(u[j].path) = h.path
            PROVE  \E k \in DOMAIN t : t[k].slot = e /\ Parent(t[k].path) = h.path
        <5>1. j # n
          BY <1>2, <2>4, <4>1, <4>3
        <5>2. j \in DOMAIN t /\ t[j] = u[j]
          BY <2>4, <2>5, <4>3, <5>1
        <5>. QED BY <4>3, <5>2
      <4>. QED BY <4>1, <4>2, <4>3
    <3>6. op'.stack = t
      BY <2>1, <2>3, <2>5
    <3>. QED BY <3>2, <3>3, <3>4, <3>5, <3>6 DEF Emptied
  <2>11. StackOf(t)'
    <3>1. \A i, j \in DOMAIN t : i < j => Len(t[i].path) < Len(t[j].path) /\ At(t[i].slot).dir
      <4>1. \A i, j \in DOMAIN u : i < j => Len(u[i].path) < Len(u[j].path) /\ At(u[i].slot).dir
        BY <1>11, <2>3, <2>8 DEF Stack
      <4>2. \A i \in DOMAIN t : i \in DOMAIN u /\ t[i] = u[i]
        BY <2>4, <2>5, <2>6
      <4>. QED BY <4>1, <4>2
    <3>2. \A i \in DOMAIN t : Directory(t[i].path)' = At(t[i].slot).first
      BY <1>6, <2>7 DEF HighFrame, Frames, Steady, SteadyPath
    <3>3. \A i \in DOMAIN t : At(t[i].slot)' = At(t[i].slot)
      BY <1>2, <1>3, <2>7 DEF LowFrame, HighFrame, FrameAt
    <3>4. op'.stack = t /\ pc' # "mark"
      BY <2>1, <2>3, <2>5
    <3>5. \A i \in DOMAIN t : FrameAt(t[i])' /\ Emptied(t[i])'
      BY <2>9, <2>10
    <3>. QED BY <3>1, <3>2, <3>3, <3>4, <3>5 DEF StackOf
  <2>12. Stack'
    BY <2>11, StackMade
  <2>. QED BY <1>6, <1>7, <1>8, <1>11, <2>1, <2>12, DeleteAside DEF Went, Ways
<1>. QED BY <1>1, <1>9, <1>10, <1>11

-----------------------------------------------------------------------------
(* The paths of the other steps.                                           *)

LEMMA StopWays ==
  ASSUME Quieted, Before', Sem', Stop, state' # "hurt", UNCHANGED <<fat, disk>>
  PROVE  Went
<1>1. ~Breaks /\ pc' = "idle" /\ op' = NoOp /\ ~op'.freed
  BY NoOpFacts DEF Stop
<1>2. Loose = {} /\ Loose' = {}
  BY <1>1 DEF Loose, Breaks
<1>3. SameView
  BY <1>1, <1>2, ReadOnly
<1>4. DiskType' /\ Resting' /\ NoLoose' /\ Placed'
  BY <1>1, <1>2, <1>3 DEF SameView, Before, Resting, NoLoose
<1>5. Ways'
  BY <1>4, WaysRest, PTL
<1>. QED BY <1>3, <1>5 DEF SameView, Went

(* The operation goes on with the same records.                            *)
LEMMA GoOn ==
  ASSUME Quieted, Steady, DiskType', SameOp, op.kind # "delete",
         Records' = Records, \A s \in Records : At(s)' = At(s), Held \subseteq Held',
         \A d \in Dirs : Chain(d) \subseteq Chain(d)',
         pc' = "zero" => \A s \in Records : s[1] # op'.slot[1]
  PROVE  Went
<1>1. op.from \in Records' => op.from \in Records /\ At(op.from)' = At(op.from)
  <2>1. PICK f : f = op.from
    OBVIOUS
  <2>2. At(op.from)' = At(f)'
    BY <2>1 DEF SameOp, At
  <2>. QED BY <2>1, <2>2
<1>2. Aside' /\ InPlace' /\ OldPlace' /\ Stack' /\ CalmHeld'
  BY <1>1, WaysSame
<1>3. \A s \in Held : At(s).dir => s \in Held' /\ At(s)' = At(s)
  BY DEF Held
<1>4. Placed'
  BY <1>3, PlacedSame
<1>. QED BY <1>2, <1>4 DEF Went, Ways

LEMMA KeepsWays ==
  ASSUME Quieted, Before', Sem', UNCHANGED <<fat, disk>>, SameOp, op.kind # "delete",
         pc' # "zero", Loose' = Loose
  PROVE  Went
<1>1. /\ Records' = Records /\ (\A s : At(s)' = At(s)) /\ \A d : Chain(d)' = Chain(d)
  BY StillFacts
<1>2. Held \subseteq Held'
  BY <1>1 DEF Held
<1>3. Steady
  BY <1>2, SameSteady
<1>. QED BY <1>1, <1>2, <1>3, GoOn DEF Before

LEMMA AllocateWays ==
  ASSUME Quieted, Before', Sem', AllocateFacts
  PROVE  Went
<1>1. /\ Before /\ UNCHANGED <<fat, disk>> /\ pc = "alloc" /\ pc' = "data" /\ SameOp
      /\ op.kind \in {"put", "mkdir"} /\ task = "idle" /\ task' = "alloc"
      /\ op'.kind = op.kind /\ op'.slot = op.slot /\ op'.freed = op.freed
  BY DEF AllocateFacts, Working, Before, StepOf, SameOp
<1>2. Loose' = Loose
  BY <1>1 DEF Loose, Before, StepOf
<1>. QED BY <1>1, <1>2, KeepsWays

LEMMA EmptyWays ==
  ASSUME Quieted, Before', Sem', pc = "alloc", task = "idle", pc' = "slot",
         UNCHANGED <<chainMap, disk, op, state>>
  PROVE  Went
<1>1. /\ UNCHANGED <<fat, disk, op, task, visited>> /\ SameOp /\ op.kind \in {"put", "mkdir"}
  BY DEF Quieted, Before, StepOf, SameOp, chainMap
<1>2. Loose' = Loose
  BY <1>1 DEF Loose, Top
<1>. QED BY <1>1, <1>2, KeepsWays

(* The first cluster of the new chain is that of no directory.             *)
LEMMA WriteDataWays ==
  ASSUME Quieted, Before', Sem', NEW c \in Cluster, WriteDataFacts(c)
  PROVE  Went
<1>1. IInv
  BY DEF Quieted, IInv
<1>2. /\ Before /\ Sem /\ DiskType /\ UNCHANGED <<fat, task, visited>> /\ task = "idle"
      /\ pc = "data" /\ pc' \in {"data", "slot"} /\ SameOp
      /\ op.kind \in {"put", "mkdir"} /\ op.clusters # << >>
      /\ op'.kind = op.kind /\ op'.slot = op.slot /\ op'.freed = op.freed
      /\ \A x \in Cluster : x # c => disk'[x] = disk[x]
  BY DEF Quieted, WriteDataFacts, Working, Before, StepOf, SameOp, chainMap
<1>3. /\ \A h \in heads \ {op.record.first} : c \notin Chain(h)
      /\ \A s \in DirSlot : s[1] # c => s \in DirSlot' /\ At(s)' = At(s)
      /\ \A s \in DirSlot' : s[1] # c => s \in DirSlot
      /\ \A s \in DirSlot' : s[1] = c => At(s)' = FreeRecord
  BY <1>1, WriteDataApart
<1>4. /\ op.record.first # RootCluster /\ op.record.first # op.parent
      /\ \A s \in Held : At(s).first # op.record.first
  BY <1>2 DEF Sem, NewClusters
<1>5. \A d \in Dirs : d \in heads \ {op.record.first}
  BY <1>2, <1>4, DirsHeld DEF Sem, DirHead, Dirs
<1>6. \A s \in Records : s[1] # c
  BY <1>3, <1>5, NoRecords
<1>7. Records' = Records /\ \A s \in Records : At(s)' = At(s)
  BY <1>3, <1>6 DEF Records
<1>8. Loose' = Loose
  BY <1>2 DEF Loose, Before, StepOf
<1>9. Held \subseteq Held'
  BY <1>7, <1>8 DEF Held
<1>10. \A s \in Held : ~At(s).dir => \A h : h = At(s).first => c \notin Chain(h)
  <2>1. \A s \in Held : At(s).first = 0 \/ At(s).first \in heads \ {op.record.first}
    BY <1>2, <1>4 DEF Sem, ChainsHeld
  <2>2. Chain(0) = {}
    BY <1>2, ChainFacts DEF ChainsRead, DiskType
  <2>. QED BY <1>3, <2>1, <2>2
<1>11. Steady
  BY <1>2, <1>7, <1>9, <1>10, DataSteady
<1>12. \A d : Chain(d)' = Chain(d)
  BY <1>2 DEF Chain
<1>. QED BY <1>2, <1>7, <1>9, <1>11, <1>12, GoOn DEF Before

LEMMA WritableRecordWays ==
  ASSUME Quieted, Before', Sem', WritableRecordFacts
  PROVE  Went
<1>1. /\ Before /\ Sem /\ UNCHANGED <<fat, disk>> /\ pc = "slot" /\ pc' \in {"slot", "record"}
      /\ SameOp /\ op.kind \in {"put", "mkdir", "move"} /\ task = "idle" /\ task' # "free"
      /\ op'.kind = op.kind /\ op'.freed = op.freed
      /\ op.slot # NoSlot => op'.slot = op.slot
      /\ op.freed => op.kind = "put"
  BY DEF Quieted, WritableRecordFacts, Working, Before, StepOf, SameOp, chainMap, Chosen,
         EP!BeginAppend
<1>2. op.freed => op.slot # NoSlot
  BY <1>1, SlotFacts DEF Sem, Replaced, Records, DirSlot
<1>3. Loose' = Loose
  BY <1>1, <1>2 DEF Loose
<1>. QED BY <1>1, <1>3, KeepsWays

LEMMA ClearAppendedWays ==
  ASSUME Quieted, Before', Sem', ClearAppendedFacts
  PROVE  Went
<1>1. /\ Before /\ Sem /\ DiskType /\ UNCHANGED <<fat, op>> /\ pc = "zero" /\ pc' = "record"
      /\ op.kind \in {"put", "mkdir", "move"} /\ Changes /\ SameOp
      /\ \A x \in Cluster : x # op.slot[1] => disk'[x] = disk[x]
  BY DEF Quieted, ClearAppendedFacts, Working, Before, StepOf, SameOp, chainMap, Changes
<1>2. Loose = {} /\ Loose' = {}
  <2>1. ~op.freed
    BY <1>1 DEF Sem, Replaced, Before, StepOf
  <2>. QED BY <1>1, <2>1 DEF Loose
<1>3. \A s \in Records : s[1] # op.slot[1]
  BY <1>1 DEF Quieted, Ways, Placed, Cleared
<1>4. Records' = Records /\ \A s \in Records : At(s)' = At(s)
  BY <1>3 DEF ClearAppendedFacts, Records
<1>5. Held \subseteq Held'
  BY <1>2, <1>4 DEF Held
<1>6. ChainsApart /\ op.slot[1] \in Chain(op.parent) /\ DirHead(op.parent)
  BY <1>1, SoundFacts DEF Sem, ParentHeld
<1>7. ASSUME NEW s \in Held, ~At(s).dir, NEW h, h = At(s).first PROVE op.slot[1] \notin Chain(h)
  <2>1. h # op.parent /\ op.parent \in heads /\ (h = 0 \/ h \in heads)
    BY <1>1, <1>6, <1>7 DEF DirHead, Sem, ChainsHeld
  <2>2. Chain(0) = {}
    BY <1>1, ChainFacts DEF ChainsRead, DiskType
  <2>. QED BY <1>6, <2>1, <2>2 DEF ChainsApart
<1>8. Steady
  <2>1. PICK c : c = op.slot[1]
    OBVIOUS
  <2>2. \A s \in Held : ~At(s).dir => \A h : h = At(s).first => c \notin Chain(h)
    BY <1>7, <2>1
  <2>. QED BY <1>1, <1>4, <1>5, <2>1, <2>2, DataSteady
<1>9. \A d : Chain(d)' = Chain(d)
  BY <1>1 DEF Chain
<1>. QED BY <1>1, <1>4, <1>5, <1>8, <1>9, GoOn DEF Before

(* The editor's writes to entries of no chain in use.                      *)
LEMMA MapWays ==
  ASSUME Quieted, Before', Sem', UNCHANGED <<disk, op>>, op.kind # "delete",
         pc' # "zero", Loose' = Loose,
         NEW c, NEW v, fat' = [fat EXCEPT ![c] = v], \A h \in heads : c \notin Chain(h)
  PROVE  Went
<1>1. DOMAIN fat = Cluster /\ SameOp /\ DiskType'
  BY DEF Quieted, Before, DiskType, SameOp
<1>2. Records' = Records /\ \A s \in Records : At(s)' = At(s)
  BY DEF Records, DirSlot, At
<1>3. Held \subseteq Held'
  BY <1>2 DEF Held
<1>4. Steady
  BY <1>3, MapSteady
<1>5. \A d \in Dirs : Chain(d) \subseteq Chain(d)'
  <2>1. \A d \in Dirs : d \in heads
    BY DirsHeld DEF Quieted, Sem, DirHead
  <2>2. \A h \in heads : Chain(h)' = Chain(h)
    BY <1>1, ChainsKept
  <2>. QED BY <2>1, <2>2
<1>. QED BY <1>1, <1>2, <1>3, <1>4, <1>5, GoOn

LEMMA AllocateLinkWays ==
  ASSUME Quieted, Before', Sem', Alone, EP!AllocateLink
  PROVE  Went
<1>1. /\ Before /\ Sem /\ UNCHANGED <<disk, op, pc, visited>> /\ task = "alloc" /\ task' = "alloc"
      /\ written \in Nat /\ written + 1 < Len(got) /\ Len(got) \in Nat /\ got \in Seq(Cluster)
      /\ fat' = [fat EXCEPT ![got[written + 1]] = got[written + 2]]
      /\ tail = 0 /\ pc = "data" /\ op.kind \in {"put", "mkdir"}
  BY DEF Quieted, Alone, Working, Before, EditorTyped, EP!AllocateLink, TaskOf, StepOf
<1>2. Loose' = Loose
  BY <1>1 DEF Loose, Top
<1>3. written + 1 \in DOMAIN got /\ written + 1 <= written + 1
  BY <1>1
<1>4. \A h \in heads : got[written + 1] \notin Chain(h)
  BY <1>1, <1>3, BuildApart
<1>. QED BY <1>1, <1>2, <1>4, MapWays

LEMMA AllocateEndWays ==
  ASSUME Quieted, Before', Sem', Alone, EP!AllocateEnd
  PROVE  Went
<1>1. /\ Before /\ Sem /\ UNCHANGED <<disk, op, pc>> /\ task = "alloc" /\ task' # "free"
      /\ written \in Nat /\ written + 1 = Len(got) /\ Len(got) \in Nat /\ got \in Seq(Cluster)
      /\ fat' = [fat EXCEPT ![got[written + 1]] = END]
      /\ pc \in {"data", "slot"} /\ op.kind \in {"put", "mkdir", "move"}
  BY DEF Quieted, Alone, Working, Before, EditorTyped, EP!AllocateEnd, EP!Rest, TaskOf, StepOf
<1>2. Loose' = Loose
  BY <1>1 DEF Loose, Top
<1>3. written + 1 \in DOMAIN got /\ written + 1 <= written + 1
  BY <1>1
<1>4. \A h \in heads : got[written + 1] \notin Chain(h)
  BY <1>1, <1>3, BuildApart
<1>. QED BY <1>1, <1>2, <1>4, MapWays

(* It looks for the end of the directory.                                  *)
LEMMA WalkWays ==
  ASSUME Quieted, Before', Sem', Alone, EP!WalkNext \/ (EP!WalkEnd /\ EP!FreeClusters # {})
  PROVE  Went
<1>1. /\ Before /\ UNCHANGED <<fat, disk, op, pc>> /\ task = "walk" /\ task' # "free"
      /\ pc = "slot" /\ op.kind \in {"put", "mkdir", "move"} /\ SameOp
  BY DEF Quieted, Alone, Working, Before, EP!WalkNext, EP!WalkEnd, EP!Rest, TaskOf, StepOf, SameOp
<1>2. Loose' = Loose
  BY <1>1 DEF Loose, Top
<1>. QED BY <1>1, <1>2, KeepsWays

LEMMA LinkGrows ==
  ASSUME DOMAIN fat = Cluster, NEW c, NEW v, fat' = [fat EXCEPT ![c] = v],
         c \in Cluster => fat[c] \notin Cluster
  PROVE  \A h : Chain(h) \subseteq Chain(h)'
<1>. SUFFICES ASSUME NEW h PROVE Chain(h) \subseteq Chain(h)'
  OBVIOUS
<1>. DEFINE S == Reach(fat', h, Cluster)
<1>1. /\ IsFiniteSet(DOMAIN fat) /\ IsFiniteSet(DOMAIN fat') /\ DOMAIN fat' = Cluster
      /\ \A x \in Cluster : x # c => fat'[x] = fat[x]
  BY ClusterFacts
<1>2. h \in DOMAIN fat => h \in S
  BY <1>1, ReachIn
<1>3. ASSUME NEW x \in S \cap Cluster, fat[x] \in DOMAIN fat PROVE fat[x] \in S
  <2>1. fat'[x] = fat[x] /\ fat'[x] \in DOMAIN fat'
    BY <1>1, <1>3
  <2>2. fat'[x] \in S
    BY <1>1, <1>3, <2>1, ReachClosed
  <2>. QED BY <2>1, <2>2
<1>. HIDE DEF S
<1>4. Reach(fat, h, Cluster) \subseteq S
  BY <1>1, <1>2, <1>3, ReachLeast
<1>. QED BY <1>4 DEF S, Chain

LEMMA AppendWays ==
  ASSUME Quieted, Before', Sem', AppendFacts
  PROVE  Went
<1>1. Steady
  BY AppendSteady
<1>2. /\ Before /\ DiskType /\ DOMAIN fat = Cluster /\ SameOp /\ op.kind # "delete"
      /\ UNCHANGED disk /\ Loose = {} /\ Loose' = {} /\ op'.slot[1] = got[1] /\ pc # "zero"
  BY DEF Quieted, Before, DiskType, AppendFacts, SameOp, Chosen, Changes, FirstSlot
<1>3. /\ Records' = Records /\ \A s \in Records : At(s)' = At(s)
  BY <1>2 DEF Records, DirSlot, At
<1>4. Held \subseteq Held'
  BY <1>2, <1>3 DEF Held
<1>5. \A d : Chain(d) \subseteq Chain(d)'
  <2>1. fat[tail] \notin Cluster /\ fat' = [fat EXCEPT ![tail] = got[1]]
    BY ClusterFacts DEF AppendFacts
  <2>. QED BY <1>2, <2>1, LinkGrows
<1>6. \A s \in Records : s[1] # got[1]
  <2>1. \A d \in Dirs : got[1] \notin Chain(d)
    BY DirsHeld DEF Quieted, Sem, DirHead, AppendFacts
  <2>. QED BY <2>1, NoRecords
<1>. QED BY <1>1, <1>2, <1>3, <1>4, <1>5, <1>6, GoOn DEF Before

LEMMA EditorWays ==
  ASSUME Quieted, Before', Sem', EditorStep, state' # "hurt"
  PROVE  Went
<1>1. Working /\ UNCHANGED disk /\ TypeInv /\ Sem
  BY EditorCases DEF Quieted
<1>2. CASE Alone /\ EP!AllocateLink
  BY <1>2, AllocateLinkWays
<1>3. CASE Alone /\ EP!AllocateEnd
  BY <1>3, AllocateEndWays
<1>4. CASE Alone /\ (EP!WalkNext \/ (EP!WalkEnd /\ EP!FreeClusters # {}))
  BY <1>4, WalkWays
<1>5. CASE Alone /\ EP!FreeStep
  BY <1>1, <1>5, FreeStepFacts, FreeWays
<1>6. CASE /\ EP!AppendLink /\ pc' = "zero" /\ UNCHANGED state
           /\ got[1] \in Cluster /\ Chosen(FirstSlot(got[1]))
  BY <1>1, <1>6, AppendLinkFacts, AppendWays
<1>7. CASE EP!WalkEnd /\ EP!FreeClusters = {} /\ Stop
  <2>1. UNCHANGED fat
    BY <1>7 DEF EP!WalkEnd, EP!Rest
  <2>. QED BY <1>1, <1>7, <2>1, StopWays
<1>. QED BY <1>1, <1>2, <1>3, <1>4, <1>5, <1>6, <1>7, EditorCases

(* A slot of the operation's directory may come to hold the new record.    *)
LEMMA NewSpot ==
  ASSUME Quieted, Changes, NEW z \in Slots(op.parent)
  PROVE  \E t \in Aims : Spot(z, op.record.name, t)
<1>1. z[1] \in Chain(op.parent)
  BY ShownFacts DEF Quieted, Before
<1>. QED BY <1>1, PlaceFacts

LEMMA OldSpot ==
  ASSUME Quieted, op.kind = "move", op.from \in Records
  PROVE  \E t \in Aims : Spot(op.from, At(op.from).name, t)
<1>1. Aims = op.targets
  BY DEF Aims
<1>2. PICK t \in op.targets :
        op.from[1] \in Chain(Directory(Parent(t))) /\ At(op.from).name = Last(t)
  BY DEF Quieted, Ways, OldPlace
<1>3. t # << >>
  BY <1>1, <1>2, AimFacts
<1>. QED BY <1>1, <1>2, <1>3 DEF Spot

(* A record is written into the directory of the operation.                *)
LEMMA NewPlaced ==
  ASSUME Quieted, Steady, DiskType', pc' # "zero", Changes, NEW z \in Slots(op.parent),
         Records' \subseteq Records \cup {z}, \A d : Chain(d)' = Chain(d),
         \A s \in Held : At(s).dir => \E t \in Held' : At(t)'.dir /\ At(t)'.first = At(s).first
  PROVE  Placed'
<1>1. Dirs \subseteq Dirs'
  BY DirsKept
<1>2. op.parent \in Dirs
  BY DEF Dirs
<1>3. \A s \in Records' : s \in Records \/ \E d \in Dirs : s \in Slots(d)
  BY <1>2
<1>4. \A d \in Dirs : \A s \in Records' : s \in Slots(d) => d \in Dirs' /\ Chain(d) \subseteq Chain(d)'
  BY <1>1
<1>. QED BY <1>3, <1>4, PlacedKept

LEMMA WriteNewWays ==
  ASSUME Quieted, Before', Sem', WriteRecordFacts, op.kind # "move"
  PROVE  Went
<1>1. /\ Before /\ Sem /\ Done /\ Written(op.slot, op.record) /\ pc = "record"
      /\ op.slot # NoSlot /\ op.record \in Record /\ Changes /\ ~op'.freed
      /\ pc' = "idle" /\ op' = NoOp /\ DiskType'
      /\ op.freed => op.kind = "put"
  BY NoOpFacts
     DEF Quieted, WriteRecordFacts, Working, Before, StepOf, Done, Changes
<1>2. PICK z, r : z = op.slot /\ r = op.record
  OBVIOUS
<1>3. /\ Records' = Records \cup {z} /\ At(z)' = r
      /\ \A s \in Records : s # z => At(s)' = At(s)
      /\ \A d : Chain(d)' = Chain(d)
  BY <1>1, <1>2, WrittenSlots, RecordFacts
<1>4. Loose \subseteq {z} /\ Loose' = {}
  BY <1>1, <1>2 DEF Loose
<1>5. Held' = Records'
  BY <1>4 DEF Held
<1>6. z \in Slots(op.parent)
  BY <1>1, <1>2 DEF Sem, ParentHeld
<1>7. z \in Records => At(z).name = r.name /\ ~At(z).dir
  BY <1>1, <1>2 DEF Sem, Replaced, Records
<1>8. Steady
  <2>. DEFINE T == {z}
  <2>1. \E t \in Aims : Spot(z, r.name, t)
    BY <1>1, <1>2, <1>6, NewSpot
  <2>2. /\ z \in T /\ z \in Records' /\ Written(z, r)
        /\ \A s \in T \cap Records : \E t \in Aims : Spot(s, At(s).name, t)
        /\ \A s \in T \cap Records' : \E t \in Aims : Spot(s, At(s)'.name, t)
        /\ \A s \in Held \ T : s \in Held'
    BY <1>1, <1>2, <1>3, <1>5, <1>7, <2>1 DEF Held
  <2>. HIDE DEF T
  <2>. QED BY <2>2, WrittenSteady
<1>9. Placed'
  <2>1. \A s \in Held : At(s).dir => \E t \in Held' : At(t)'.dir /\ At(t)'.first = At(s).first
    BY <1>3, <1>5, <1>7 DEF Held
  <2>. QED BY <1>1, <1>3, <1>6, <1>8, <2>1, NewPlaced
<1>10. DiskType' /\ Resting' /\ NoLoose'
  BY <1>1, <1>4 DEF Resting, NoLoose
<1>11. Ways'
  BY <1>9, <1>10, WaysRest, PTL
<1>. QED BY <1>8, <1>11 DEF Went

LEMMA WriteMovedWays ==
  ASSUME Quieted, Before', Sem', WriteRecordFacts, op.kind = "move"
  PROVE  Went
<1>1. /\ Before /\ Sem /\ Written(op.slot, op.record) /\ pc = "record"
      /\ op.slot # NoSlot /\ op.record \in Record /\ Changes /\ ~op.freed
      /\ pc' = "unlink" /\ UNCHANGED op /\ DiskType' /\ SameOp
  BY DEF Quieted, WriteRecordFacts, Working, Before, StepOf, Changes, SameOp
<1>2. PICK z, r, f : z = op.slot /\ r = op.record /\ f = op.from
  OBVIOUS
<1>3. /\ Records' = Records \cup {z} /\ At(z)' = r
      /\ \A s \in Records : s # z => At(s)' = At(s)
      /\ \A d : Chain(d)' = Chain(d)
  BY <1>1, <1>2, WrittenSlots, RecordFacts
<1>4. z \notin Records
  BY <1>1, <1>2 DEF Sem, Replaced, Records, Written
<1>5. f \in Records /\ At(f).first = r.first /\ At(f).dir = r.dir /\ f # z
  BY <1>1, <1>2, <1>4 DEF Sem, Moving
<1>6. Loose = {} /\ Loose' = {f}
  BY <1>1, <1>2 DEF Loose
<1>7. Held = Records /\ Held' = Records' \ {f}
  BY <1>6 DEF Held
<1>8. z \in Slots(op.parent)
  BY <1>1, <1>2 DEF Sem, ParentHeld
<1>9. At(f)' = At(f) /\ \E t \in Aims : Spot(f, At(f).name, t)
  BY <1>1, <1>2, <1>3, <1>5, OldSpot
<1>10. Steady
  <2>. DEFINE T == {z, f}
  <2>1. \E t \in Aims : Spot(z, r.name, t)
    BY <1>1, <1>2, <1>8, NewSpot
  <2>2. /\ z \in T /\ z \in Records' /\ Written(z, r)
        /\ \A s \in T \cap Records : \E t \in Aims : Spot(s, At(s).name, t)
        /\ \A s \in T \cap Records' : \E t \in Aims : Spot(s, At(s)'.name, t)
        /\ \A s \in Held \ T : s \in Held'
    BY <1>1, <1>2, <1>3, <1>4, <1>7, <1>9, <2>1
  <2>. HIDE DEF T
  <2>. QED BY <2>2, WrittenSteady
<1>11. Placed'
  <2>1. \A s \in Held : At(s).dir => \E t \in Held' : At(t)'.dir /\ At(t)'.first = At(s).first
    BY <1>3, <1>4, <1>5, <1>7
  <2>. QED BY <1>1, <1>3, <1>8, <1>10, <2>1, NewPlaced
<1>12. op.from \in Records' => op.from \in Records /\ At(op.from)' = At(op.from)
  <2>1. At(op.from)' = At(f)'
    BY <1>1, <1>2 DEF At
  <2>. QED BY <1>2, <1>5, <1>9, <2>1
<1>13. Aside' /\ InPlace' /\ OldPlace' /\ Stack' /\ CalmHeld'
  BY <1>1, <1>3, <1>10, <1>12, WaysSame
<1>. QED BY <1>10, <1>11, <1>13 DEF Went, Ways

LEMMA RenameWays ==
  ASSUME Quieted, Before', Sem', RenameFacts
  PROVE  Went
<1>1. /\ Before /\ Sem /\ pc = "rename" /\ op.kind = "move" /\ op.record \in Record
      /\ Changes /\ ~op.freed /\ DiskType'
  BY DEF Quieted, RenameFacts, Working, Before, StepOf, Changes
<1>2. CASE pc' = "slot" /\ UNCHANGED <<chainMap, disk, op, state>>
  <2>1. UNCHANGED <<fat, disk>> /\ SameOp
    BY <1>2 DEF SameOp, chainMap
  <2>2. Loose' = Loose
    BY <1>1, <1>2 DEF Loose
  <2>. QED BY <1>1, <1>2, <2>1, <2>2, KeepsWays
<1>3. CASE SameParent /\ Written(op.from, op.record) /\ Done
  <2>1. PICK z, r : z = op.from /\ r = op.record
    OBVIOUS
  <2>2. /\ Records' = Records \cup {z} /\ At(z)' = r
        /\ \A s \in Records : s # z => At(s)' = At(s)
        /\ \A d : Chain(d)' = Chain(d)
    BY <1>1, <1>3, <2>1, WrittenSlots, RecordFacts
  <2>3. pc' = "idle" /\ op' = NoOp /\ ~op'.freed
    BY <1>3, NoOpFacts DEF Done
  <2>4. Loose = {} /\ Loose' = {}
    BY <1>1, <2>3 DEF Loose
  <2>5. Held = Records /\ Held' = Records'
    BY <2>4 DEF Held
  <2>6. z \in Slots(op.parent) /\ (z \in Records => At(z).first = r.first /\ At(z).dir = r.dir)
    BY <1>1, <1>3, <2>1 DEF Sem, Moving
  <2>7. z \in Records => \E t \in Aims : Spot(z, At(z).name, t)
    BY <1>1, <2>1, OldSpot
  <2>8. Steady
    <3>. DEFINE T == {z}
    <3>1. \E t \in Aims : Spot(z, r.name, t)
      BY <1>1, <2>1, <2>6, NewSpot
    <3>2. /\ z \in T /\ z \in Records' /\ Written(z, r)
          /\ \A s \in T \cap Records : \E t \in Aims : Spot(s, At(s).name, t)
          /\ \A s \in T \cap Records' : \E t \in Aims : Spot(s, At(s)'.name, t)
          /\ \A s \in Held \ T : s \in Held'
      BY <1>3, <2>1, <2>2, <2>5, <2>7, <3>1
    <3>. HIDE DEF T
    <3>. QED BY <3>2, WrittenSteady
  <2>9. Placed'
    <3>1. \A s \in Held : At(s).dir => \E t \in Held' : At(t)'.dir /\ At(t)'.first = At(s).first
      BY <2>2, <2>5, <2>6
    <3>. QED BY <1>1, <2>2, <2>3, <2>6, <2>8, <3>1, NewPlaced
  <2>10. DiskType' /\ Resting' /\ NoLoose'
    BY <1>1, <2>3, <2>4 DEF Resting, NoLoose
  <2>11. Ways'
    BY <2>9, <2>10, WaysRest, PTL
  <2>. QED BY <2>8, <2>11 DEF Went
<1>. QED BY <1>2, <1>3 DEF RenameFacts

LEMMA UnlinkWays ==
  ASSUME Quieted, Before', Sem', UnlinkFacts
  PROVE  Went
<1>1. /\ Before /\ Sem /\ Done /\ Written(op.from, FreeRecord) /\ pc = "unlink" /\ op.kind = "move"
      /\ pc' = "idle" /\ op' = NoOp /\ ~op'.freed /\ DiskType'
  BY NoOpFacts DEF Quieted, UnlinkFacts, Working, Before, Done
<1>2. PICK z : z = op.from
  OBVIOUS
<1>3. /\ Records' = Records \ {z}
      /\ \A s \in Records : s # z => At(s)' = At(s)
      /\ \A d : Chain(d)' = Chain(d)
  BY <1>1, <1>2, WrittenSlots
<1>4. z \in Records /\ Loose = {z} /\ Loose' = {}
  <2>1. z \in Records
    BY <1>1, <1>2 DEF Sem, Moving
  <2>. QED BY <1>1, <1>2, <2>1 DEF Loose
<1>5. Held = Records \ {z} /\ Held' = Records'
  BY <1>4 DEF Held
<1>6. \E t \in Aims : Spot(z, At(z).name, t)
  BY <1>1, <1>2, <1>4, OldSpot
<1>7. Steady
  <2>. DEFINE T == {z}
  <2>1. /\ z \in T /\ z \in Records /\ Written(z, FreeRecord)
        /\ \A s \in T \cap Records : \E t \in Aims : Spot(s, At(s).name, t)
        /\ \A s \in T \cap Records' : \E t \in Aims : Spot(s, At(s)'.name, t)
        /\ \A s \in Held \ T : s \in Held'
    BY <1>1, <1>2, <1>3, <1>4, <1>5, <1>6
  <2>. HIDE DEF T
  <2>. QED BY <2>1, WrittenSteady
<1>8. Placed'
  <2>1. \A s \in Held : At(s).dir => s \in Held' /\ At(s)' = At(s)
    BY <1>3, <1>5
  <2>. QED BY <1>1, <1>3, <1>7, <2>1, PlacedSame
<1>9. DiskType' /\ Resting' /\ NoLoose'
  BY <1>1, <1>4 DEF Resting, NoLoose
<1>10. Ways'
  BY <1>8, <1>9, WaysRest, PTL
<1>. QED BY <1>7, <1>10 DEF Went

(* Nothing happens.                                                        *)
LEMMA StutterWays ==
  ASSUME Quieted, UNCHANGED vars
  PROVE  Ways'
<1>1. /\ UNCHANGED <<fat, disk, pc, op, task, visited>> /\ SameOp
  BY DEF vars, service, chainMap, SameOp
<1>2. /\ Records' = Records /\ (\A s : At(s)' = At(s))
      /\ \A d : Slots(d)' = Slots(d) /\ Chain(d)' = Chain(d)
  BY <1>1, StillFacts
<1>3. Loose' = Loose /\ Top' = Top /\ Aims' = Aims
  BY <1>1 DEF Loose, Top, Aims
<1>4. Held \subseteq Held'
  BY <1>2, <1>3 DEF Held
<1>5. Before' /\ Sem' /\ DiskType'
  <2>1. TypeInv' /\ Sem'
    BY StutterTypes, StutterSem DEF Quieted
  <2>. QED BY <2>1, BeforeStep, PTL DEF Before
<1>6. Steady
  BY <1>1, <1>4, <1>5, SameSteady
<1>7. pc = "zero" => \A s \in Records : s[1] # op.slot[1]
  BY DEF Quieted, Ways, Placed, Cleared
<1>8. CASE op.kind # "delete"
  BY <1>1, <1>2, <1>4, <1>5, <1>6, <1>7, <1>8, GoOn DEF Went
<1>9. CASE op.kind = "delete"
  <2>1. PICK t \in Seq(Frames) : t = op.stack
    BY <1>9, StackFrames
  <2>2. \A p \in Seq(Name) : Directory(p)' = Directory(p)
    BY <1>1, <1>5, DirectorySame DEF Quieted, Before
  <2>3. ASSUME NEW i \in DOMAIN t PROVE t[i].path \in Seq(Name) /\ FrameAt(t[i])' /\ Emptied(t[i])'
    <3>1. LowFrame(t[i]) /\ FrameAt(t[i]) /\ Emptied(t[i])
      BY <1>9, <2>1, <2>3, StackFrames DEF LowFrame
    <3>2. PICK d : d = Directory(Parent(t[i].path))
      OBVIOUS
    <3>3. Directory(Parent(t[i].path))' = d
      BY <2>2, <3>1, <3>2 DEF LowFrame
    <3>4. Slots(Directory(Parent(t[i].path)))' = Slots(d)'
      BY <3>3 DEF Slots, Chain
    <3>5. FrameAt(t[i])'
      BY <1>1, <1>2, <3>1, <3>2, <3>4 DEF FrameAt
    <3>6. PICK e : e = At(t[i].slot).first
      OBVIOUS
    <3>7. Slots(At(t[i].slot).first)' = Slots(e)'
      BY <1>2, <3>6 DEF Slots, Chain
    <3>8. Emptied(t[i])'
      BY <1>1, <1>2, <3>1, <3>6, <3>7 DEF Emptied
    <3>. QED BY <3>1, <3>5, <3>8 DEF LowFrame
  <2>4. StackOf(t)'
    <3>1. Stack /\ op'.stack = t /\ op.stack = t
      BY <1>1, <2>1 DEF Quieted, Ways
    <3>2. \A i \in DOMAIN t : Directory(t[i].path)' = Directory(t[i].path)
      BY <2>2, <2>3
    <3>3. /\ \A i, j \in DOMAIN t : i < j =>
               Len(t[i].path) < Len(t[j].path) /\ At(t[i].slot).dir
          /\ \A i \in DOMAIN t :
               At(t[i].slot).dir /\ (pc = "delete" \/ t[i].path # t[Len(t)].path)
                 => Directory(t[i].path) = At(t[i].slot).first
          /\ pc = "mark" => t[Len(t)].todo = {}
      BY <1>9, <3>1 DEF Stack, Top
    <3>. QED BY <1>1, <1>2, <2>3, <3>1, <3>2, <3>3 DEF StackOf
  <2>5. Stack'
    BY <2>4, StackMade
  <2>6. CalmHeld'
    BY <1>3, <1>6, CalmKept
  <2>7. Placed'
    <3>1. \A s \in Held : At(s).dir => s \in Held' /\ At(s)' = At(s)
      BY <1>2, <1>4
    <3>. QED BY <1>1, <1>2, <1>5, <1>6, <1>7, <3>1, PlacedSame
  <2>. QED BY <1>1, <1>9, <2>5, <2>6, <2>7, DeleteAside DEF Ways
<1>. QED BY <1>8, <1>9

LEMMA ServiceWays ==
  ASSUME Quieted, Before', Sem', ServiceStep, state' # "hurt"
  PROVE  Went
<1>1. TypeInv /\ Before /\ Sem
  BY DEF Quieted
<1>2. CASE Allocate
  <2>1. pc = "alloc" /\ task = "idle"
    BY <1>2 DEF Allocate
  <2>2. Stop /\ UNCHANGED <<chainMap, disk>> => Went
    BY StopWays DEF chainMap
  <2>. QED BY <1>1, <1>2, <2>1, <2>2, AllocateStep, EmptyWays, AllocateWays
<1>3. CASE WriteData
  <2>1. Stop /\ UNCHANGED <<chainMap, disk>> => Went
    BY StopWays DEF chainMap
  <2>. QED BY <1>1, <1>3, <2>1, WriteDataStep, WriteDataWays
<1>4. CASE WritableRecord
  BY <1>1, <1>4, WritableRecordStep, WritableRecordWays
<1>5. CASE ClearAppended
  <2>1. Stop /\ UNCHANGED <<chainMap, disk>> => Went
    BY StopWays DEF chainMap
  <2>. QED BY <1>1, <1>5, <2>1, ClearAppendedStep, ClearAppendedWays
<1>6. CASE WriteRecord
  BY <1>1, <1>6, WriteRecordStep, WriteNewWays, WriteMovedWays
<1>7. CASE DeleteChild
  <2>1. Stop /\ UNCHANGED <<chainMap, disk>> => Went
    BY StopWays DEF chainMap
  <2>. QED BY <1>1, <1>7, <2>1, DeleteChildStep, DeleteChildWays
<1>8. CASE DeleteChain
  BY <1>1, <1>8, DeleteChainStep, DeleteChainWays
<1>9. CASE MarkDeleted
  BY <1>1, <1>9, MarkDeletedStep, MarkDeletedWays
<1>10. CASE Rename
  BY <1>1, <1>10, RenameStep, RenameWays
<1>11. CASE Unlink
  BY <1>1, <1>11, UnlinkStep, UnlinkWays
<1>. QED BY <1>2, <1>3, <1>4, <1>5, <1>6, <1>7, <1>8, <1>9, <1>10, <1>11 DEF ServiceStep

(* Every step of the program leaves the paths outside of it as they were.  *)
LEMMA EachWent ==
  ASSUME Quieted, Before', Sem', Next, state' # "hurt"
  PROVE  Went
<1>1. TypeInv /\ Before /\ Sem
  BY DEF Quieted
<1>2. ASSUME NEW p \in Path \ {<< >>}, NEW size \in 0 .. MaxChain, NEW content \in Payload,
             PutFile(p, size, content)
      PROVE  Went
  BY <1>1, <1>2, PutFileStep, PutFileWays
<1>3. ASSUME NEW p \in Path \ {<< >>}, CreateDirectory(p) PROVE Went
  BY <1>1, <1>3, CreateDirectoryStep, CreateDirectoryWays
<1>4. ASSUME NEW p \in Path \ {<< >>}, NEW recursive \in BOOLEAN, Delete(p, recursive) PROVE Went
  BY <1>1, <1>4, DeleteStep, DeleteWays
<1>5. ASSUME NEW p \in Path \ {<< >>}, NEW q \in Path \ {<< >>}, NEW overwrite \in BOOLEAN,
             Move(p, q, overwrite)
      PROVE  Went
  BY <1>1, <1>5, MoveStep, MoveWays
<1>6. CASE ServiceStep
  BY <1>6, ServiceWays
<1>7. CASE EditorStep
  BY <1>7, EditorWays
<1>8. CASE Interrupt
  <2>1. UNCHANGED fat /\ UNCHANGED disk /\ Stop
    <3>1. UNCHANGED chainMap \/ EP!Interrupt
      BY <1>1, <1>8, EditorSteps DEF Interrupt
    <3>. QED BY <1>8, <3>1 DEF Interrupt, chainMap, EP!Interrupt, EP!Rest
  <2>. QED BY <2>1, StopWays
<1>. QED BY <1>2, <1>3, <1>4, <1>5, <1>6, <1>7, <1>8 DEF Next

LEMMA WaysInit == Init => WInv
<1>. SUFFICES ASSUME Init PROVE WInv
  OBVIOUS
<1>1. IInv /\ Before /\ op = NoOp /\ pc = "idle"
  BY IInvInit, BeforeStep DEF IInv, Init
<1>2. Records = {}
  <2>1. \A s \in Slot : At(s) = FreeRecord
    BY SlotFacts, DirArrayFacts DEF Init, At
  <2>. QED BY <2>1 DEF Records, DirSlot
<1>3. Loose = {}
  BY <1>1, NoOpFacts DEF Loose
<1>4. DiskType /\ Resting /\ NoLoose /\ Placed
  BY <1>1, <1>2, <1>3 DEF Before, Resting, NoLoose, Placed
<1>. QED BY <1>1, <1>4, WaysRest DEF WInv

LEMMA WaysSteps ==
  ASSUME WInv, [Next]_vars, state' # "hurt"
  PROVE  /\ Quieted /\ Before' /\ Sem' /\ Ways'
         /\ Next => Steady
<1>1. IInv /\ IInv' /\ Sem /\ Sem'
  BY IInvNext, SemNext DEF WInv
<1>2. TypeInv /\ TypeInv' /\ Before
  BY <1>1, BeforeStep DEF IInv
<1>3. Before'
  BY <1>2, BeforeStep, PTL
<1>4. state # "hurt"
  BY StateSteps
<1>5. Quieted
  BY <1>1, <1>2, <1>4 DEF WInv, Quieted
<1>6. Next => Went
  BY <1>1, <1>3, <1>5, EachWent
<1>7. UNCHANGED vars => Ways'
  BY <1>5, StutterWays
<1>. QED BY <1>1, <1>3, <1>5, <1>6, <1>7 DEF Went

LEMMA WaysNext == WInv /\ [Next]_vars => WInv'
BY IInvNext, WaysSteps DEF WInv

LEMMA WaysAlways == Spec => []WInv
BY WaysInit, WaysNext, PTL DEF Spec

-----------------------------------------------------------------------------
(* Paths outside the operation.                                            *)

LEMMA AsideCalm ==
  ASSUME Quieted, NEW p \in Seq(Name), \A t \in op.targets : ~IsPrefix(t, p)
  PROVE  Calm(p)
<1>1. CASE op.kind # "delete"
  BY <1>1 DEF Calm, Aims
<1>2. CASE op.kind = "delete"
  <2>1. /\ Aims = {Top.path} /\ Top.path \in Seq(Name) /\ FrameAt(Top)
    <3>1. /\ op.stack \in Seq(Frames) /\ Len(op.stack) \in Nat \ {0}
          /\ Top = op.stack[Len(op.stack)]
          /\ \A i \in DOMAIN op.stack : FrameAt(op.stack[i])
      BY <1>2, StackFrames DEF LowFrame
    <3>2. PICK n : n = Len(op.stack)
      OBVIOUS
    <3>3. n \in DOMAIN op.stack
      BY <3>1, <3>2
    <3>. QED BY <1>2, <3>1, <3>2, <3>3, StackFrames
  <2>2. PICK t \in op.targets : IsPrefix(t, Top.path)
    BY <2>1 DEF FrameAt
  <2>3. t \in Seq(Name)
    BY DEF Quieted, Ways, Aside
  <2>4. ASSUME IsPrefix(Top.path, p) PROVE FALSE
    <3>1. PICK y : y = Top.path
      OBVIOUS
    <3>2. y \in Seq(Name) /\ IsPrefix(t, y) /\ IsPrefix(y, p)
      BY <2>1, <2>2, <2>4, <3>1
    <3>3. IsPrefix(t, p)
      BY <2>3, <3>2, PrefixTransitive
    <3>. QED BY <3>3
  <2>. QED BY <2>1, <2>4 DEF Calm
<1>. QED BY <1>1, <1>2

(* No step of an operation, completed, refused or cut short, changes what  *)
(* a path it was not asked to change shows: neither its kind nor a byte of *)
(* its contents, as long as the volume is not damaged                      *)
(* (FatxMutationService.cs:24-188).                                        *)
THEOREM UndisturbedTheorem == Spec => Undisturbed
<1>. DEFINE Kept == state' # "hurt" =>
              \A p \in Path \ {<< >>} :
                (\A t \in op.targets : ~IsPrefix(t, p)) => Value(p)' = Value(p)
<1>1. ASSUME WInv, [Next]_vars, state' # "hurt", ~UNCHANGED <<fat, disk>>,
             NEW p \in Path \ {<< >>}, \A t \in op.targets : ~IsPrefix(t, p)
      PROVE  Value(p)' = Value(p)
  <2>1. Next
    BY <1>1 DEF vars, chainMap, service
  <2>2. Quieted /\ Steady
    BY <1>1, <2>1, WaysSteps
  <2>3. p \in Seq(Name) /\ p # << >>
    BY PathSequences
  <2>4. Calm(p)
    BY <1>1, <2>2, <2>3, AsideCalm
  <2>. QED BY <2>2, <2>3, <2>4 DEF Steady, SteadyPath
<1>2. WInv /\ [Next]_vars => [Kept]_<<fat, disk>>
  BY <1>1
<1>3. Spec => [][Kept]_<<fat, disk>>
  BY <1>2, WaysAlways, PTL DEF Spec
<1>. QED BY <1>3 DEF Undisturbed

-----------------------------------------------------------------------------
(* What a put or a new directory leaves.                                   *)

(* The clusters it wrote are the chain, each of them once.                 *)
LEMMA ChainWritten ==
  ASSUME Quieted, op.kind \in {"put", "mkdir"}, pc = "record", task = "idle"
  PROVE  /\ Chain(op.record.first) = {op.clusters[i] : i \in DOMAIN op.clusters}
         /\ Cardinality(Chain(op.record.first)) = op.size
         /\ \A c \in Chain(op.record.first) : disk[c] = op.content
<1>1. PICK t, n, h : t = op.clusters /\ n = Len(op.clusters) /\ h = op.record.first
  OBVIOUS
<1>2. /\ t \in Seq(Cluster) /\ n \in Nat /\ DOMAIN t = 1 .. n /\ n = op.size /\ op.done = n
      /\ DOMAIN fat = Cluster
  <2>1. t \in Seq(Cluster) /\ DOMAIN fat = Cluster
    BY <1>1 DEF Quieted, Before, DiskType, Operation
  <2>2. n = op.size /\ op.done = n
    BY <1>1 DEF Quieted, Sem, NewClusters
  <2>3. n = Len(t)
    BY <1>1
  <2>. QED BY <2>1, <2>2, <2>3
<1>3. /\ h = IF t = << >> THEN 0 ELSE t[1]
      /\ \A i, j \in 1 .. n : t[i] = t[j] => i = j
      /\ \A i \in 1 .. n : disk[t[i]] = op.content
      /\ \A i \in 1 .. n : t[i] \in Cluster
      /\ t # << >> => \A i \in 1 .. n : fat[t[i]] = IF i = n THEN END ELSE t[i + 1]
  <2>1. /\ h = IF t = << >> THEN 0 ELSE t[1]
        /\ \A i, j \in DOMAIN t : t[i] = t[j] => i = j
        /\ \A i \in 1 .. n : disk[t[i]] = op.content
        /\ t # << >> => \A i \in DOMAIN t : fat[t[i]] = IF i = n THEN END ELSE t[i + 1]
    BY <1>1, <1>2 DEF Quieted, Sem, NewClusters
  <2>2. \A i \in 1 .. n : t[i] \in Cluster
    BY <1>2
  <2>. QED BY <1>2, <2>1, <2>2
<1>. DEFINE W == {t[i] : i \in 1 .. n}
<1>4. IsFiniteSet(DOMAIN fat) /\ 0 \notin Cluster /\ END \notin Cluster
  BY <1>2, ClusterFacts
<1>5. Chain(h) \subseteq W
  <2>1. h \in DOMAIN fat => h \in W
    <3>1. t # << >> => 1 \in 1 .. n
      BY <1>2
    <3>. QED BY <1>2, <1>3, <1>4, <3>1
  <2>2. ASSUME NEW c \in W \cap Cluster, fat[c] \in DOMAIN fat PROVE fat[c] \in W
    <3>1. PICK i \in 1 .. n : c = t[i]
      BY <2>2
    <3>2. t # << >>
      BY <1>2, <3>1
    <3>3. i # n /\ fat[c] = t[i + 1]
      BY <1>2, <1>3, <1>4, <2>2, <3>1, <3>2
    <3>4. i + 1 \in 1 .. n
      BY <1>2, <3>3
    <3>. QED BY <3>3, <3>4
  <2>. HIDE DEF W
  <2>3. Reach(fat, h, Cluster) \subseteq W
    BY <1>4, <2>1, <2>2, ReachLeast
  <2>. QED BY <2>3 DEF Chain
<1>6. W \subseteq Chain(h)
  <2>. DEFINE P == {i \in Nat : i + 1 \in 1 .. n => t[i + 1] \in Chain(h)}
  <2>1. 0 \in P
    <3>1. SUFFICES ASSUME 1 \in 1 .. n PROVE t[1] \in Chain(h)
      OBVIOUS
    <3>2. t # << >>
      BY <1>2, <3>1
    <3>3. h = t[1] /\ h \in DOMAIN fat
      BY <1>2, <1>3, <3>1, <3>2
    <3>. QED BY <1>4, <3>3, ReachIn DEF Chain
  <2>2. ASSUME NEW i \in P PROVE i + 1 \in P
    <3>1. SUFFICES ASSUME (i + 1) + 1 \in 1 .. n PROVE t[(i + 1) + 1] \in Chain(h)
      OBVIOUS
    <3>2. i + 1 \in 1 .. n /\ i + 1 # n /\ t # << >> /\ t[i + 1] \in Chain(h)
      BY <1>2, <3>1
    <3>3. fat[t[i + 1]] = t[(i + 1) + 1] /\ t[i + 1] \in Cluster /\ t[(i + 1) + 1] \in DOMAIN fat
      BY <1>2, <1>3, <3>1, <3>2
    <3>4. t[i + 1] \in Reach(fat, h, Cluster) \cap Cluster
      BY <3>2, <3>3 DEF Chain
    <3>. QED BY <1>4, <3>3, <3>4, ReachClosed DEF Chain
  <2>3. P = Nat
    <3>. HIDE DEF P
    <3>1. P \subseteq Nat
      BY DEF P
    <3>. QED BY <2>1, <2>2, <3>1, Induct
  <2>4. ASSUME NEW i \in 1 .. n PROVE t[i] \in Chain(h)
    <3>1. PICK k \in Nat : k + 1 = i
      BY <1>2
    <3>2. k \in P
      BY <2>3
    <3>. QED BY <3>1, <3>2
  <2>. QED BY <2>4
<1>7. Cardinality(W) = n
  <2>. DEFINE f == [i \in 1 .. n |-> t[i]]
  <2>1. f \in Bijection(1 .. n, W)
    BY <1>3 DEF Bijection, Injection, Surjection, IsInjective
  <2>2. ExistsBijection(1 .. n, W)
    BY <2>1 DEF ExistsBijection
  <2>. HIDE DEF W
  <2>. QED BY <1>2, <2>2, FS_CountingElements
<1>8. W = {op.clusters[i] : i \in DOMAIN op.clusters}
  BY <1>1, <1>2
<1>. HIDE DEF W
<1>9. Chain(h) = W
  BY <1>5, <1>6
<1>10. \A c \in W : disk[c] = op.content
  BY <1>3 DEF W
<1>. QED BY <1>1, <1>2, <1>7, <1>8, <1>9, <1>10

(* A put that completes leaves a file of the asked size and content at its *)
(* path, and a new directory a record over one cleared cluster, so that it *)
(* shows nothing the cluster held before (FatxMutationService.cs:55-69,    *)
(* 83-86), in every undamaged volume and for files of every length.        *)
THEOREM WritesTheorem == Spec => WritesTakeEffect
<1>. DEFINE Wrote == WriteRecord /\ op.kind # "move" =>
              \A p \in op.targets, first \in {op.record.first} :
                /\ \E s \in Lookup(p)' : At(s)' = op.record
                /\ Cardinality(Chain(first)') = op.size
                /\ \A c \in Chain(first)' : disk'[c] = op.content
<1>1. ASSUME WInv, Next, WriteRecord, op.kind # "move", NEW p \in op.targets
      PROVE  /\ \E s \in Lookup(p)' : At(s)' = op.record
             /\ \A first \in {op.record.first} :
                  /\ Cardinality(Chain(first)') = op.size
                  /\ \A c \in Chain(first)' : disk'[c] = op.content
  <2>1. /\ TypeInv /\ WriteRecordFacts /\ pc = "record" /\ task = "idle"
        /\ Done /\ Written(op.slot, op.record) /\ op.record \in Record
    BY <1>1, WriteRecordStep DEF WInv, IInv, WriteRecordFacts, WriteRecord
  <2>2. Before /\ op.kind \in {"put", "mkdir"} /\ state' # "hurt"
    BY <1>1, <2>1, BeforeStep DEF Before, StepOf, Done
  <2>3. Quieted /\ Steady /\ Sem /\ DiskType
    BY <1>1, <2>2, WaysSteps DEF Quieted, Before
  <2>4. PICK z, r, d : z = op.slot /\ r = op.record /\ d = op.parent
    OBVIOUS
  <2>5. /\ Records' = Records \cup {z} /\ At(z)' = r
        /\ \A x : Chain(x)' = Chain(x) /\ Slots(x)' = Slots(x)
    BY <2>1, <2>2, <2>4, WrittenSlots, RecordFacts
  <2>6. z \in Slots(d) /\ z[1] \in Chain(d) /\ d \in heads
    <3>1. z \in Slots(d) /\ d \in heads
      BY <2>1, <2>2, <2>3, <2>4 DEF Sem, ParentHeld, DirHead, Changes, WriteRecordFacts
    <3>. QED BY <2>3, <3>1, ShownFacts
  <2>7. \E s \in Lookup(p)' : At(s)' = r
    <3>1. p \in Aims /\ Directory(Parent(p)) = d /\ r.name = Last(p)
      BY <2>2, <2>3, <2>4 DEF Quieted, Ways, InPlace, Changes, Aims
    <3>2. Parent(p) \in Seq(Name) /\ Calm(Parent(p))
      BY <2>3, <3>1, AimFacts
    <3>3. Directory(Parent(p))' = d
      BY <2>3, <3>1, <3>2 DEF Steady, SteadyPath
    <3>4. Slots(Directory(Parent(p)))' = Slots(d)'
      BY <3>3 DEF Slots, Chain
    <3>5. z \in Lookup(p)'
      BY <2>5, <2>6, <3>1, <3>4 DEF Lookup, FindEntry
    <3>. QED BY <2>5, <3>5
  <2>8. /\ Cardinality(Chain(r.first)') = op.size
        /\ \A c \in Chain(r.first)' : disk'[c] = op.content
    <3>1. /\ Cardinality(Chain(r.first)) = op.size
          /\ \A c \in Chain(r.first) : disk[c] = op.content
      BY <2>1, <2>2, <2>3, <2>4, ChainWritten
    <3>2. PICK h : h = r.first
      OBVIOUS
    <3>3. z[1] \notin Chain(h)
      <4>1. CASE h = 0
        BY <2>3, <4>1, ChainFacts DEF ChainsRead, DiskType
      <4>2. CASE h # 0
        <5>1. h \in heads /\ h # d
          BY <2>1, <2>2, <2>3, <2>4, <3>2, <4>2 DEF Sem, NewClusters
        <5>2. ChainsApart
          BY <2>2, <2>3, SoundFacts DEF Sem
        <5>. QED BY <2>6, <5>1, <5>2 DEF ChainsApart
      <4>. QED BY <4>1, <4>2
    <3>4. \A c \in Chain(h) : c \in Cluster /\ disk'[c] = disk[c]
      BY <2>1, <2>3, <2>4, <3>3, ChainFacts DEF ChainsRead, DiskType, Written
    <3>5. Chain(r.first)' = Chain(h)
      BY <2>4, <2>5, <3>2
    <3>. QED BY <3>1, <3>2, <3>4, <3>5
  <2>. QED BY <2>4, <2>7, <2>8
<1>2. ASSUME WInv, [Next]_vars PROVE [Wrote]_vars
  <2>1. CASE UNCHANGED vars
    BY <2>1
  <2>2. CASE Next
    <3>1. ASSUME WriteRecord, op.kind # "move",
                 NEW p \in op.targets, NEW first \in {op.record.first}
          PROVE  /\ \E s \in Lookup(p)' : At(s)' = op.record
                 /\ Cardinality(Chain(first)') = op.size
                 /\ \A c \in Chain(first)' : disk'[c] = op.content
      BY <1>1, <1>2, <2>2, <3>1
    <3>. QED BY <3>1
  <2>. QED BY <1>2, <2>1, <2>2
<1>3. Spec => [][Wrote]_vars
  BY <1>2, WaysAlways, PTL DEF Spec
<1>. QED BY <1>3 DEF WritesTakeEffect
-----------------------------------------------------------------------------
(* Nothing leaks.                                                          *)

(* A ranking is kept as long as every directory stays in a directory it    *)
(* was in, or comes into the one the operation works in.                   *)
RankedPlace(d, s) ==
  \/ d \in Dirs /\ s \in Held \cap Cleared(d) /\ At(s)' = At(s)
  \/ op.kind = "move" /\ d = op.parent /\ At(s)' = op.record

LEMMA SunkKept ==
  ASSUME Sunk,
         \A d \in Dirs' : \A s \in Held' \cap Cleared(d)' : At(s)'.dir => RankedPlace(d, s),
         op'.kind = "mkdir" => op.kind = "mkdir" /\ op'.parent = op.parent,
         op'.kind = "move" => /\ op.kind = "move" /\ op'.parent = op.parent
                              /\ op'.record.dir = op.record.dir
                              /\ op'.record.first = op.record.first
  PROVE  Sunk'
<1>1. PICK g \in Ranking : Ranked(g)
  BY DEF Sunk
<1>2. \A d \in Dirs' : \A s \in Held' \cap Cleared(d)' : At(s)'.dir => g[d] < g[At(s)'.first]
  BY <1>1 DEF Ranked, RankedPlace
<1>3. op'.kind = "mkdir" => g[op'.parent] < MaxDepth
  BY <1>1 DEF Ranked
<1>4. op'.kind = "move" /\ op'.record.dir => g[op'.parent] < g[op'.record.first]
  BY <1>1 DEF Ranked
<1>5. Ranking' = Ranking
  BY DEF Ranking, Cluster
<1>. QED BY <1>1, <1>2, <1>3, <1>4, <1>5 DEF Sunk, Ranked

(* What a step that leaves the volume as it is has to show.                *)
TaskKept ==
  /\ task = "alloc" /\ written > 0 => task' = "alloc" /\ UNCHANGED <<got, written>>
  /\ task = "link" => task' = "link" /\ UNCHANGED got
  /\ task = "free" => cur \in heads \/ (task' = "free" /\ UNCHANGED cur)

NewKept ==
  /\ op.kind \in {"put", "mkdir"} /\ op.record.first \in heads =>
       op'.kind \in {"put", "mkdir"} /\ op'.record.first = op.record.first
  /\ op'.done = 0 \/ (op'.done = op.done /\ op'.clusters = op.clusters)
  /\ pc = "zero" => pc' = "zero" /\ op'.slot = op.slot

LEMMA StillTidy ==
  ASSUME Tidy, UNCHANGED <<fat, heads, disk>>, TaskKept, NewKept, Held \subseteq Held',
         Dirs' \subseteq Dirs
  PROVE  Acyclic(fat)' /\ Rooted' /\ Named' /\ Ashore'
<1>0. /\ \A s : At(s)' = At(s)
      /\ \A c : Chain(c)' = Chain(c)
      /\ OnDisk' = OnDisk /\ Cluster' = Cluster
  BY StillFacts DEF OnDisk, Cluster
<1>1. Acyclic(fat)'
  BY DEF Tidy, Acyclic
<1>2. Rooted'
  BY <1>0 DEF Tidy, Rooted, TaskKept, Source
<1>3. Named'
  BY <1>0 DEF Tidy, Named, NewKept
<1>4. Ashore'
  <2>1. \A d \in Dirs' : \A c \in Chain(d)' : c \in OnDisk \/ (pc' = "zero" /\ c = op'.slot[1])
    BY <1>0 DEF Tidy, Ashore, NewKept
  <2>2. \A i \in 1 .. op'.done : op'.clusters[i] \in OnDisk
    BY DEF Tidy, Ashore, NewKept
  <2>. QED BY <1>0, <2>1, <2>2 DEF Ashore
<1>. QED BY <1>1, <1>2, <1>3, <1>4

LEMMA QuietTidy ==
  ASSUME Tidy, UNCHANGED <<fat, heads, disk>>, TaskKept, NewKept, Loose' = Loose,
         Changes' => Changes /\ op'.parent = op.parent,
         op'.kind = "mkdir" => op.kind = "mkdir",
         op'.kind = "move" => op.kind = "move" /\ op'.record = op.record
  PROVE  Tidy'
<1>1. /\ Records' = Records /\ \A s : At(s)' = At(s)
      /\ \A d : Slots(d)' = Slots(d)
  BY StillFacts
<1>2. Held' = Held
  BY <1>1 DEF Held
<1>3. Dirs' \subseteq Dirs
  BY <1>1, <1>2 DEF Dirs
<1>4. Acyclic(fat)' /\ Rooted' /\ Named' /\ Ashore'
  BY <1>2, <1>3, StillTidy
<1>5. \A d : Cleared(d)' \subseteq Cleared(d)
  BY <1>1 DEF Cleared, NewKept
<1>6. Sunk'
  <2>1. \A d \in Dirs' : \A s \in Held' \cap Cleared(d)' : At(s)'.dir => RankedPlace(d, s)
    BY <1>1, <1>2, <1>3, <1>5 DEF RankedPlace
  <2>2. op'.kind = "mkdir" => op.kind = "mkdir" /\ op'.parent = op.parent
    BY DEF Changes
  <2>3. op'.kind = "move" => /\ op.kind = "move" /\ op'.parent = op.parent
                             /\ op'.record.dir = op.record.dir
                             /\ op'.record.first = op.record.first
    BY DEF Changes
  <2>. QED BY <2>1, <2>2, <2>3, SunkKept DEF Tidy
<1>. QED BY <1>4, <1>6 DEF Tidy

(* An operation that stops early and leaves nothing behind.                *)
LEMMA StopTidy ==
  ASSUME Quieted, Tidy, Stop, state' = "clean", UNCHANGED <<fat, heads, disk>>
  PROVE  Tidy'
<1>1. /\ Before /\ Sem /\ EditorTyped /\ ~Breaks /\ ~Leaks /\ op' = NoOp
  BY DEF Quieted, Before, Stop
<1>2. /\ op'.kind = "none" /\ op'.done = 0 /\ ~op'.freed /\ ~Changes' /\ pc' = "idle"
  BY <1>1, NoOpFacts DEF Changes, Stop
<1>3. Loose = {} /\ Loose' = {}
  BY <1>1, <1>2 DEF Loose, Breaks
<1>4. TaskKept
  <2>1. task = "free" => cur \in heads
    <3>. SUFFICES ASSUME task = "free" PROVE cur \in heads
      OBVIOUS
    <3>1. op.freed /\ visited = {}
      BY <1>1 DEF Before, TaskOf, Breaks
    <3>2. cur # 0 /\ \E s \in Records : At(s).first = cur
      BY <1>1, <3>1 DEF EditorTyped, Sem, Freeing
    <3>. QED BY <1>1, <1>3, <3>2 DEF Sem, ChainsHeld, Held
  <2>2. ~(task = "alloc" /\ written > 0) /\ task # "link"
    BY <1>1 DEF Breaks, Leaks
  <2>. QED BY <2>1, <2>2 DEF TaskKept
<1>5. op.kind \in {"put", "mkdir"} => op.record.first \notin heads
  <2>. SUFFICES ASSUME op.kind \in {"put", "mkdir"} PROVE op.record.first \notin heads
    OBVIOUS
  <2>1. CASE op.clusters = << >>
    BY <1>1, <2>1, ClusterFacts DEF Sem, NewClusters, EditorTyped
  <2>2. CASE op.clusters # << >>
    <3>1. task = "alloc" /\ tail = 0
      BY <1>1, <2>2 DEF Leaks
    <3>2. op.record.first = got[1] /\ got[1] \notin heads
      BY <1>1, <2>2, <3>1 DEF Sem, NewClusters, EP!Sound, EP!NewChain
    <3>. QED BY <3>2
  <2>. QED BY <2>1, <2>2
<1>6. NewKept
  BY <1>1, <1>2, <1>5 DEF NewKept, Leaks
<1>. QED BY <1>2, <1>3, <1>4, <1>6, QuietTidy

(* An operation that goes on, with the volume as it was.                   *)
SameAim == op'.kind = op.kind /\ op'.parent = op.parent /\ op'.record = op.record
SameNew == SameAim /\ op'.clusters = op.clusters /\ op'.done = op.done

LEMMA OnTidy ==
  ASSUME Tidy, UNCHANGED <<fat, heads, disk>>, TaskKept, SameNew, pc # "zero", Loose' = Loose
  PROVE  Tidy'
<1>1. NewKept
  BY DEF NewKept, SameNew, SameAim
<1>2. Changes' => Changes /\ op'.parent = op.parent
  BY DEF Changes, SameNew, SameAim
<1>. QED BY <1>1, <1>2, QuietTidy DEF SameNew, SameAim

LEMMA AllocateTidy ==
  ASSUME Quieted, Tidy, AllocateFacts
  PROVE  Tidy'
<1>1. /\ Before /\ Sem /\ UNCHANGED <<fat, heads, disk>> /\ pc = "alloc" /\ pc' = "data"
      /\ op.kind \in {"put", "mkdir"} /\ task = "idle" /\ task' = "alloc" /\ op.clusters = << >>
      /\ op'.kind = op.kind /\ op'.slot = op.slot /\ op'.freed = op.freed /\ op'.done = 0
      /\ op'.parent = op.parent /\ heads \subseteq Cluster
  BY DEF AllocateFacts, Working, Before, StepOf, Quieted, EditorTyped
<1>2. Loose' = Loose
  BY <1>1 DEF Loose, Before, StepOf
<1>3. op.record.first \notin heads
  BY <1>1, ClusterFacts DEF Sem, NewClusters
<1>4. TaskKept /\ NewKept
  BY <1>1, <1>3 DEF TaskKept, NewKept
<1>. QED BY <1>1, <1>2, <1>4, QuietTidy DEF Changes

LEMMA EmptyTidy ==
  ASSUME Tidy, pc = "alloc", task = "idle", pc' = "slot", UNCHANGED <<chainMap, disk, op, state>>
  PROVE  Tidy'
<1>1. UNCHANGED <<fat, heads, disk, op, task, visited>> /\ SameNew
  BY DEF SameNew, SameAim, chainMap
<1>2. Loose' = Loose
  BY <1>1 DEF Loose, Top
<1>. QED BY <1>1, <1>2, OnTidy DEF TaskKept

LEMMA WritableRecordTidy ==
  ASSUME Quieted, Tidy, WritableRecordFacts
  PROVE  Tidy'
<1>1. /\ Before /\ Sem /\ UNCHANGED <<fat, heads, disk>> /\ pc = "slot"
      /\ pc' \in {"slot", "record"} /\ SameNew /\ op.kind \in {"put", "mkdir", "move"}
      /\ task = "idle" /\ task' # "free"
      /\ op'.kind = op.kind /\ op'.freed = op.freed
      /\ op.slot # NoSlot => op'.slot = op.slot
      /\ op.freed => op.kind = "put"
  BY DEF Quieted, WritableRecordFacts, Working, Before, StepOf, SameNew, SameAim, chainMap, Chosen,
         EP!BeginAppend
<1>2. op.freed => op.slot # NoSlot
  BY <1>1, SlotFacts DEF Sem, Replaced, Records, DirSlot
<1>3. Loose' = Loose
  BY <1>1, <1>2 DEF Loose
<1>. QED BY <1>1, <1>3, OnTidy DEF TaskKept

LEMMA WalkTidy ==
  ASSUME Quieted, Tidy, Alone, EP!WalkNext \/ (EP!WalkEnd /\ EP!FreeClusters # {})
  PROVE  Tidy'
<1>1. /\ Before /\ UNCHANGED <<fat, heads, disk, op, pc>> /\ task = "walk" /\ task' # "free"
      /\ pc = "slot" /\ SameNew
  BY DEF Quieted, Alone, Working, Before, EP!WalkNext, EP!WalkEnd, EP!Rest, TaskOf, SameNew, SameAim
<1>2. Loose' = Loose
  BY <1>1 DEF Loose, Top, Before, StepOf
<1>. QED BY <1>1, <1>2, OnTidy DEF TaskKept

LEMMA DeleteTidy ==
  ASSUME Quieted, Tidy, DeleteChildFacts \/ DeleteChainFacts
  PROVE  Tidy'
<1>1. /\ Before /\ Sem /\ UNCHANGED <<fat, heads, disk>> /\ pc = "delete" /\ task = "idle"
      /\ pc' \in {"delete", "mark"} /\ SameNew /\ visited = {} /\ UNCHANGED visited
      /\ op.kind \in {"delete", "move"}
  BY DEF Quieted, DeleteChildFacts, DeleteChainFacts, Stacked, SameNew, SameAim, Before,
         EditorTyped, chainMap, EP!BeginFree
<1>2. ~op.freed /\ (op'.freed => task' = "free")
  BY <1>1 DEF Sem, Freeing, DeleteChildFacts, DeleteChainFacts, Stacked, EP!BeginFree
<1>3. Loose = {} /\ Loose' = {}
  BY <1>1, <1>2 DEF Loose
<1>. QED BY <1>1, <1>3, OnTidy DEF TaskKept
(* One entry of the chain map is written.                                  *)
LEMMA MapTidy ==
  ASSUME Quieted, Before', Tidy, UNCHANGED disk, SameNew, pc # "zero", Held' \subseteq Held,
         NEW c \in Cluster, NEW v, fat' = [fat EXCEPT ![c] = v],
         v \in Cluster => v # c /\ fat[v] \notin Cluster,
         \A d \in Dirs' : \A x \in Chain(d)' : x \in Chain(d) \/ (pc' = "zero" /\ x = op'.slot[1]),
         Rooted', Named'
  PROVE  Tidy'
<1>1. /\ DiskType /\ DOMAIN fat = Cluster /\ SlotsIs /\ SlotsIs'
      /\ DirSlot' = DirSlot /\ \A s : At(s)' = At(s)
  <2>1. DiskType /\ DiskType' /\ DOMAIN fat = Cluster
    BY DEF Quieted, Before, DiskType
  <2>2. SlotsIs'
    BY <2>1, SlotsIsFacts, PTL
  <2>. QED BY <2>1, <2>2, SlotsIsFacts DEF DirSlot, At, Slot, Cluster
<1>2. Dirs' \subseteq Dirs
  BY <1>1, FewerDirs DEF Changes, SameNew, SameAim, Dirs
<1>3. Acyclic(fat)'
  BY <1>1, AcyclicChange DEF Tidy
<1>4. Ashore'
  <2>1. \A d \in Dirs' : \A x \in Chain(d)' : x \in OnDisk \/ (pc' = "zero" /\ x = op'.slot[1])
    BY <1>2 DEF Tidy, Ashore
  <2>2. \A i \in 1 .. op'.done : op'.clusters[i] \in OnDisk
    BY DEF Tidy, Ashore, SameNew
  <2>. QED BY <2>1, <2>2 DEF Ashore, OnDisk
<1>5. Sunk'
  <2>1. ASSUME NEW d \in Dirs', NEW s \in Held' \cap Cleared(d)' PROVE RankedPlace(d, s)
    <3>1. s \in Slots(d)' /\ (pc' = "zero" => s[1] # op'.slot[1])
      BY <2>1 DEF Cleared
    <3>2. s \in DirSlot /\ s[1] \in OnDisk /\ s[1] \in Chain(d)
      BY <1>1, <2>1, <3>1 DEF SlotsIs, OnDisk
    <3>3. s \in Cleared(d)
      BY <1>1, <3>2 DEF SlotsIs, Cleared
    <3>. QED BY <1>1, <1>2, <2>1, <3>3 DEF RankedPlace
  <2>. QED BY <2>1, SunkKept DEF Tidy, SameNew, SameAim
<1>. QED BY <1>3, <1>4, <1>5 DEF Tidy

(* What else starts a chain did so before.                                 *)
Started(c) ==
  \/ c \in heads
  \/ task = "alloc" /\ written > 0 /\ c = got[1]
  \/ task = "link" /\ c = got[1]
  \/ task = "free" /\ c = cur

LEMMA RootedOld ==
  ASSUME Rooted, DOMAIN fat = Cluster, NEW a \in Cluster, NEW v, fat' = [fat EXCEPT ![a] = v],
         NEW c \in Cluster, fat'[c] # 0, Source(fat', c), c = a => fat[a] # 0, fat[a] # c
  PROVE  Started(c)
<1>1. \A b \in Cluster : b # a => fat'[b] = fat[b]
  OBVIOUS
<1>2. Source(fat, c) /\ fat[c] # 0
  BY <1>1 DEF Source
<1>. QED BY <1>2 DEF Rooted, Started

LEMMA BuiltTidy ==
  ASSUME Quieted, Before', Tidy, Alone, EP!AllocateLink \/ EP!AllocateEnd
  PROVE  Tidy'
<1>1. /\ Before /\ Sem /\ DOMAIN fat = Cluster /\ UNCHANGED <<disk, op, pc>> /\ SameNew
      /\ task = "alloc" /\ task' # "free" /\ pc \in {"data", "slot"}
      /\ written \in Nat /\ Len(got) \in Nat /\ got \in Seq(Cluster) /\ written + 1 \in DOMAIN got
  BY DEF Quieted, Alone, Working, Before, DiskType, EditorTyped, EP!AllocateLink, EP!AllocateEnd,
         EP!Rest, TaskOf, SameNew, SameAim
<1>2. Loose' = Loose
  BY <1>1 DEF Loose, Top
<1>3. Held' = Held /\ \A s : At(s)' = At(s)
  BY <1>1, <1>2 DEF Held, Records, DirSlot, At, Slot, Cluster
<1>. DEFINE c == got[written + 1]
<1>4. /\ c \in Cluster /\ fat[c] = 0 /\ \A h \in heads : c \notin Chain(h)
      /\ written > 0 => /\ got[written] \in Cluster /\ got[written] # c
                        /\ fat[got[written]] = c
  <2>1. \A h \in heads : c \notin Chain(h)
    BY <1>1, BuildApart
  <2>2. /\ \A i \in DOMAIN got : i > written => fat[got[i]] = 0
        /\ \A i, j \in DOMAIN got : got[i] = got[j] => i = j
    BY <1>1 DEF Before, EP!TypeInv, EP!ChosenStillFree, EP!FREE
  <2>3. written > 0 => written \in DOMAIN got /\ fat[got[written]] = c
    BY <1>1 DEF Sem, NewClusters
  <2>. QED BY <1>1, <2>1, <2>2, <2>3
<1>5. PICK v : /\ fat' = [fat EXCEPT ![c] = v]
               /\ v \in Cluster => v # c /\ fat[v] \notin Cluster
  <2>1. CASE EP!AllocateLink
    <3>1. /\ fat' = [fat EXCEPT ![c] = got[written + 2]]
          /\ written + 2 \in DOMAIN got
      BY <1>1, <2>1 DEF EP!AllocateLink
    <3>2. got[written + 2] # c /\ fat[got[written + 2]] = 0
      BY <1>1, <3>1 DEF Before, EP!TypeInv, EP!ChosenStillFree, EP!FREE
    <3>. QED BY <3>1, <3>2, ClusterFacts
  <2>2. CASE EP!AllocateEnd
    BY <2>2, ClusterFacts DEF EP!AllocateEnd
  <2>. QED BY <2>1, <2>2
<1>6. /\ heads' = heads \/ (tail = 0 /\ heads' = heads \cup {got[1]})
      /\ tail = 0 => op.kind \in {"put", "mkdir"} /\ op.record.first = got[1]
  <2>1. heads' = heads \/ (tail = 0 /\ heads' = heads \cup {got[1]})
    BY DEF EP!AllocateLink, EP!AllocateEnd, EP!Rest
  <2>2. tail = 0 => op.kind \in {"put", "mkdir"}
    BY <1>1 DEF Before, TaskOf, StepOf
  <2>3. got # << >>
    BY <1>1
  <2>4. tail = 0 => op.record.first = got[1]
    BY <1>1, <2>2, <2>3 DEF Sem, NewClusters
  <2>. QED BY <2>1, <2>2, <2>4
<1>7. Named'
  BY <1>1, <1>3, <1>6 DEF Tidy, Named
<1>. HIDE DEF c
<1>8. Rooted'
  <2>. SUFFICES ASSUME NEW x \in Cluster, fat'[x] # 0, Source(fat', x) PROVE Started(x)'
    BY DEF Rooted, Started, Cluster
  <2>1. CASE x = c
    <3>1. written = 0
      BY <1>1, <1>4, <1>5, <2>1 DEF Source
    <3>2. x = got[1]
      BY <2>1, <3>1 DEF c
    <3>. QED BY <1>1, <3>1, <3>2
         DEF Started, EP!AllocateLink, EP!AllocateEnd, EP!Rest
  <2>2. CASE x # c
    <3>1. Started(x)
      BY <1>1, <1>4, <1>5, <2>2, ClusterFacts, RootedOld DEF Tidy
    <3>. QED BY <1>1, <1>6, <3>1 DEF Started, EP!AllocateLink, EP!AllocateEnd, EP!Rest, Before,
                                     EditorTyped
  <2>. QED BY <2>1, <2>2
<1>9. \A d \in Dirs' : Chain(d)' = Chain(d)
  <2>1. Dirs' = Dirs
    BY <1>1, <1>3 DEF Dirs, Changes
  <2>2. \A d \in Dirs : d \in heads
    BY DirsHeld DEF Quieted, Sem, DirHead
  <2>. QED BY <1>1, <1>4, <1>5, <2>1, <2>2, ChainsKept
<1>. QED BY <1>1, <1>3, <1>4, <1>5, <1>7, <1>8, <1>9, MapTidy
(* The new cluster becomes part of the directory.                          *)
LEMMA AppendTidy ==
  ASSUME Quieted, Before', Tidy, EP!AppendLink, AppendFacts
  PROVE  Tidy'
<1>1. /\ Before /\ DOMAIN fat = Cluster /\ tail \in Cluster /\ got[1] \in Cluster
      /\ fat' = [fat EXCEPT ![tail] = got[1]] /\ fat[tail] = END /\ fat[got[1]] = END
      /\ tail # got[1] /\ SameNew /\ pc = "slot" /\ pc' = "zero" /\ op'.slot[1] = got[1]
      /\ UNCHANGED <<disk, heads>> /\ task = "link" /\ task' = "idle" /\ END \notin Cluster
  BY ClusterFacts DEF Quieted, Before, DiskType, AppendFacts, SameNew, SameAim, Chosen, FirstSlot,
                      EP!AppendLink, EP!Rest
<1>2. Held' = Held /\ \A s : At(s)' = At(s)
  BY <1>1 DEF Held, Records, DirSlot, At, Slot, Cluster, AppendFacts
<1>3. Named'
  BY <1>1, <1>2 DEF Tidy, Named, SameNew, SameAim
<1>4. Rooted'
  <2>. SUFFICES ASSUME NEW x \in Cluster, fat'[x] # 0, Source(fat', x) PROVE x \in heads
    BY <1>1 DEF Rooted, Cluster
  <2>1. x # got[1] /\ fat[tail] # x /\ fat[tail] # 0
    BY <1>1, ClusterFacts DEF Source
  <2>2. Started(x)
    BY <1>1, <2>1, RootedOld DEF Tidy
  <2>. QED BY <1>1, <2>1, <2>2 DEF Started
<1>5. ASSUME NEW h PROVE Chain(h)' \subseteq Chain(h) \cup {got[1]}
  <2>. DEFINE S == Chain(h) \cup {got[1]}
  <2>1. /\ IsFiniteSet(DOMAIN fat) /\ IsFiniteSet(DOMAIN fat') /\ DOMAIN fat' = Cluster
        /\ \A x \in Cluster : x # tail => fat'[x] = fat[x]
        /\ fat'[tail] = got[1] /\ fat'[got[1]] = END
    BY <1>1, ClusterFacts
  <2>2. h \in DOMAIN fat' => h \in S
    BY <1>1, <2>1, ReachIn DEF Chain
  <2>3. \A x \in S \cap Cluster : fat'[x] \in DOMAIN fat' => fat'[x] \in S
    BY <1>1, <2>1, ReachClosed DEF Chain
  <2>. HIDE DEF S
  <2>4. Reach(fat', h, Cluster) \subseteq S
    BY <2>1, <2>2, <2>3, ReachLeast
  <2>. QED BY <2>4 DEF Chain, S, Cluster
<1>. QED BY <1>1, <1>2, <1>3, <1>4, <1>5, MapTidy

(* A cluster is given back: the chain starts at the next one.              *)
LEMMA FreeTidy ==
  ASSUME Quieted, Before', Tidy, Alone, EP!FreeStep, FreeFacts
  PROVE  Tidy'
<1>1. /\ Before /\ DOMAIN fat = Cluster /\ cur \in Cluster /\ fat' = [fat EXCEPT ![cur] = 0]
      /\ SameNew /\ pc # "zero" /\ UNCHANGED <<disk, op, pc>> /\ heads' = heads \ {cur}
      /\ task = "free"
  BY DEF Quieted, Before, DiskType, FreeFacts, SameNew, SameAim, EP!FreeStep
<1>2. Loose \subseteq {FreedSlot} /\ Loose' = {FreedSlot}
  BY <1>1 DEF FreeFacts, Loose, FreedSlot
<1>3. /\ Held' = Held \ {FreedSlot} /\ \A s : At(s)' = At(s)
  BY <1>1, <1>2 DEF Held, Records, DirSlot, At, Slot, Cluster
<1>4. Named'
  <2>. SUFFICES ASSUME NEW h \in heads, h # cur
                PROVE  \/ h = RootCluster
                       \/ \E s \in Held' : At(s)'.first = h
                       \/ op'.kind \in {"put", "mkdir"} /\ h = op'.record.first
    BY <1>1 DEF Named
  <2>1. \A s \in Held : At(s).first = h => s \in Held'
    BY <1>3 DEF FreeFacts
  <2>. QED BY <1>1, <1>3, <2>1 DEF Tidy, Named
<1>5. Rooted'
  <2>. SUFFICES ASSUME NEW x \in Cluster, fat'[x] # 0, Source(fat', x) PROVE Started(x)'
    BY DEF Rooted, Started, Cluster
  <2>1. x # cur
    BY <1>1
  <2>2. CASE fat[cur] = x
    <3>1. ~EP!IsTerminalValue(fat[cur])
      BY <2>2, ClusterFacts DEF EP!IsTerminalValue, EP!FREE
    <3>2. task' = "free" /\ cur' = x
      BY <2>2, <3>1 DEF EP!FreeStep
    <3>. QED BY <3>2 DEF Started
  <2>3. CASE fat[cur] # x
    <3>1. Started(x)
      BY <1>1, <2>1, <2>3, RootedOld DEF Tidy
    <3>. QED BY <1>1, <2>1, <3>1 DEF Started
  <2>. QED BY <2>2, <2>3
<1>6. \A d : Chain(d)' \subseteq Chain(d)
  BY <1>1, FreeShrinks
<1>7. 0 \notin Cluster
  BY ClusterFacts
<1>. QED BY <1>1, <1>3, <1>4, <1>5, <1>6, <1>7, MapTidy
(* A cluster of the disk is written.                                       *)
EntriesSame == UNCHANGED <<fat, heads, task, got, written, cur>>

LEMMA EntriesTidy ==
  ASSUME Tidy, EntriesSame
  PROVE  Acyclic(fat)' /\ Rooted'
BY DEF Tidy, EntriesSame, Acyclic, Rooted, Source, Cluster

LEMMA DiskTidy ==
  ASSUME Quieted, Before', Tidy, EntriesSame, pc' # "zero",
         pc = "zero" => op.slot[1] \in OnDisk /\ \A s \in Held' : s[1] # op.slot[1],
         \A s \in Held' : At(s)'.dir =>
           \/ s \in Held /\ At(s)' = At(s)
           \/ op.kind = "move" /\ At(s)' = op.record /\ s[1] \in Chain(op.parent),
         Dirs' \subseteq Dirs, \A i \in 1 .. op'.done : op'.clusters[i] \in OnDisk,
         op' = NoOp \/ SameAim, Named'
  PROVE  Tidy'
<1>1. /\ SlotsIs /\ SlotsIs' /\ ChainsApart /\ \A c : Chain(c)' = Chain(c)
  <2>1. DiskType /\ DiskType' /\ UNCHANGED fat /\ ChainsApart
    BY SoundFacts DEF Quieted, Sem, Before, EntriesSame
  <2>2. SlotsIs'
    BY <2>1, SlotsIsFacts, PTL
  <2>. QED BY <2>1, <2>2, SlotsIsFacts DEF Chain, Cluster
<1>2. Ashore'
  <2>1. \A d \in Dirs' : \A x \in Chain(d)' : x \in OnDisk
    BY <1>1 DEF Tidy, Ashore
  <2>. QED BY <2>1 DEF Ashore, OnDisk
<1>3. op'.kind = "none" \/ SameAim
  BY NoOpFacts
<1>4. Sunk'
  <2>1. ASSUME NEW d \in Dirs', NEW s \in Held' \cap Cleared(d)', At(s)'.dir
        PROVE  RankedPlace(d, s)
    <3>1. s \in DirSlot' /\ s[1] \in OnDisk /\ s[1] \in Chain(d)
      BY <1>1, <2>1 DEF SlotsIs, Cleared, OnDisk
    <3>2. CASE s \in Held /\ At(s)' = At(s)
      <4>1. s \in Slots(d)
        BY <1>1, <3>1, <3>2 DEF SlotsIs, Held, Records
      <4>. QED BY <2>1, <3>2, <4>1 DEF RankedPlace, Cleared
    <3>3. CASE op.kind = "move" /\ At(s)' = op.record /\ s[1] \in Chain(op.parent)
      <4>1. d \in heads /\ op.parent \in heads
        BY <2>1, <3>3, DirsHeld DEF Quieted, Sem, DirHead, Dirs, Changes
      <4>2. d = op.parent
        BY <1>1, <3>1, <3>3, <4>1 DEF ChainsApart
      <4>. QED BY <3>3, <4>2 DEF RankedPlace
    <3>. QED BY <2>1, <3>2, <3>3
  <2>. QED BY <1>3, <2>1, SunkKept DEF Tidy, SameAim
<1>. QED BY <1>2, <1>4, EntriesTidy DEF Tidy

LEMMA WriteDataTidy ==
  ASSUME Quieted, Before', Sem', Tidy, NEW c \in Cluster, WriteDataFacts(c)
  PROVE  Tidy'
<1>1. IInv
  BY DEF Quieted, IInv
<1>2. /\ Before /\ Sem /\ EntriesSame /\ pc = "data" /\ pc' \in {"data", "slot"}
      /\ op.kind \in {"put", "mkdir"} /\ op.clusters # << >> /\ task = "idle"
      /\ op'.kind = op.kind /\ op'.slot = op.slot /\ op'.freed = op.freed
      /\ op'.parent = op.parent /\ op'.record = op.record /\ op'.clusters = op.clusters
      /\ op.done \in Nat /\ op'.done = op.done + 1 /\ c = op.clusters[op.done + 1] /\ c \in OnDisk
      /\ UNCHANGED <<task, visited>>
  BY DEF Quieted, WriteDataFacts, Working, Before, StepOf, EntriesSame, chainMap, Operation
<1>3. /\ \A h \in heads \ {op.record.first} : c \notin Chain(h)
      /\ \A s \in DirSlot : s[1] # c => s \in DirSlot' /\ At(s)' = At(s)
      /\ \A s \in DirSlot' : s[1] # c => s \in DirSlot
      /\ \A s \in DirSlot' : s[1] = c => At(s)' = FreeRecord
  BY <1>1, WriteDataApart
<1>4. /\ op.record.first # RootCluster /\ op.record.first # op.parent
      /\ \A s \in Held : At(s).first # op.record.first
  BY <1>2 DEF Sem, NewClusters
<1>5. \A d \in Dirs : d \in heads \ {op.record.first}
  BY <1>2, <1>4, DirsHeld DEF Sem, DirHead, Dirs
<1>6. \A s \in Records : s[1] # c
  BY <1>3, <1>5, NoRecords
<1>7. Records' = Records /\ \A s \in Records : At(s)' = At(s)
  BY <1>3, <1>6 DEF Records
<1>8. Loose' = Loose
  BY <1>2 DEF Loose, Before, StepOf
<1>9. Held' = Held /\ \A s \in Held' : s \in Held /\ At(s)' = At(s)
  BY <1>7, <1>8 DEF Held
<1>10. Dirs' \subseteq Dirs
  BY <1>2, <1>9, FewerDirs DEF Dirs, Changes
<1>11. Named'
  BY <1>2, <1>9 DEF Tidy, Named, EntriesSame
<1>12. \A i \in 1 .. op'.done : op'.clusters[i] \in OnDisk
  BY <1>2 DEF Tidy, Ashore
<1>13. SameAim
  BY <1>2 DEF SameAim
<1>. QED BY <1>2, <1>9, <1>10, <1>11, <1>12, <1>13, DiskTidy
LEMMA ClearAppendedTidy ==
  ASSUME Quieted, Before', Tidy, ClearAppendedFacts
  PROVE  Tidy'
<1>1. /\ Before /\ Sem /\ EntriesSame /\ UNCHANGED op /\ pc = "zero" /\ pc' = "record"
      /\ op.kind \in {"put", "mkdir", "move"} /\ op.slot[1] \in OnDisk /\ SameAim
  BY DEF Quieted, ClearAppendedFacts, Working, Before, StepOf, SameAim, chainMap, EntriesSame
<1>2. Loose = {} /\ Loose' = {}
  <2>1. ~op.freed
    BY <1>1 DEF Sem, Replaced, Before, StepOf
  <2>. QED BY <1>1, <2>1 DEF Loose
<1>3. \A s \in Records : s[1] # op.slot[1]
  BY <1>1 DEF Quieted, Ways, Placed, Cleared
<1>4. Records' = Records /\ \A s \in Records : At(s)' = At(s)
  BY <1>3 DEF ClearAppendedFacts, Records
<1>5. Held' = Held /\ \A s \in Held' : s \in Held /\ At(s)' = At(s) /\ s[1] # op.slot[1]
  BY <1>2, <1>3, <1>4 DEF Held
<1>6. Dirs' \subseteq Dirs
  BY <1>1, <1>5, FewerDirs DEF Dirs, Changes
<1>7. Named'
  BY <1>1, <1>5 DEF Tidy, Named, EntriesSame
<1>8. \A i \in 1 .. op'.done : op'.clusters[i] \in OnDisk
  BY <1>1 DEF Tidy, Ashore
<1>. QED BY <1>1, <1>5, <1>6, <1>7, <1>8, DiskTidy

(* A record is written: the heads it and the others name are named still.  *)
LEMMA RecordTidy ==
  ASSUME Quieted, Before', Tidy, NEW z, NEW r, Written(z, r), pc \notin {"zero", "data"},
         pc' # "zero", op' = NoOp \/ SameNew,
         \A s \in Held' : At(s)'.dir =>
           \/ s \in Held /\ At(s)' = At(s)
           \/ op.kind = "move" /\ At(s)' = op.record /\ s[1] \in Chain(op.parent),
         \A s \in Held : At(s).first # 0 => \E t \in Held' : At(t)'.first = At(s).first,
         Dirs' \subseteq Dirs,
         op.kind \in {"put", "mkdir"} => \E t \in Held' : At(t)'.first = op.record.first
  PROVE  Tidy'
<1>1. EntriesSame /\ heads \subseteq Cluster
  BY DEF Written, chainMap, EntriesSame, Quieted, Before, EditorTyped
<1>2. Named'
  <2>. SUFFICES ASSUME NEW h \in heads
                PROVE  h = RootCluster \/ \E t \in Held' : At(t)'.first = h
    BY <1>1 DEF Named, EntriesSame
  <2>1. h # 0
    BY <1>1, ClusterFacts
  <2>. QED BY <2>1 DEF Tidy, Named
<1>3. \A i \in 1 .. op'.done : op'.clusters[i] \in OnDisk
  <2>1. CASE op' = NoOp
    BY <2>1, NoOpFacts
  <2>2. CASE SameNew
    BY <2>2 DEF Tidy, Ashore, SameNew
  <2>. QED BY <2>1, <2>2
<1>. QED BY <1>1, <1>2, <1>3, DiskTidy DEF SameNew

LEMMA WriteMovedTidy ==
  ASSUME Quieted, Before', Tidy, WriteRecordFacts, op.kind = "move"
  PROVE  Tidy'
<1>1. /\ Before /\ Sem /\ Written(op.slot, op.record) /\ pc = "record"
      /\ op.slot # NoSlot /\ op.record \in Record /\ Changes /\ ~op.freed
      /\ pc' = "unlink" /\ UNCHANGED op /\ SameNew
  BY DEF Quieted, WriteRecordFacts, Working, Before, StepOf, Changes, SameNew, SameAim
<1>2. PICK z, r, f : z = op.slot /\ r = op.record /\ f = op.from
  OBVIOUS
<1>3. /\ Records' = Records \cup {z} /\ At(z)' = r
      /\ \A s \in Records : s # z => At(s)' = At(s)
  BY <1>1, <1>2, WrittenSlots, RecordFacts
<1>4. z \notin Records
  BY <1>1, <1>2 DEF Sem, Replaced, Records, Written
<1>5. f \in Records /\ At(f).first = r.first /\ At(f).dir = r.dir /\ f # z
  BY <1>1, <1>2, <1>4 DEF Sem, Moving
<1>6. Loose = {} /\ Loose' = {f}
  BY <1>1, <1>2 DEF Loose
<1>7. Held = Records /\ Held' = Records' \ {f}
  BY <1>6 DEF Held
<1>8. z[1] \in Chain(op.parent)
  BY <1>1, <1>2, ShownFacts DEF Sem, ParentHeld, Before
<1>9. \A s \in Held' : s = z \/ (s \in Held /\ At(s)' = At(s))
  BY <1>3, <1>7
<1>10. Dirs' \subseteq Dirs
  <2>1. \A s \in Held' : At(s)'.dir => At(s)'.first \in Dirs
    BY <1>3, <1>5, <1>7, <1>9 DEF Dirs
  <2>. QED BY <1>1, <2>1 DEF Dirs, Changes
<1>11. \A s \in Held : \E t \in Held' : At(t)'.first = At(s).first
  BY <1>3, <1>4, <1>5, <1>7
<1>. QED BY <1>1, <1>2, <1>3, <1>8, <1>9, <1>10, <1>11, RecordTidy

LEMMA RenameTidy ==
  ASSUME Quieted, Before', Tidy, RenameFacts
  PROVE  Tidy'
<1>1. /\ Before /\ Sem /\ pc = "rename" /\ op.kind = "move" /\ op.record \in Record
      /\ Changes /\ ~op.freed /\ task = "idle"
  BY DEF Quieted, RenameFacts, Working, Before, StepOf, Changes
<1>2. CASE pc' = "slot" /\ UNCHANGED <<chainMap, disk, op, state>>
  <2>1. UNCHANGED <<fat, heads, disk>> /\ SameNew
    BY <1>2 DEF SameNew, SameAim, chainMap
  <2>2. Loose' = Loose
    BY <1>1, <1>2 DEF Loose
  <2>. QED BY <1>1, <1>2, <2>1, <2>2, OnTidy DEF TaskKept
<1>3. CASE SameParent /\ Written(op.from, op.record) /\ Done
  <2>1. PICK z, r : z = op.from /\ r = op.record
    OBVIOUS
  <2>2. /\ Records' = Records \cup {z} /\ At(z)' = r
        /\ \A s \in Records : s # z => At(s)' = At(s)
    BY <1>1, <1>3, <2>1, WrittenSlots, RecordFacts
  <2>3. pc' = "idle" /\ op' = NoOp /\ ~op'.freed /\ ~Changes'
    BY <1>3, NoOpFacts DEF Done, Changes
  <2>4. Held = Records /\ Held' = Records'
    BY <1>1, <2>3 DEF Held, Loose
  <2>5. z \in Slots(op.parent) /\ (z \in Records => At(z).first = r.first /\ At(z).dir = r.dir)
        /\ (z \notin Records => ~r.dir)
    BY <1>1, <1>3, <2>1 DEF Sem, Moving
  <2>6. z[1] \in Chain(op.parent)
    BY <1>1, <2>5, ShownFacts DEF Before
  <2>7. \A s \in Held' : s = z \/ (s \in Held /\ At(s)' = At(s))
    BY <2>2, <2>4
  <2>8. Dirs' \subseteq Dirs
    <3>1. \A s \in Held' : At(s)'.dir => At(s)'.first \in Dirs
      BY <2>2, <2>4, <2>5, <2>7 DEF Dirs
    <3>. QED BY <2>3, <3>1 DEF Dirs
  <2>9. \A s \in Held : \E t \in Held' : At(t)'.first = At(s).first
    BY <2>2, <2>4, <2>5
  <2>. QED BY <1>1, <1>3, <2>1, <2>2, <2>3, <2>6, <2>7, <2>8, <2>9, RecordTidy
<1>. QED BY <1>2, <1>3 DEF RenameFacts

(* A record without a chain of its own is marked free.                     *)
LEMMA RemovedTidy ==
  ASSUME Quieted, Before', Tidy, NEW z, Written(z, FreeRecord), pc \in {"mark", "unlink"},
         op.kind \in {"delete", "move"}, pc' # "zero", op' = NoOp \/ SameNew,
         Loose \subseteq {z}, Loose' = {}, z \in Held => At(z).first = 0
  PROVE  Tidy'
<1>1. /\ Records' = Records \ {z} /\ \A s \in Records : s # z => At(s)' = At(s)
  BY WrittenSlots DEF Quieted
<1>2. Held' = Held \ {z} /\ \A s \in Held' : s \in Held /\ At(s)' = At(s)
  BY <1>1 DEF Held
<1>3. Dirs' \subseteq Dirs
  <2>1. Changes' => op'.parent \in Dirs
    BY NoOpFacts DEF Changes, SameNew, SameAim, Dirs
  <2>. QED BY <1>2, <2>1, FewerDirs
<1>4. \A s \in Held : At(s).first # 0 => \E t \in Held' : At(t)'.first = At(s).first
  BY <1>2
<1>. QED BY <1>2, <1>3, <1>4, RecordTidy

LEMMA UnlinkTidy ==
  ASSUME Quieted, Before', Tidy, UnlinkFacts
  PROVE  Tidy'
<1>1. /\ Written(op.from, FreeRecord) /\ pc = "unlink" /\ op.kind = "move"
      /\ pc' = "idle" /\ op' = NoOp /\ ~op'.freed
  BY NoOpFacts DEF UnlinkFacts, Done
<1>2. PICK z : z = op.from
  OBVIOUS
<1>3. Loose = {z} /\ Loose' = {} /\ z \notin Held
  BY <1>1, <1>2 DEF Loose, Held
<1>. QED BY <1>1, <1>2, <1>3, RemovedTidy

LEMMA MarkDeletedTidy ==
  ASSUME Quieted, Before', Tidy, MarkDeletedFacts
  PROVE  Tidy'
<1>1. /\ Before /\ Sem /\ Written(Top.slot, FreeRecord) /\ pc = "mark"
      /\ op.kind \in {"delete", "move"} /\ task = "idle"
  BY DEF MarkDeletedFacts, Working, Quieted, Written
<1>2. PICK z : z = Top.slot
  OBVIOUS
<1>3. /\ pc' \notin {"zero", "unlink"} /\ ~op'.freed /\ (op' = NoOp \/ SameNew)
  BY <1>1, NoOpFacts DEF MarkDeletedFacts, Done, Stacked, SameNew, SameAim
<1>4. Loose \subseteq {z} /\ Loose' = {}
  BY <1>1, <1>2, <1>3 DEF Loose
<1>5. z \in Held => At(z).first = 0
  <2>1. CASE op.freed
    <3>1. Loose = {z}
      BY <1>1, <1>2, <2>1 DEF Loose
    <3>. QED BY <3>1 DEF Held
  <2>2. CASE ~op.freed
    BY <1>1, <1>2, <2>2 DEF Sem, Freeing
  <2>. QED BY <2>1, <2>2
<1>. QED BY <1>1, <1>2, <1>3, <1>4, <1>5, RemovedTidy
(* The record of a new file or directory.                                  *)
NewRecord(z, r) ==
  /\ Before /\ Sem /\ Written(z, r) /\ z = op.slot /\ r = op.record /\ pc = "record"
  /\ task = "idle" /\ op.kind \in {"put", "mkdir"} /\ r.dir = (op.kind = "mkdir")
  /\ pc' = "idle" /\ op' = NoOp /\ ~Changes' /\ op'.kind = "none" /\ op'.done = 0
  /\ Records' = Records \cup {z} /\ At(z)' = r
  /\ \A s \in Records : s # z => At(s)' = At(s)
  /\ \A d : Slots(d)' = Slots(d) /\ Chain(d)' = Chain(d)
  /\ Held \subseteq Held' /\ Held' = Records' /\ \A s \in Held' : s = z \/ s \in Held
  /\ z \in Held => At(z).first = 0
  /\ z \in Slots(op.parent)
  /\ EntriesSame

LEMMA NewRecordFacts ==
  ASSUME Quieted, WriteRecordFacts, op.kind # "move"
  PROVE  \E z, r : NewRecord(z, r)
<1>1. /\ Before /\ Sem /\ Done /\ Written(op.slot, op.record) /\ pc = "record" /\ task = "idle"
      /\ op.slot # NoSlot /\ op.record \in Record /\ Changes /\ op.kind \in {"put", "mkdir"}
      /\ pc' = "idle" /\ op' = NoOp /\ op'.kind = "none" /\ op'.done = 0 /\ ~op'.freed
      /\ op.freed => op.kind = "put"
      /\ op.record.dir = (op.kind = "mkdir")
  BY NoOpFacts
     DEF Quieted, WriteRecordFacts, Working, Before, StepOf, Done, Changes, Written
<1>2. PICK z, r : z = op.slot /\ r = op.record
  OBVIOUS
<1>3. /\ Records' = Records \cup {z} /\ At(z)' = r
      /\ \A s \in Records : s # z => At(s)' = At(s)
      /\ \A d : Slots(d)' = Slots(d) /\ Chain(d)' = Chain(d)
  BY <1>1, <1>2, WrittenSlots, RecordFacts
<1>4. Loose = (IF op.freed THEN {z} ELSE {}) /\ Loose' = {}
  BY <1>1, <1>2 DEF Loose
<1>5. /\ Held \subseteq Held' /\ Held' = Records' /\ \A s \in Held' : s = z \/ s \in Held
  BY <1>3, <1>4 DEF Held
<1>6. z \in Held => At(z).first = 0
  BY <1>1, <1>2, <1>4 DEF Sem, Replaced, Held
<1>7. z \in Slots(op.parent)
  BY <1>1, <1>2 DEF Sem, ParentHeld
<1>8. EntriesSame
  BY <1>1 DEF EntriesSame, Written, chainMap
<1>9. NewRecord(z, r)
  BY <1>1, <1>2, <1>3, <1>5, <1>6, <1>7, <1>8 DEF NewRecord, Changes
<1>. QED BY <1>9

LEMMA NewNamed ==
  ASSUME Tidy, NEW z, NEW r, NewRecord(z, r)
  PROVE  Named'
<1>. SUFFICES ASSUME NEW h \in heads
              PROVE  h = RootCluster \/ \E t \in Held' : At(t)'.first = h
  BY DEF Named, NewRecord, EntriesSame
<1>1. h # 0
  BY ClusterFacts DEF NewRecord, Before, EditorTyped
<1>2. \A s \in Held : At(s).first = h => s \in Held' /\ At(s)' = At(s)
  BY <1>1 DEF NewRecord, Held
<1>3. z \in Held' /\ At(z)'.first = op.record.first
  BY DEF NewRecord
<1>. QED BY <1>2, <1>3 DEF Tidy, Named

LEMMA WritePutTidy ==
  ASSUME Quieted, Before', Tidy, NEW z, NEW r, NewRecord(z, r), op.kind = "put"
  PROVE  Tidy'
<1>1. \A s \in Held' : At(s)'.dir => s \in Held /\ At(s)' = At(s)
  BY DEF NewRecord, Held
<1>2. Dirs' \subseteq Dirs
  BY <1>1 DEF Dirs, NewRecord
<1>3. Named'
  BY NewNamed
<1>. QED BY <1>1, <1>2, <1>3, DiskTidy DEF NewRecord

(* A new directory takes the highest rank.                                 *)
LEMMA WriteDirectoryTidy ==
  ASSUME Quieted, Before', Tidy, WriteRecordFacts,
         NEW z, NEW r, NewRecord(z, r), op.kind = "mkdir"
  PROVE  Tidy'
<1>1. PICK a : a = op.record.first
  OBVIOUS
<1>2. /\ ChainsApart /\ op.slot # NoSlot /\ r.first = a
      /\ \A s \in Held : At(s).first # a
      /\ a \in heads \ {RootCluster} /\ a # op.parent
  <2>1. op.clusters # << >>
    <3>1. Len(op.clusters) = 1
      BY DEF NewRecord, Sem, NewClusters
    <3>2. PICK t : t = op.clusters
      OBVIOUS
    <3>3. t # << >>
      BY <3>1, <3>2
    <3>. QED BY <3>2, <3>3
  <2>2. op.slot # NoSlot
    BY DEF WriteRecordFacts
  <2>. QED BY <1>1, <2>1, <2>2, SoundFacts DEF NewRecord, Sem, NewClusters
<1>3. \A t \in Held' : t \notin Slots(a)
  BY <1>1, <1>2, NewDirectory DEF NewRecord
<1>4. Dirs' \subseteq Dirs \cup {a}
  <2>1. \A s \in Held' : At(s)'.dir => At(s)'.first \in Dirs \cup {a}
    BY <1>2 DEF NewRecord, Dirs, Held
  <2>. QED BY <2>1 DEF Dirs, NewRecord
<1>5. Ashore'
  <2>1. \A d \in Dirs : \A x \in Chain(d)' : x \in OnDisk
    BY DEF NewRecord, Tidy, Ashore
  <2>2. \A x \in Chain(a)' : x \in OnDisk
    <3>1. Chain(a) = {op.clusters[i] : i \in DOMAIN op.clusters} /\ op.done = Len(op.clusters)
      BY <1>1, ChainWritten DEF NewRecord, Sem, NewClusters
    <3>2. op.clusters \in Seq(Cluster)
      BY DEF NewRecord, Before, Operation
    <3>. QED BY <3>1, <3>2 DEF NewRecord, Tidy, Ashore
  <2>. QED BY <1>4, <2>1, <2>2 DEF Ashore, OnDisk, NewRecord
<1>6. PICK g \in Ranking : Ranked(g)
  BY DEF Tidy, Sunk
<1>. DEFINE k == [g EXCEPT ![a] = MaxDepth]
<1>7. /\ k \in Ranking /\ k[a] = MaxDepth /\ \A d \in Cluster : d # a => k[d] = g[d]
      /\ a \in Cluster /\ g[op.parent] < MaxDepth
  BY <1>2, <1>6, DepthAssumption DEF ChainsApart, Ranking, Ranked, NewRecord
<1>. HIDE DEF k
<1>8. ASSUME NEW d \in Dirs', NEW s \in Held' \cap Cleared(d)', At(s)'.dir
      PROVE  k[d] < k[At(s)'.first]
  <2>1. s \in Slots(d) /\ d # a /\ d \in Dirs /\ d \in heads /\ d \in Cluster
    <3>1. s \in Slots(d) /\ d # a /\ d \in Dirs
      BY <1>3, <1>4, <1>8 DEF Cleared, NewRecord
    <3>. QED BY <1>2, <3>1, DirsHeld DEF Quieted, Sem, DirHead, ChainsApart
  <2>2. CASE s = z
    <3>1. op.parent \in heads /\ z[1] \in Chain(op.parent)
      BY ShownFacts DEF NewRecord, Sem, ParentHeld, DirHead, Changes, Before
    <3>2. d = op.parent
      BY <1>2, <2>1, <2>2, <3>1, SlotsApart DEF NewRecord, Before
    <3>. QED BY <1>2, <1>7, <2>1, <2>2, <3>2 DEF NewRecord
  <2>3. CASE s # z
    <3>1. s \in Held /\ At(s)' = At(s) /\ s \in Cleared(d)
      BY <1>8, <2>1, <2>3 DEF NewRecord, Held, Cleared
    <3>2. At(s).first \in Cluster /\ At(s).first # a
      BY <1>2, <1>8, <3>1 DEF NewRecord, Sem, ChainsHeld, ChainsApart
    <3>. QED BY <1>6, <1>7, <1>8, <2>1, <3>1, <3>2 DEF Ranked
  <2>. QED BY <2>2, <2>3
<1>9. Sunk'
  <2>1. Ranked(k)'
    BY <1>8 DEF Ranked, NewRecord
  <2>. QED BY <1>7, <2>1 DEF Sunk, Ranking, Cluster
<1>. QED BY <1>5, <1>9, NewNamed, EntriesTidy DEF Tidy, NewRecord

(* Every directory in use has a path.                                      *)
LEMMA PathLengths ==
  /\ \A p \in Seq(Name) : Len(p) <= MaxDepth => p \in Path
  /\ \A p \in Path : p \in Seq(Name) /\ Len(p) <= MaxDepth
<1>1. ASSUME NEW p \in Seq(Name), Len(p) <= MaxDepth PROVE p \in Path
  <2>1. Len(p) \in 0 .. MaxDepth /\ p \in [1 .. Len(p) -> Name]
    BY <1>1, DepthAssumption
  <2>. QED BY <2>1 DEF Path
<1>2. ASSUME NEW p \in Path PROVE Len(p) <= MaxDepth
  <2>1. PICK n \in 0 .. MaxDepth : p \in [1 .. n -> Name]
    BY DEF Path
  <2>2. Len(p) = n
    BY <2>1, DepthAssumption
  <2>. QED BY <2>1, <2>2, DepthAssumption
<1>. QED BY <1>1, <1>2, PathSequences

LEMMA StepDown ==
  ASSUME Quieted, Tidy, pc = "idle", NEW x \in Seq(Name), x # << >>, NEW s \in Held,
         At(s).dir, At(s).name = Last(x), s \in Slots(Directory(Parent(x))),
         Directory(Parent(x)) \in Dirs
  PROVE  Directory(x) = At(s).first
<1>. DEFINE R == Reach(fat, Directory(Parent(x)), OnDisk)
<1>1. PICK d, n : d = Directory(Parent(x)) /\ n = Last(x)
  OBVIOUS
<1>2. /\ DiskType /\ Held = Records /\ (\A e : Cleared(e) = Slots(e)) /\ ChainsRead
      /\ IsFiniteSet(DOMAIN fat) /\ DOMAIN fat = Cluster /\ n \in Name
  BY <1>1, ReadyFacts, ChainFacts, ClusterFacts, ParentFacts DEF Quieted, Before, DiskType
<1>3. Slots(d) \subseteq ShownSlots(d)
  <2>1. R \subseteq OnDisk
    BY <1>2 DEF Tidy, Ashore, ChainsRead
  <2>2. \A c \in R \cap Cluster : fat[c] \in DOMAIN fat => fat[c] \in R
    BY <1>2, <2>1, ReachClosed
  <2>3. Directory(Parent(x)) \in DOMAIN fat => Directory(Parent(x)) \in R
    BY <1>2, ReachIn
  <2>. HIDE DEF R
  <2>4. Chain(Directory(Parent(x))) \subseteq R
    BY <1>2, <2>2, <2>3, ReachLeast DEF Chain
  <2>. QED BY <1>1, <2>4 DEF R, Slots, ShownSlots, SlotsIn
<1>4. s \in Passed(d, n)
  BY <1>1, <1>3, EndFacts DEF Quieted, ChainsEnd, Passed
<1>5. ASSUME NEW t \in Passed(d, n) PROVE t = s
  <2>1. t \in Slots(d) /\ t \in DirSlot /\ At(t).name = n
    BY <1>2, ShownFacts DEF Passed
  <2>2. t \in Records
    BY <1>2, <2>1, AtFacts DEF AtTyped
  <2>. QED BY <1>1, <1>2, <2>1, <2>2 DEF Quieted, Sem, NamesApart
<1>6. Child(d, n) = At(s).first
  BY <1>4, <1>5, ChildIs DEF ChildRead
<1>. QED BY <1>1, <1>2, <1>6, DirectorySteps DEF DirectoryFacts

LEMMA Reached ==
  ASSUME Quieted, Tidy, pc = "idle", NEW d \in Dirs
  PROVE  \E p \in Path : Directory(p) = d
<1>1. PICK g \in Ranking : Ranked(g)
  BY DEF Tidy, Sunk
<1>. DEFINE P(c) == \E p \in Seq(Name) : Directory(p) = c /\ Len(p) <= g[c]
            S == {n \in Nat : \A c \in Dirs : g[c] < n => P(c)}
<1>2. /\ Before /\ Sem /\ DiskType /\ Held = Records /\ ~Changes /\ \A e : Cleared(e) = Slots(e)
  BY ReadyFacts DEF Quieted, Before
<1>3. ASSUME NEW c \in Dirs PROVE g[c] \in 0 .. MaxDepth /\ g[c] \in Nat
  <2>1. c \in Cluster
    BY <1>2, DirsHeld, SoundFacts DEF Sem, DirHead, ChainsApart
  <2>. QED BY <1>1, <2>1, DepthAssumption DEF Ranking
<1>4. ASSUME NEW c \in Dirs, c # RootCluster
      PROVE  \E e \in Dirs : \E s \in Held \cap Slots(e) :
               At(s).dir /\ At(s).first = c /\ At(s).name \in Name /\ g[e] < g[c]
  <2>1. PICK s \in Held : At(s).dir /\ At(s).first = c
    BY <1>2, <1>4 DEF Dirs
  <2>2. PICK e \in Dirs : s \in Slots(e)
    BY <1>2, <2>1 DEF Quieted, Ways, Placed
  <2>. QED BY <1>1, <1>2, <2>1, <2>2, AtFacts DEF Ranked, AtTyped
<1>5. ASSUME NEW n \in S PROVE n + 1 \in S
  <2>. SUFFICES ASSUME NEW c \in Dirs, g[c] < n + 1 PROVE P(c)
    OBVIOUS
  <2>1. CASE c = RootCluster
    <3>1. << >> \in Seq(Name) /\ Len(<< >>) = 0
      OBVIOUS
    <3>2. Directory(<< >>) = c /\ 0 <= g[c]
      BY <1>2, <1>3, <2>1, DirectorySteps DEF DirectoryFacts
    <3>. QED BY <3>1, <3>2
  <2>2. CASE c # RootCluster
    <3>1. PICK e \in Dirs, s \in Held :
            /\ s \in Slots(e) /\ At(s).dir /\ At(s).first = c /\ At(s).name \in Name
            /\ g[e] < g[c]
      BY <1>4, <2>2
    <3>2. PICK p \in Seq(Name) : Directory(p) = e /\ Len(p) <= g[e]
      BY <1>3, <3>1
    <3>3. PICK x \in Seq(Name) : /\ x # << >> /\ Parent(x) = p /\ Last(x) = At(s).name
                                 /\ Len(x) = Len(p) + 1
      BY <3>1, Extended
    <3>4. Directory(x) = c
      BY <3>1, <3>2, <3>3, StepDown
    <3>5. Len(p) \in Nat /\ Len(x) <= g[c]
      BY <1>3, <3>1, <3>2, <3>3
    <3>. QED BY <3>4, <3>5
  <2>. QED BY <2>1, <2>2
<1>6. 0 \in S
  BY <1>3
<1>7. S = Nat
  <2>. HIDE DEF S
  <2>1. S \subseteq Nat
    BY DEF S
  <2>. QED BY <1>5, <1>6, <2>1, Induct
<1>8. PICK p \in Seq(Name) : Directory(p) = d /\ Len(p) <= g[d]
  <2>1. g[d] + 1 \in S /\ g[d] < g[d] + 1
    BY <1>3, <1>7
  <2>. QED BY <2>1
<1>9. Len(p) <= MaxDepth
  BY <1>3, <1>8, DepthAssumption
<1>. QED BY <1>8, <1>9, PathLengths

(* The length of its path ranks a directory.                               *)
Depth == [c \in Cluster |-> IF \E p \in Path : Directory(p) = c
                            THEN Len(CHOOSE p \in Path : Directory(p) = c) ELSE 0]

LEMMA DepthRanks ==
  ASSUME Quieted, Tidy, pc = "idle"
  PROVE  /\ Depth \in Ranking
         /\ \A p \in Path : Directory(p) # 0 => Depth[Directory(p)] = Len(p)
         /\ \A d \in Dirs : \A s \in Held \cap Slots(d) : At(s).dir => Depth[d] < Depth[At(s).first]
<1>1. /\ Before /\ Sem /\ DiskType /\ Held = Records /\ OnePath
      /\ \A d \in Dirs : d \in Cluster /\ d # 0
  BY ReadyFacts, PathsApart, DirsHeld, SoundFacts, ClusterFacts
     DEF Quieted, Before, Sem, DirHead, ChainsApart
<1>2. \A p \in Path : p \in Seq(Name) /\ Len(p) \in 0 .. MaxDepth
  BY PathLengths, DepthAssumption
<1>3. Depth \in Ranking
  <2>1. ASSUME NEW c \in Cluster PROVE Depth[c] \in 0 .. MaxDepth
    BY <1>2, DepthAssumption DEF Depth
  <2>. QED BY <2>1 DEF Ranking, Depth
<1>4. ASSUME NEW p \in Path, Directory(p) # 0 PROVE Depth[Directory(p)] = Len(p)
  <2>1. PICK c \in Cluster : c = Directory(p)
    BY <1>1, <1>2, <1>4, DirectoryType
  <2>2. \A q \in Path : Directory(q) = c => q = p
    BY <1>1, <1>2, <1>4, <2>1 DEF OnePath
  <2>3. (CHOOSE q \in Path : Directory(q) = c) = p
    BY <2>1, <2>2
  <2>. QED BY <2>1, <2>3 DEF Depth
<1>5. ASSUME NEW d \in Dirs, NEW s \in Held \cap Slots(d), At(s).dir
      PROVE  Depth[d] < Depth[At(s).first]
  <2>1. At(s).first \in Dirs /\ At(s).name \in Name
    BY <1>1, <1>5, AtFacts DEF Dirs, AtTyped
  <2>2. PICK p \in Path : Directory(p) = d
    BY Reached
  <2>3. PICK q \in Path : Directory(q) = At(s).first
    BY <2>1, Reached
  <2>4. PICK x \in Seq(Name) : x # << >> /\ Parent(x) = p /\ Last(x) = At(s).name
                               /\ Len(x) = Len(p) + 1
    BY <1>2, <2>1, <2>2, Extended
  <2>5. Directory(x) = At(s).first
    BY <1>5, <2>2, <2>4, StepDown
  <2>6. x = q
    BY <1>1, <1>2, <2>1, <2>3, <2>5 DEF OnePath
  <2>. QED BY <1>1, <1>2, <1>4, <2>1, <2>2, <2>3, <2>4, <2>6
<1>. QED BY <1>3, <1>4, <1>5

(* An operation begins.                                                    *)
LEMMA BegunTidy ==
  ASSUME Quieted, Tidy, NEW T, Begun(T), UNCHANGED <<fat, heads, torn, tail, visited>>,
         pc' \notin {"unlink", "zero"}, op'.freed => task' = "free",
         NEW p \in Seq(Name), Directory(p) # 0, Changes' => op'.parent = Directory(p),
         NEW g \in Ranking,
         \A d \in Dirs : \A s \in Held \cap Slots(d) : At(s).dir => g[d] < g[At(s).first],
         op'.kind = "mkdir" => g[op'.parent] < MaxDepth,
         op'.kind = "move" /\ op'.record.dir => g[op'.parent] < g[op'.record.first]
  PROVE  Tidy'
<1>1. /\ TypeInv /\ Sem /\ pc = "idle" /\ task = "idle" /\ op = NoOp /\ UNCHANGED disk
      /\ op'.done = 0
  BY DEF Quieted, Begun, Ready, Before
<1>2. BeginFacts /\ Directory(p) \in Dirs
  BY <1>1, BeginKeeps, ReadyFacts
<1>3. Dirs' \subseteq Dirs
  BY <1>2, FewerDirs DEF BeginFacts
<1>4. TaskKept /\ NewKept /\ Held \subseteq Held'
  BY <1>1, <1>2, NoOpFacts DEF TaskKept, NewKept, BeginFacts
<1>5. Acyclic(fat)' /\ Rooted' /\ Named' /\ Ashore'
  BY <1>1, <1>3, <1>4, StillTidy
<1>6. Ranked(g)'
  BY <1>2, <1>3 DEF Ranked, BeginFacts
<1>7. Sunk'
  BY <1>6 DEF Sunk, Ranking, Cluster
<1>. QED BY <1>5, <1>7 DEF Tidy

LEMMA ParentFound ==
  ASSUME NEW p \in Path \ {<< >>}
  PROVE  /\ p \in Seq(Name) /\ p # << >> /\ Parent(p) \in Path /\ Parent(p) \in Seq(Name)
         /\ Len(Parent(p)) = Len(p) - 1 /\ Len(p) \in 1 .. MaxDepth
<1>1. p \in Seq(Name) /\ p # << >> /\ Len(p) <= MaxDepth
  BY PathLengths
<1>2. Parent(p) \in Seq(Name) /\ Len(Parent(p)) = Len(p) - 1 /\ Len(p) \in Nat \ {0}
  BY <1>1, ParentFacts
<1>3. Len(Parent(p)) <= MaxDepth /\ Len(p) \in 1 .. MaxDepth
  BY <1>1, <1>2, DepthAssumption
<1>. QED BY <1>1, <1>2, <1>3, PathLengths

LEMMA PutFileTidy ==
  ASSUME Quieted, Tidy, NEW p, NEW size, NEW content \in Payload, PutFileFacts(p, size, content)
  PROVE  Tidy'
<1>1. /\ p \in Seq(Name) /\ p # << >> /\ task = "idle" /\ tail = 0 /\ visited = {}
      /\ op'.parent = Directory(Parent(p)) /\ op'.parent \in Cluster
      /\ Begun({p}) /\ pc' = "alloc" /\ op'.kind = "put" /\ pc = "idle"
      /\ \A d : Cleared(d) = Slots(d)
  BY ReadyFacts DEF PutFileFacts, Begun, Quieted, Ready
<1>2. UNCHANGED <<fat, heads, torn, tail, visited>> /\ (op'.freed => task' = "free")
  BY <1>1 DEF PutFileFacts, EP!BeginFree, chainMap
<1>3. Parent(p) \in Seq(Name) /\ Directory(Parent(p)) # 0
  BY <1>1, ParentFacts, ClusterFacts
<1>4. PICK g \in Ranking : Ranked(g)
  BY DEF Tidy, Sunk
<1>. QED BY <1>1, <1>2, <1>3, <1>4, BegunTidy DEF Ranked

LEMMA DeleteBegunTidy ==
  ASSUME Quieted, Tidy, NEW p, DeleteFacts(p)
  PROVE  Tidy'
<1>1. /\ pc = "idle" /\ Begun({p}) /\ pc' = "delete" /\ op'.kind = "delete" /\ ~op'.freed
      /\ UNCHANGED <<fat, heads, torn, tail, visited>> /\ ~Changes'
  BY DEF DeleteFacts, Begun, Ready, chainMap, Changes
<1>2. << >> \in Seq(Name) /\ Directory(<< >>) # 0 /\ \A d : Cleared(d) = Slots(d)
  BY <1>1, PathSequences, DirectorySteps, ClusterFacts, ReadyFacts
     DEF DirectoryFacts, Quieted, Before
<1>3. PICK g \in Ranking : Ranked(g)
  BY DEF Tidy, Sunk
<1>. QED BY <1>1, <1>2, <1>3, BegunTidy DEF Ranked

LEMMA CreateDirectoryTidy ==
  ASSUME Quieted, Tidy, NEW p \in Path \ {<< >>}, CreateDirectoryFacts(p)
  PROVE  Tidy'
<1>1. /\ pc = "idle" /\ Begun({p}) /\ pc' = "alloc" /\ op'.kind = "mkdir" /\ ~op'.freed
      /\ UNCHANGED <<fat, heads, torn, tail, visited>>
      /\ op'.parent = Directory(Parent(p)) /\ op'.parent # 0
  BY ClusterFacts DEF CreateDirectoryFacts, Begun, Ready, chainMap
<1>2. /\ Depth \in Ranking /\ Depth[op'.parent] = Len(Parent(p))
      /\ \A d \in Dirs : \A s \in Held \cap Slots(d) : At(s).dir => Depth[d] < Depth[At(s).first]
  BY <1>1, ParentFound, DepthRanks
<1>3. Depth[op'.parent] < MaxDepth
  BY <1>2, ParentFound, DepthAssumption
<1>. QED BY <1>1, <1>2, <1>3, ParentFound, BegunTidy

(* What moves is empty, or moves no deeper than it lies.                   *)
LEMMA MoveTidy ==
  ASSUME Quieted, Sem', Tidy, NEW p \in Path \ {<< >>}, NEW q \in Path \ {<< >>},
         NEW overwrite \in BOOLEAN, Move(p, q, overwrite), state' # "hurt"
  PROVE  Tidy'
<1>1. MoveFacts(p, q)
  BY MoveStep DEF Quieted
<1>2. PICK s \in Lookup(p) : /\ At(s).dir => Len(q) <= Len(p) \/ Entries(At(s).first) = {}
                             /\ op'.from = s
  <2>. DEFINE new(s) == [NoOp EXCEPT !.kind = "move", !.targets = {p, q},
                                     !.parent = Directory(Parent(q)), !.from = s,
                                     !.record = [At(s) EXCEPT !.name = Last(q)]]
  <2>1. PICK s \in Lookup(p) :
          /\ At(s).dir => Len(q) <= Len(p) \/ Entries(At(s).first) = {}
          /\ op' = new(s) \/ \E d : op' = [new(s) EXCEPT !.stack = <<Frame(q, d)>>]
    BY DEF Move
  <2>2. op'.from = s
    BY <2>1, NoOpFacts DEF Operation
  <2>. QED BY <2>1, <2>2
<1>3. /\ pc = "idle" /\ Begun({p, q}) /\ pc' \in {"rename", "delete"} /\ op'.kind = "move"
      /\ ~op'.freed /\ UNCHANGED <<fat, heads, torn, tail, visited>>
      /\ op'.parent = Directory(Parent(q)) /\ op'.parent \in Cluster /\ op'.parent # 0
      /\ op'.record.first = At(s).first /\ op'.record.dir = At(s).dir
      /\ Directory(Parent(p)) # 0
  BY <1>1, <1>2, ClusterFacts DEF MoveFacts, Begun, Ready, chainMap
<1>4. /\ Depth \in Ranking /\ Depth[op'.parent] = Len(Parent(q))
      /\ \A d \in Dirs : \A t \in Held \cap Slots(d) : At(t).dir => Depth[d] < Depth[At(t).first]
  BY <1>3, ParentFound, DepthRanks
<1>5. CASE ~At(s).dir
  BY <1>3, <1>4, <1>5, ParentFound, BegunTidy
<1>6. ASSUME At(s).dir PROVE Depth[At(s).first] = Len(p) /\ At(s).first \in Dirs
  <2>1. /\ s \in Held /\ s \in Slots(Directory(Parent(p))) /\ At(s).name = Last(p)
        /\ Directory(Parent(p)) \in Dirs
    BY <1>3, LookupFacts, ReadyFacts, ParentFound DEF Quieted, Before
  <2>2. Directory(p) = At(s).first
    BY <1>3, <1>6, <2>1, ParentFound, StepDown
  <2>3. At(s).first \in Dirs /\ At(s).first # 0
    BY <1>6, <2>1 DEF Dirs, Quieted, Sem, ChainsHeld
  <2>. QED BY <1>3, <2>2, <2>3, DepthRanks
<1>7. CASE At(s).dir /\ Len(q) <= Len(p)
  <2>1. Depth[op'.parent] < Depth[op'.record.first]
    BY <1>3, <1>4, <1>6, <1>7, ParentFound
  <2>. QED BY <1>3, <1>4, <2>1, ParentFound, BegunTidy
<1>8. CASE At(s).dir /\ Entries(At(s).first) = {}
  <2>1. PICK a : a = At(s).first
    OBVIOUS
  <2>2. a \in Cluster /\ op'.parent # a /\ \A d \in Dirs : d \in Cluster
    BY <1>3, <1>6, <1>8, <2>1, DirsHeld, SoundFacts
       DEF Quieted, Sem, Before, DirHead, ChainsApart, Moving
  <2>3. \A t \in Held : t \notin Slots(a)
    BY <1>8, <2>1 DEF Held, Records, Entries
  <2>. DEFINE k == [Depth EXCEPT ![a] = MaxDepth]
  <2>4. /\ k \in Ranking /\ k[a] = MaxDepth /\ \A d \in Cluster : d # a => k[d] = Depth[d]
        /\ \A d \in Cluster : Depth[d] \in 0 .. MaxDepth
    BY <1>4, <2>2, DepthAssumption DEF Ranking
  <2>. HIDE DEF k
  <2>5. ASSUME NEW d \in Dirs, NEW t \in Held \cap Slots(d), At(t).dir
        PROVE  k[d] < k[At(t).first]
    <3>1. At(t).first \in Dirs /\ d # a /\ Depth[d] < Depth[At(t).first]
      BY <1>4, <2>3, <2>5 DEF Dirs
    <3>2. At(t).first \in Cluster /\ d \in Cluster
      BY <2>2, <3>1
    <3>. QED BY <2>4, <3>1, <3>2, DepthAssumption
  <2>6. k[op'.parent] < k[op'.record.first]
    <3>1. k[op'.parent] = Len(q) - 1 /\ k[op'.record.first] = MaxDepth
      BY <1>3, <1>4, <2>1, <2>2, <2>4, ParentFound
    <3>. QED BY <3>1, ParentFound, DepthAssumption
  <2>. QED BY <1>3, <2>4, <2>5, <2>6, ParentFound, BegunTidy
<1>. QED BY <1>2, <1>5, <1>7, <1>8

-----------------------------------------------------------------------------
(* Every step keeps the volume tidy.                                       *)
LEMMA ServiceTidy ==
  ASSUME Quieted, Before', Sem', Tidy, ServiceStep, state' = "clean"
  PROVE  Tidy'
<1>1. TypeInv /\ Before /\ Sem
  BY DEF Quieted
<1>2. Stop /\ UNCHANGED <<chainMap, disk>> => Tidy'
  BY StopTidy DEF chainMap
<1>3. CASE Allocate
  <2>1. pc = "alloc" /\ task = "idle"
    BY <1>3 DEF Allocate
  <2>. QED BY <1>1, <1>2, <1>3, <2>1, AllocateStep, EmptyTidy, AllocateTidy
<1>4. CASE WriteData
  BY <1>1, <1>2, <1>4, WriteDataStep, WriteDataTidy
<1>5. CASE WritableRecord
  BY <1>1, <1>5, WritableRecordStep, WritableRecordTidy
<1>6. CASE ClearAppended
  BY <1>1, <1>2, <1>6, ClearAppendedStep, ClearAppendedTidy
<1>7. CASE WriteRecord
  <2>1. WriteRecordFacts
    BY <1>1, <1>7, WriteRecordStep
  <2>2. CASE op.kind = "move"
    BY <2>1, <2>2, WriteMovedTidy
  <2>3. CASE op.kind # "move"
    <3>1. PICK z, r : NewRecord(z, r)
      BY <2>1, <2>3, NewRecordFacts
    <3>2. op.kind \in {"put", "mkdir"}
      BY <3>1 DEF NewRecord
    <3>. QED BY <2>1, <3>1, <3>2, WritePutTidy, WriteDirectoryTidy
  <2>. QED BY <2>2, <2>3
<1>8. CASE DeleteChild
  BY <1>1, <1>2, <1>8, DeleteChildStep, DeleteTidy
<1>9. CASE DeleteChain
  BY <1>1, <1>9, DeleteChainStep, DeleteTidy
<1>10. CASE MarkDeleted
  BY <1>1, <1>10, MarkDeletedStep, MarkDeletedTidy
<1>11. CASE Rename
  BY <1>1, <1>11, RenameStep, RenameTidy
<1>12. CASE Unlink
  BY <1>1, <1>12, UnlinkStep, UnlinkTidy
<1>. QED BY <1>3, <1>4, <1>5, <1>6, <1>7, <1>8, <1>9, <1>10, <1>11, <1>12 DEF ServiceStep

LEMMA EditorTidy ==
  ASSUME Quieted, Before', Sem', Tidy, EditorStep, state' = "clean"
  PROVE  Tidy'
<1>1. Working /\ UNCHANGED disk /\ TypeInv /\ Sem
  BY EditorCases DEF Quieted
<1>2. CASE Alone /\ (EP!AllocateLink \/ EP!AllocateEnd)
  BY <1>2, BuiltTidy
<1>3. CASE Alone /\ (EP!WalkNext \/ (EP!WalkEnd /\ EP!FreeClusters # {}))
  BY <1>3, WalkTidy
<1>4. CASE Alone /\ EP!FreeStep
  BY <1>1, <1>4, FreeStepFacts, FreeTidy
<1>5. CASE /\ EP!AppendLink /\ pc' = "zero" /\ UNCHANGED state
           /\ got[1] \in Cluster /\ Chosen(FirstSlot(got[1]))
  BY <1>1, <1>5, AppendLinkFacts, AppendTidy
<1>6. CASE EP!WalkEnd /\ EP!FreeClusters = {} /\ Stop
  <2>1. UNCHANGED <<fat, heads>>
    BY <1>6 DEF EP!WalkEnd, EP!Rest
  <2>. QED BY <1>1, <1>6, <2>1, StopTidy
<1>. QED BY <1>1, <1>2, <1>3, <1>4, <1>5, <1>6, EditorCases

LEMMA EachTidy ==
  ASSUME Quieted, Before', Sem', Tidy, Next, state' = "clean"
  PROVE  Tidy'
<1>1. TypeInv /\ Before /\ Sem /\ state' # "hurt"
  BY DEF Quieted
<1>2. ASSUME NEW p \in Path \ {<< >>}, NEW size \in 0 .. MaxChain, NEW content \in Payload,
             PutFile(p, size, content)
      PROVE  Tidy'
  BY <1>1, <1>2, PutFileStep, PutFileTidy
<1>3. ASSUME NEW p \in Path \ {<< >>}, CreateDirectory(p) PROVE Tidy'
  BY <1>1, <1>3, CreateDirectoryStep, CreateDirectoryTidy
<1>4. ASSUME NEW p \in Path \ {<< >>}, NEW recursive \in BOOLEAN, Delete(p, recursive) PROVE Tidy'
  BY <1>1, <1>4, DeleteStep, DeleteBegunTidy
<1>5. ASSUME NEW p \in Path \ {<< >>}, NEW q \in Path \ {<< >>}, NEW overwrite \in BOOLEAN,
             Move(p, q, overwrite)
      PROVE  Tidy'
  BY <1>1, <1>5, MoveTidy
<1>6. CASE ServiceStep
  BY <1>6, ServiceTidy
<1>7. CASE EditorStep
  BY <1>7, EditorTidy
<1>8. CASE Interrupt
  <2>1. UNCHANGED <<fat, heads, disk>> /\ Stop
    <3>1. UNCHANGED chainMap \/ EP!Interrupt
      BY <1>1, <1>8, EditorSteps DEF Interrupt
    <3>. QED BY <1>8, <3>1 DEF Interrupt, chainMap, EP!Interrupt, EP!Rest
  <2>. QED BY <2>1, StopTidy
<1>. QED BY <1>2, <1>3, <1>4, <1>5, <1>6, <1>7, <1>8 DEF Next

LEMMA StutterTidy ==
  ASSUME Tidy, UNCHANGED vars
  PROVE  Tidy'
<1>1. UNCHANGED <<fat, heads, task, got, written, cur, visited, disk, pc, op>>
  BY DEF vars, service, chainMap
<1>2. Loose' = Loose /\ TaskKept /\ NewKept /\ (Changes' => Changes /\ op'.parent = op.parent)
  BY <1>1 DEF Loose, Top, TaskKept, NewKept, Changes
<1>. QED BY <1>1, <1>2, QuietTidy

LEMMA TidyInit == Init => LInv
<1>. SUFFICES ASSUME Init PROVE LInv
  OBVIOUS
<1>1. WInv /\ Before /\ op = NoOp /\ pc = "idle" /\ op.kind = "none" /\ op.done = 0 /\ ~Changes
  BY WaysInit, BeforeStep, NoOpFacts DEF WInv, IInv, Init, Changes
<1>2. /\ DOMAIN fat = Cluster /\ \A c \in Cluster : fat[c] = IF c = RootCluster THEN END ELSE 0
      /\ heads = {RootCluster} /\ RootCluster \in Cluster /\ END \notin Cluster /\ 0 \notin Cluster
  BY ClusterFacts DEF Init, Editor!Init, Editor!Cluster, Editor!FREE, Cluster
<1>3. Dirs = {RootCluster} /\ Held = {}
  <2>1. \A s \in DirSlot : At(s) = FreeRecord
    BY SlotFacts, DirArrayFacts DEF DirSlot, At, Init
  <2>2. Held = {}
    BY <2>1 DEF Records, Held
  <2>. QED BY <1>1, <2>2 DEF Dirs
<1>4. Acyclic(fat)
  BY <1>2 DEF Acyclic
<1>5. Rooted /\ Named
  BY <1>2 DEF Rooted, Named
<1>6. Ashore
  <2>. DEFINE S == {RootCluster}
  <2>1. \A c \in S \cap Cluster : fat[c] \in DOMAIN fat => fat[c] \in S
    BY <1>2
  <2>2. IsFiniteSet(DOMAIN fat) /\ RootCluster \in S
    BY <1>2, ClusterFacts
  <2>. HIDE DEF S
  <2>3. Chain(RootCluster) \subseteq S
    BY <2>1, <2>2, ReachLeast DEF Chain
  <2>4. RootCluster \in OnDisk
    BY VolumeAssumption, LastAssumption DEF OnDisk
  <2>. QED BY <1>1, <1>3, <2>3, <2>4 DEF Ashore, S
<1>7. Sunk
  <2>. DEFINE g == [c \in Cluster |-> 0]
  <2>1. g \in Ranking
    BY DepthAssumption DEF Ranking
  <2>. HIDE DEF g
  <2>2. Ranked(g)
    BY <1>1, <1>3 DEF Ranked
  <2>. QED BY <2>1, <2>2 DEF Sunk
<1>. QED BY <1>1, <1>4, <1>5, <1>6, <1>7 DEF LInv, Tidy

LEMMA TidyNext == LInv /\ [Next]_vars => LInv'
<1>. SUFFICES ASSUME LInv, [Next]_vars PROVE LInv'
  OBVIOUS
<1>1. WInv'
  BY WaysNext DEF LInv
<1>2. ASSUME state' = "clean" PROVE Tidy'
  <2>1. Quieted /\ Before' /\ Sem' /\ Tidy
    BY <1>2, WaysSteps, StateSteps DEF LInv
  <2>. QED BY <1>2, <2>1, EachTidy, StutterTidy
<1>. QED BY <1>1, <1>2 DEF LInv

(* While every operation completed or was refused before it wrote, each    *)
(* cluster in use between operations lies in the chain of the root         *)
(* directory or of a record that a path leads to: nothing is lost, and     *)
(* nothing is reachable that is free (FatxMutationService.cs:46-49,        *)
(* 113-124, 159).                                                          *)
THEOREM NoLeakTheorem == Spec => []NoLeak
<1>1. LInv => NoLeak
  <2>. SUFFICES ASSUME LInv, state = "clean", pc = "idle"
                PROVE  {c \in Cluster : fat[c] # 0}
                         = Chain(RootCluster) \cup UNION {Chain(At(s).first) : s \in LiveSlots}
    BY DEF NoLeak, Editor!FREE
  <2>1. /\ Quieted /\ Tidy /\ DOMAIN fat = Cluster /\ IsFiniteSet(DOMAIN fat)
        /\ Held = Records /\ op.kind = "none" /\ task = "idle" /\ \A d : Cleared(d) = Slots(d)
    BY BeforeStep, ReadyFacts, ClusterFacts, NoOpFacts
       DEF LInv, WInv, IInv, Quieted, Before, DiskType
  <2>2. ASSUME NEW c \in Cluster, fat[c] # 0
        PROVE  c \in Chain(RootCluster) \/ \E s \in LiveSlots : c \in Chain(At(s).first)
    <3>1. PICK h \in Cluster : /\ Source(fat, h) /\ c \in Chain(h)
                               /\ h = c \/ fat[h] \in Cluster
      BY <2>1, AcyclicRoots DEF Tidy, Chain
    <3>2. h \in heads
      BY <2>1, <2>2, <3>1, ClusterFacts DEF Tidy, Rooted
    <3>3. CASE h = RootCluster
      BY <3>1, <3>3
    <3>4. CASE h # RootCluster
      <4>1. PICK s \in Held : At(s).first = h
        BY <2>1, <3>2, <3>4 DEF Tidy, Named
      <4>2. PICK d \in Dirs : s \in Slots(d)
        BY <2>1, <4>1 DEF Quieted, Ways, Placed
      <4>3. d # 0
        BY <2>1, DirsHeld, SoundFacts, ClusterFacts DEF Quieted, Sem, DirHead, ChainsApart
      <4>4. PICK p \in Path : Directory(p) = d
        BY <2>1, Reached
      <4>5. s \in LiveSlots
        BY <2>1, <4>2, <4>3, <4>4 DEF LiveSlots, Directories, Entries, Records
      <4>. QED BY <3>1, <4>1, <4>5
    <3>. QED BY <3>3, <3>4
  <2>3. \A c \in Chain(RootCluster) : c \in Cluster /\ fat[c] # 0
    BY <2>1, UsedChains DEF Quieted, Sem, ChainsHeld
  <2>4. ASSUME NEW s \in LiveSlots, NEW c \in Chain(At(s).first)
        PROVE  c \in Cluster /\ fat[c] # 0
    <3>1. At(s).first \in heads \cup {0}
      BY <2>1, LiveFacts DEF Quieted, Sem, ChainsHeld
    <3>2. Chain(0) = {}
      BY <2>1, ChainFacts DEF ChainsRead
    <3>. QED BY <2>1, <3>1, <3>2, UsedChains DEF Quieted
  <2>. QED BY <2>2, <2>3, <2>4
<1>2. Spec => []LInv
  BY TidyInit, TidyNext, PTL DEF Spec
<1>. QED BY <1>1, <1>2, PTL
=============================================================================
