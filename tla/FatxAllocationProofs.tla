------------------------- MODULE FatxAllocationProofs -------------------------
(***************************************************************************)
(* Proofs about FatxAllocation, for every number of clusters and every     *)
(* length of chain.                                                        *)
(***************************************************************************)
EXTENDS FatxAllocation, TLAPS

USE ClusterAssumption, RootAssumption, EndAssumption, BadAssumption, ChainAssumption

-----------------------------------------------------------------------------
(* What FindFreeClustersAsync returns: n clusters, all free, no two equal. *)
LEMMA FindFreeResult ==
  ASSUME NEW n \in Nat, NEW s \in FindFreeClusters(n), fat \in [Cluster -> Entry]
  PROVE  /\ s \in Seq(Cluster) /\ Len(s) = n
         /\ \A i \in 1 .. n : s[i] \in Cluster /\ fat[s[i]] = FREE
         /\ \A i, j \in 1 .. n : s[i] = s[j] => i = j
<1>1. s \in [1 .. n -> FreeClusters] /\ FirstFit(s)
  BY DEF FindFreeClusters
<1>2. \A i \in 1 .. n : s[i] \in Cluster /\ fat[s[i]] = FREE
  BY <1>1 DEF FreeClusters
<1>3. s \in Seq(Cluster) /\ Len(s) = n
  BY <1>1, <1>2
<1>4. ASSUME NEW i \in 1 .. n, NEW j \in 1 .. n, s[i] = s[j] PROVE i = j
  <2>1. i < j => s[i] < s[j]
    BY <1>1 DEF FirstFit
  <2>2. j < i => s[j] < s[i]
    BY <1>1 DEF FirstFit
  <2>3. s[i] \in Nat
    BY <1>2 DEF Cluster
  <2>. QED BY <2>1, <2>2, <2>3, <1>4
<1>. QED BY <1>2, <1>3, <1>4

(* The parts of the type invariant that concern an operation in progress.  *)
Progress ==
  /\ task = "idle" => got = << >> /\ written = 0 /\ tail = 0 /\ visited = {}
  /\ task = "walk" => got = << >> /\ written = 0 /\ tail = 0 /\ cur # 0
  /\ task = "free" => got = << >> /\ written = 0 /\ tail = 0 /\ cur # 0
  /\ task = "alloc" => /\ Len(got) > 0 /\ written < Len(got) /\ visited = {}
                       /\ tail # 0 => Len(got) = 1
  /\ task = "link" => Len(got) = 1 /\ tail # 0

(* Clusters an allocation has chosen but not written yet are still free:   *)
(* the choice is never stale.                                              *)
ChosenStillFree ==
  task = "alloc" =>
    /\ \A i \in DOMAIN got : i > written => fat[got[i]] = FREE
    /\ \A i, j \in DOMAIN got : got[i] = got[j] => i = j

(* The end of the chain that is being extended is still its end, or the    *)
(* chain held a free cluster (a damaged image).                            *)
TailStillLast ==
  /\ task = "alloc" /\ tail # 0 => IsTerminalValue(fat[tail])
  /\ task = "link" => IsTerminalValue(fat[tail])

TypeInv == TypeOK /\ Progress /\ ChosenStillFree /\ TailStillLast

LEMMA IdleTypeInv ==
  ASSUME Idle, fat \in [Cluster -> Entry], heads \subseteq Cluster, torn \in BOOLEAN
  PROVE  TypeInv
<1>1. got \in Seq(Cluster) /\ written \in 0 .. Len(got)
  BY DEF Idle
<1>. QED
  BY <1>1 DEF Idle, TypeInv, TypeOK, Progress, ChosenStillFree, TailStillLast

LEMMA TypeInvInit == Init => TypeInv
<1>. SUFFICES ASSUME Init PROVE TypeInv
  OBVIOUS
<1>1. fat \in [Cluster -> Entry] /\ heads \subseteq Cluster
  BY DEF Init, Cluster, Entry
<1>. QED BY <1>1, IdleTypeInv DEF Init

LEMMA TypeInvAnyImage == Init \/ DamagedInit => TypeInv
BY TypeInvInit, IdleTypeInv DEF DamagedInit

LEMMA TypeInvDamagedInit == DamagedInit => TypeInv
BY IdleTypeInv DEF DamagedInit

LEMMA RestTypeInv ==
  ASSUME Rest, fat' \in [Cluster -> Entry], heads' \subseteq Cluster, torn' \in BOOLEAN
  PROVE  TypeInv'
<1>1. got' \in Seq(Cluster) /\ written' \in 0 .. Len(got')
  BY DEF Rest
<1>. QED
  BY <1>1 DEF Rest, TypeInv, TypeOK, Progress, ChosenStillFree, TailStillLast

LEMMA TypeInvNext == TypeInv /\ [Next]_vars => TypeInv'
<1>. SUFFICES ASSUME TypeInv, [Next]_vars PROVE TypeInv'
  OBVIOUS
<1>. USE DEF TypeInv, TypeOK, Progress, FREE
<1>1. ASSUME NEW n \in 1 .. MaxChain, AllocateChain(n) PROVE TypeInv'
  <2>1. n \in Nat /\ n > 0
    BY <1>1
  <2>2. /\ got' \in Seq(Cluster) /\ Len(got') = n
        /\ \A i \in 1 .. n : got'[i] \in Cluster /\ fat[got'[i]] = FREE
        /\ \A i, j \in 1 .. n : got'[i] = got'[j] => i = j
    BY <1>1, <2>1, FindFreeResult DEF AllocateChain
  <2>. QED BY <1>1, <2>1, <2>2 DEF AllocateChain, ChosenStillFree, TailStillLast, IsTerminalValue
<1>2. ASSUME NEW first \in heads, AppendCluster(first) PROVE TypeInv'
  BY <1>2 DEF AppendCluster, BeginAppend, ChosenStillFree, TailStillLast, Cluster
<1>3. ASSUME NEW first \in heads, FreeChain(first) PROVE TypeInv'
  BY <1>3 DEF FreeChain, BeginFree, ChosenStillFree, TailStillLast, Cluster
<1>4. CASE AllocateLink
  <2>1. /\ written \in Nat /\ Len(got) \in Nat /\ tail = 0
        /\ written + 1 \in DOMAIN got /\ written + 2 \in DOMAIN got
    BY <1>4 DEF AllocateLink
  <2>2. fat' \in [Cluster -> Entry]
    BY <1>4, <2>1 DEF AllocateLink, Entry
  <2>3. ChosenStillFree'
    BY <1>4, <2>1 DEF AllocateLink, ChosenStillFree
  <2>4. TypeOK' /\ Progress'
    BY <1>4, <2>1, <2>2 DEF AllocateLink
  <2>5. TailStillLast'
    BY <1>4, <2>1 DEF AllocateLink, TailStillLast
  <2>. QED BY <2>3, <2>4, <2>5
<1>5. CASE AllocateEnd
  <2>1. /\ written \in Nat /\ Len(got) \in Nat
        /\ written + 1 \in DOMAIN got /\ got[1] \in Cluster /\ got[written + 1] \in Cluster
    BY <1>5 DEF AllocateEnd
  <2>2. fat' \in [Cluster -> Entry]
    BY <1>5, <2>1 DEF AllocateEnd, Entry
  <2>3. CASE tail = 0
    <3>1. Rest /\ heads' \subseteq Cluster /\ torn' \in BOOLEAN
      BY <1>5, <2>1, <2>3 DEF AllocateEnd
    <3>. QED BY <3>1, <2>2, RestTypeInv
  <2>4. CASE tail # 0
    BY <1>5, <2>1, <2>2, <2>4 DEF AllocateEnd, ChosenStillFree, TailStillLast, IsTerminalValue
  <2>. QED BY <2>3, <2>4
<1>6. CASE WalkNext
  <2>1. cur' \in Cluster \cup {BAD} /\ cur' # 0
    BY <1>6 DEF WalkNext, Entry, IsTerminalValue, Cluster
  <2>. QED BY <1>6, <2>1 DEF WalkNext, ChosenStillFree, TailStillLast
<1>7. CASE WalkEnd
  <2>1. CASE FreeClusters = {}
    BY <1>7, <2>1 DEF WalkEnd, Rest, ChosenStillFree, TailStillLast
  <2>2. CASE FreeClusters # {}
    <3>1. /\ got' \in Seq(Cluster) /\ Len(got') = 1
          /\ \A i \in 1 .. 1 : got'[i] \in Cluster /\ fat[got'[i]] = FREE
          /\ \A i, j \in 1 .. 1 : got'[i] = got'[j] => i = j
      BY <1>7, <2>2, FindFreeResult DEF WalkEnd
    <3>2. tail' \in Cluster /\ IsTerminalValue(fat[tail']) /\ cur' = 0 /\ visited' = {}
          /\ UNCHANGED <<fat, heads, torn, written>> /\ task' = "alloc"
      BY <1>7, <2>2 DEF WalkEnd
    <3>. QED BY <1>7, <3>1, <3>2 DEF WalkEnd, ChosenStillFree, TailStillLast, IsTerminalValue
  <2>. QED BY <2>1, <2>2
<1>8. CASE AppendLink
  <2>1. got[1] \in Cluster /\ tail \in Cluster
    BY <1>8 DEF AppendLink
  <2>2. fat' \in [Cluster -> Entry]
    BY <1>8, <2>1 DEF AppendLink, Entry
  <2>. QED BY <1>8, <2>2 DEF AppendLink, Rest, ChosenStillFree, TailStillLast
<1>9. CASE FreeStep
  <2>1. fat' \in [Cluster -> Entry]
    BY <1>9 DEF FreeStep, Entry
  <2>2. CASE IsTerminalValue(fat[cur])
    BY <1>9, <2>1, <2>2 DEF FreeStep, Rest, ChosenStillFree, TailStillLast
  <2>3. CASE ~IsTerminalValue(fat[cur])
    <3>1. cur' \in Cluster \cup {BAD} /\ cur' # 0
      BY <1>9, <2>3 DEF FreeStep, Entry, IsTerminalValue, Cluster
    <3>. QED BY <1>9, <2>1, <2>3, <3>1 DEF FreeStep, ChosenStillFree, TailStillLast
  <2>. QED BY <2>2, <2>3
<1>10. CASE ThrowCorrupt
  BY <1>10 DEF ThrowCorrupt, Rest, ChosenStillFree, TailStillLast
<1>11. CASE Interrupt
  BY <1>11 DEF Interrupt, Rest, ChosenStillFree, TailStillLast
<1>12. CASE UNCHANGED vars
  BY <1>12 DEF vars, editor, ChosenStillFree, TailStillLast, IsTerminalValue
<1>. QED
  BY <1>1, <1>2, <1>3, <1>4, <1>5, <1>6, <1>7, <1>8, <1>9, <1>10, <1>11, <1>12
     DEF Next, EditorStep

(* Every reachable state of the editor is well typed, on a formatted       *)
(* volume and on a damaged image alike.                                    *)
THEOREM TypeCorrect == AnyImageSpec => []TypeOK
<1>1. AnyImageSpec => []TypeInv
  BY TypeInvAnyImage, TypeInvNext, PTL DEF AnyImageSpec
<1>2. TypeInv => TypeOK
  BY DEF TypeInv
<1>. QED BY <1>1, <1>2, PTL

-----------------------------------------------------------------------------
(* The inductive invariant of a chain map no allocation was cut short in.  *)
Links ==
  /\ \A c \in Cluster : fat[c] # BAD
  /\ \A a, b \in Cluster : fat[a] = fat[b] /\ fat[a] \in Cluster => a = b
  /\ \A c \in Cluster :
       fat[c] \in Cluster /\ fat[fat[c]] = FREE
         => task = "alloc" /\ written > 0 /\ c = got[written]

Heads == \A h \in heads : fat[h] # FREE /\ \A c \in Cluster : fat[c] # h

(* The chain under construction: its first cluster belongs to nobody yet,  *)
(* what is written is in use, and the last link written leads to the next  *)
(* cluster to write.                                                       *)
NewChain ==
  /\ task \in {"alloc", "link"} => got[1] \notin heads /\ \A c \in Cluster : fat[c] # got[1]
  /\ task = "alloc" => /\ \A i \in 1 .. written : fat[got[i]] # FREE
                       /\ written > 0 => fat[got[written]] = got[written + 1]
                       /\ tail # 0 => fat[tail] = END
  /\ task = "link" => fat[got[1]] = END /\ fat[tail] = END /\ tail # got[1]

(* GetChainAsync has come from a head: every cluster it saw is a head or   *)
(* the successor of one it saw before.                                     *)
WalkPath ==
  task = "walk" =>
    /\ cur \in Cluster /\ cur \notin visited /\ fat[cur] # FREE
    /\ \A w \in visited \cup {cur} : w \in heads \/ \E v \in visited : fat[v] = w

(* FreeChainAsync stands on the first cluster of what is left of a chain.  *)
FreePath ==
  task = "free" =>
    /\ cur \in Cluster /\ fat[cur] # FREE
    /\ \A c \in Cluster : fat[c] # cur
    /\ \A v \in visited : fat[v] = FREE

Sound == Links /\ Heads /\ NewChain /\ WalkPath /\ FreePath

IInv == TypeInv /\ (~torn => Sound)

LEMMA IInvInit == Init => IInv
<1>. SUFFICES ASSUME Init PROVE IInv
  OBVIOUS
<1>1. TypeInv
  BY TypeInvInit
<1>2. Sound
  BY DEF Init, Idle, Sound, Links, Heads, NewChain, WalkPath, FreePath, FREE, Cluster
<1>. QED BY <1>1, <1>2 DEF IInv

LEMMA IInvNext == IInv /\ [Next]_vars => IInv'
<1>. SUFFICES ASSUME IInv, [Next]_vars PROVE IInv'
  OBVIOUS
<1>1. TypeInv /\ TypeInv'
  BY TypeInvNext DEF IInv
<1>2. SUFFICES ASSUME ~torn' PROVE Sound'
  BY <1>1 DEF IInv
<1>3. ~torn /\ Sound
  <2>1. ~torn' => ~torn
    BY DEF Next, EditorStep, vars, editor, AllocateChain, AllocateLink, AllocateEnd,
           AppendCluster, BeginAppend, WalkNext, WalkEnd, AppendLink, FreeChain, BeginFree, FreeStep,
           ThrowCorrupt, Interrupt
  <2>. QED BY <2>1, <1>2 DEF IInv
<1>4. TypeOK /\ Progress /\ ChosenStillFree /\ TailStillLast /\ Links /\ Heads
      /\ NewChain /\ WalkPath /\ FreePath
  BY <1>1, <1>3 DEF TypeInv, Sound
<1>. USE DEF TypeOK, FREE
<1>5. ASSUME NEW n \in 1 .. MaxChain, AllocateChain(n) PROVE Sound'
  <2>1. n \in Nat /\ n > 0
    BY <1>5
  <2>2. /\ got' \in Seq(Cluster) /\ Len(got') = n
        /\ \A i \in 1 .. n : got'[i] \in Cluster /\ fat[got'[i]] = FREE
    BY <1>4, <1>5, <2>1, FindFreeResult DEF AllocateChain
  <2>3. got'[1] \in Cluster /\ fat[got'[1]] = FREE
    BY <2>1, <2>2
  <2>. QED BY <1>4, <1>5, <2>1, <2>3
       DEF AllocateChain, Sound, Links, Heads, NewChain, WalkPath, FreePath, Progress
<1>6. ASSUME NEW first \in heads, AppendCluster(first) PROVE Sound'
  BY <1>4, <1>6 DEF AppendCluster, BeginAppend, Sound, Links, Heads, NewChain, WalkPath, FreePath, Progress
<1>7. ASSUME NEW first \in heads, FreeChain(first) PROVE Sound'
  BY <1>4, <1>7 DEF FreeChain, BeginFree, Sound, Links, Heads, NewChain, WalkPath, FreePath, Progress
<1>8. CASE AllocateLink
  <2>1. /\ written \in Nat /\ Len(got) \in Nat /\ tail = 0
        /\ written + 1 \in DOMAIN got /\ written + 2 \in DOMAIN got /\ 1 \in DOMAIN got
    BY <1>4, <1>8 DEF AllocateLink, Progress
  <2>2. /\ got[written + 1] \in Cluster /\ got[written + 2] \in Cluster /\ got[1] \in Cluster
        /\ fat[got[written + 1]] = FREE /\ fat[got[written + 2]] = FREE
        /\ got[written + 1] # got[written + 2] /\ got[1] # got[written + 2]
    BY <1>4, <1>8, <2>1 DEF AllocateLink, ChosenStillFree
  <2>3. \A c \in Cluster : fat[c] # got[written + 2]
    BY <1>4, <2>1, <2>2 DEF Links, NewChain
  <2>4. Links'
    <3>0. fat' = [fat EXCEPT ![got[written + 1]] = got[written + 2]] /\ written' = written + 1
          /\ got' = got /\ task' = "alloc" /\ BAD \notin Cluster /\ FREE \notin Cluster
      BY <1>8 DEF AllocateLink, Cluster
    <3>1. \A c \in Cluster : fat'[c] # BAD
      BY <1>4, <2>2, <3>0 DEF Links
    <3>2. \A a, b \in Cluster : fat'[a] = fat'[b] /\ fat'[a] \in Cluster => a = b
      BY <1>4, <2>2, <2>3, <3>0 DEF Links
    <3>3. ASSUME NEW c \in Cluster, fat'[c] \in Cluster, fat'[fat'[c]] = FREE
          PROVE c = got[written + 1]
      <4>1. SUFFICES ASSUME c # got[written + 1] PROVE FALSE
        OBVIOUS
      <4>2. fat'[c] = fat[c] /\ fat[fat[c]] = FREE
        BY <1>4, <2>2, <3>0, <3>3, <4>1
      <4>3. written > 0 /\ c = got[written]
        BY <1>4, <3>3, <4>2 DEF Links
      <4>4. fat[c] = got[written + 1]
        BY <1>4, <1>8, <4>3 DEF NewChain, AllocateLink
      <4>. QED BY <1>4, <2>2, <3>0, <3>3, <4>2, <4>4
    <3>. QED BY <2>1, <3>0, <3>1, <3>2, <3>3 DEF Links
  <2>5. Heads'
    BY <1>4, <1>8, <2>1, <2>2 DEF AllocateLink, Heads
  <2>6. NewChain'
    <3>0. fat' = [fat EXCEPT ![got[written + 1]] = got[written + 2]] /\ written' = written + 1
          /\ got' = got /\ task = "alloc" /\ task' = "alloc" /\ heads' = heads /\ tail' = 0
      BY <1>8, <2>1 DEF AllocateLink
    <3>1. got[1] \notin heads /\ \A c \in Cluster : fat'[c] # got[1]
      BY <1>4, <2>2, <3>0 DEF NewChain
    <3>2. ASSUME NEW i \in 1 .. written + 1 PROVE fat'[got[i]] # FREE
      <4>1. CASE i = written + 1
        BY <1>4, <2>2, <3>0, <4>1 DEF Cluster
      <4>2. CASE i # written + 1
        <5>1. i \in 1 .. written /\ i \in DOMAIN got /\ got[i] \in Cluster
          BY <1>4, <2>1, <4>2
        <5>2. fat[got[i]] # FREE
          BY <1>4, <3>0, <5>1 DEF NewChain
        <5>. QED BY <1>4, <2>2, <3>0, <5>1, <5>2
      <4>. QED BY <4>1, <4>2
    <3>3. fat'[got[written + 1]] = got[written + 2]
      BY <1>4, <2>2, <3>0
    <3>. QED BY <2>1, <3>0, <3>1, <3>2, <3>3 DEF NewChain
  <2>. QED BY <1>8, <2>4, <2>5, <2>6 DEF AllocateLink, Sound, WalkPath, FreePath
<1>9. CASE AllocateEnd
  <2>1. /\ written \in Nat /\ Len(got) \in Nat
        /\ written + 1 \in DOMAIN got /\ 1 \in DOMAIN got
    BY <1>4, <1>9 DEF AllocateEnd, Progress
  <2>2. /\ got[written + 1] \in Cluster /\ got[1] \in Cluster
        /\ fat[got[written + 1]] = FREE
        /\ END \notin Cluster /\ END # FREE
    BY <1>4, <1>9, <2>1 DEF AllocateEnd, ChosenStillFree, Cluster
  <2>3. fat' = [fat EXCEPT ![got[written + 1]] = END] /\ ~torn
    BY <1>3, <1>9 DEF AllocateEnd
  <2>4. Links'
    <3>1. \A c \in Cluster : fat'[c] # BAD
      BY <1>4, <2>2, <2>3 DEF Links
    <3>2. \A a, b \in Cluster : fat'[a] = fat'[b] /\ fat'[a] \in Cluster => a = b
      BY <1>4, <2>2, <2>3 DEF Links
    <3>3. ASSUME NEW c \in Cluster, fat'[c] \in Cluster, fat'[fat'[c]] = FREE
          PROVE FALSE
      <4>1. c # got[written + 1] /\ fat'[c] = fat[c] /\ fat[c] # got[written + 1]
            /\ fat[fat[c]] = FREE
        BY <1>4, <2>2, <2>3, <3>3
      <4>2. written > 0 /\ c = got[written]
        BY <1>4, <3>3, <4>1 DEF Links
      <4>. QED BY <1>4, <1>9, <4>1, <4>2 DEF NewChain, AllocateEnd
    <3>. QED BY <3>1, <3>2, <3>3 DEF Links
  <2>5. fat'[got[1]] # FREE /\ \A c \in Cluster : fat'[c] # got[1]
    BY <1>4, <1>9, <2>1, <2>2, <2>3 DEF NewChain, AllocateEnd
  <2>6. Heads'
    BY <1>4, <1>9, <2>2, <2>3, <2>5 DEF AllocateEnd, Heads, Rest
  <2>7. NewChain'
    <3>1. CASE tail = 0
      BY <1>9, <3>1 DEF AllocateEnd, Rest, NewChain
    <3>2. CASE tail # 0
      <4>1. Len(got) = 1 /\ written = 0 /\ fat[tail] = END /\ tail \in Cluster
        BY <1>4, <1>9, <2>1, <3>2 DEF Progress, NewChain, AllocateEnd
      <4>. QED BY <1>4, <1>9, <2>2, <2>3, <2>5, <3>2, <4>1 DEF AllocateEnd, NewChain
    <3>. QED BY <3>1, <3>2
  <2>8. WalkPath' /\ FreePath'
    BY <1>9 DEF AllocateEnd, Rest, WalkPath, FreePath
  <2>. QED BY <2>4, <2>6, <2>7, <2>8 DEF Sound
<1>10. CASE WalkNext
  <2>1. /\ cur \in Cluster /\ cur \notin visited /\ cur' = fat[cur] /\ visited' = visited \cup {cur}
        /\ UNCHANGED <<fat, heads, task, got, written, tail>> /\ task = "walk"
        /\ fat[cur] # FREE /\ fat[cur] # END
    BY <1>10 DEF WalkNext, IsTerminalValue
  <2>2. cur' \in Cluster /\ fat[cur'] # FREE
    BY <1>4, <2>1 DEF Links, Entry
  <2>3. cur' \notin visited'
    <3>1. SUFFICES ASSUME fat[cur] \in visited \cup {cur} PROVE FALSE
      BY <2>1
    <3>2. PICK v \in visited : fat[v] = fat[cur]
      BY <1>4, <2>1, <2>2, <3>1 DEF WalkPath, Heads
    <3>. QED BY <1>4, <2>1, <2>2, <3>2 DEF Links
  <2>4. WalkPath'
    BY <1>4, <2>1, <2>2, <2>3 DEF WalkPath
  <2>. QED BY <1>4, <2>1, <2>4 DEF Sound, Links, Heads, NewChain, FreePath
<1>11. CASE WalkEnd
  <2>1. CASE FreeClusters = {}
    BY <1>4, <1>11, <2>1 DEF WalkEnd, Rest, Sound, Links, Heads, NewChain, WalkPath, FreePath
  <2>2. CASE FreeClusters # {}
    <3>0. got' \in FindFreeClusters(1) /\ fat \in [Cluster -> Entry]
      BY <1>4, <1>11, <2>2 DEF WalkEnd
    <3>1. /\ got' \in Seq(Cluster) /\ Len(got') = 1
          /\ \A i \in 1 .. 1 : got'[i] \in Cluster /\ fat[got'[i]] = FREE
      BY <3>0, FindFreeResult
    <3>2. got'[1] \in Cluster /\ fat[got'[1]] = FREE
      BY <3>1
    <3>3. /\ task' = "alloc" /\ tail' = cur /\ UNCHANGED <<fat, heads, written>>
          /\ IsTerminalValue(fat[cur]) /\ task = "walk"
      BY <1>11, <2>2 DEF WalkEnd
    <3>4. written = 0 /\ fat[cur] = END
      BY <1>4, <3>3 DEF Progress, WalkPath, IsTerminalValue
    <3>. QED BY <1>4, <3>2, <3>3, <3>4 DEF Sound, Links, Heads, NewChain, WalkPath, FreePath
  <2>. QED BY <2>1, <2>2
<1>12. CASE AppendLink
  <2>0. task = "link" /\ Len(got) = 1 /\ tail # 0 /\ got \in Seq(Cluster)
    BY <1>4, <1>12 DEF AppendLink, Progress
  <2>a. got[1] \in Cluster
    BY <2>0
  <2>1. /\ got[1] \in Cluster /\ tail \in Cluster /\ task = "link"
        /\ fat' = [fat EXCEPT ![tail] = got[1]] /\ Rest /\ heads' = heads
    BY <1>4, <1>12, <2>0, <2>a DEF AppendLink
  <2>2. /\ got[1] \notin heads /\ \A c \in Cluster : fat[c] # got[1]
        /\ fat[got[1]] = END /\ fat[tail] = END /\ tail # got[1] /\ END # FREE /\ BAD \notin Cluster
    BY <1>4, <2>1 DEF NewChain, Cluster
  <2>3. Links'
    BY <1>4, <2>1, <2>2 DEF Links, Cluster
  <2>4. Heads'
    BY <1>4, <2>1, <2>2 DEF Heads, Cluster
  <2>. QED BY <2>1, <2>3, <2>4 DEF Rest, Sound, NewChain, WalkPath, FreePath
<1>13. CASE FreeStep
  <2>1. /\ cur \in Cluster /\ task = "free" /\ fat' = [fat EXCEPT ![cur] = FREE] /\ heads' = heads \ {cur}
        /\ fat[cur] # FREE /\ \A c \in Cluster : fat[c] # cur
        /\ \A v \in visited : fat[v] = FREE /\ FREE \notin Cluster
    BY <1>4, <1>13 DEF FreeStep, FreePath, Cluster
  <2>2. Links'
    BY <1>4, <2>1 DEF Links, Cluster
  <2>3. Heads'
    BY <1>4, <2>1 DEF Heads, Cluster
  <2>4. CASE IsTerminalValue(fat[cur])
    BY <1>13, <2>2, <2>3, <2>4 DEF FreeStep, Rest, Sound, NewChain, WalkPath, FreePath
  <2>5. CASE ~IsTerminalValue(fat[cur])
    <3>1. visited' = visited \cup {cur} /\ cur' = fat[cur] /\ task' = "free"
      BY <1>13, <2>1, <2>5 DEF FreeStep
    <3>2. fat[cur] \in Cluster /\ fat[fat[cur]] # FREE /\ fat[cur] # cur
      BY <1>4, <2>1, <2>5 DEF Links, IsTerminalValue, Entry
    <3>3. FreePath'
      BY <1>4, <2>1, <3>1, <3>2 DEF FreePath, Links, Heads
    <3>. QED BY <2>2, <2>3, <3>1, <3>3 DEF Sound, NewChain, WalkPath
  <2>. QED BY <2>4, <2>5
<1>14. CASE ThrowCorrupt
  BY <1>4, <1>14 DEF ThrowCorrupt, ChainCorrupt, Rest, Sound, Links, Heads, NewChain, WalkPath, FreePath
<1>15. CASE Interrupt
  <2>1. ~(task = "alloc" /\ written > 0)
    BY <1>2, <1>15 DEF Interrupt
  <2>. QED BY <1>4, <1>15, <2>1 DEF Interrupt, Rest, Sound, Links, Heads, NewChain, WalkPath, FreePath
<1>16. CASE UNCHANGED vars
  BY <1>4, <1>16 DEF vars, editor, Sound, Links, Heads, NewChain, WalkPath, FreePath
<1>. QED
  BY <1>5, <1>6, <1>7, <1>8, <1>9, <1>10, <1>11, <1>12, <1>13, <1>14, <1>15, <1>16
     DEF Next, EditorStep

LEMMA IInvAlways == Spec => []IInv
BY IInvInit, IInvNext, PTL DEF Spec

(* Two chains of the volume never share a cluster, however many clusters   *)
(* it has and wherever an operation is cut short outside an allocation.    *)
THEOREM DisjointTheorem == Spec => []ChainsDisjoint
<1>1. IInv => ChainsDisjoint
  BY DEF IInv, Sound, Links, Heads, ChainsDisjoint, TypeInv, TypeOK
<1>. QED BY <1>1, IInvAlways, PTL

(* No chain of the volume runs into free space.                            *)
THEOREM FreeSpaceTheorem == Spec => []NoLinkIntoFreeSpace
<1>1. IInv => NoLinkIntoFreeSpace
  BY DEF IInv, Sound, Links, NoLinkIntoFreeSpace
<1>. QED BY <1>1, IInvAlways, PTL

(* The exceptions for a damaged chain map are never raised on a volume     *)
(* only this editor wrote.                                                 *)
THEOREM NeverCorruptTheorem == Spec => []NeverCorrupt
<1>1. IInv => NeverCorrupt
  <2>1. task = "free" /\ FreePath => cur \notin visited
    BY DEF FreePath
  <2>. QED BY <2>1 DEF IInv, Sound, WalkPath, FreePath, NeverCorrupt, ChainCorrupt
<1>. QED BY <1>1, IInvAlways, PTL

(* An allocation never takes an entry in use, on a damaged image either:   *)
(* what FindFreeClustersAsync chose stays free until it is written.        *)
THEOREM UsedEntriesTheorem == AnyImageSpec => UsedEntriesKept
<1>. DEFINE Kept == \A c \in Cluster :
       fat[c] # FREE /\ fat'[c] \notin {fat[c], FREE} => fat[c] = END /\ c = tail
<1>1. TypeInv /\ [Next]_vars => [Kept]_vars
  <2>. SUFFICES ASSUME TypeInv, Next PROVE Kept
    OBVIOUS
  <2>. USE DEF TypeInv, TypeOK
  <2>1. CASE AllocateLink
    <3>1. written + 1 \in DOMAIN got /\ written + 1 > written
      BY <2>1 DEF AllocateLink
    <3>2. fat[got[written + 1]] = FREE
      BY <2>1, <3>1 DEF AllocateLink, ChosenStillFree
    <3>. QED BY <2>1, <3>2 DEF AllocateLink
  <2>2. CASE AllocateEnd
    <3>1. written + 1 \in DOMAIN got /\ written + 1 > written
      BY <2>2 DEF AllocateEnd
    <3>2. fat[got[written + 1]] = FREE
      BY <2>2, <3>1 DEF AllocateEnd, ChosenStillFree
    <3>. QED BY <2>2, <3>2 DEF AllocateEnd
  <2>3. CASE AppendLink
    BY <2>3 DEF AppendLink, TailStillLast, IsTerminalValue
  <2>4. CASE FreeStep
    BY <2>4 DEF FreeStep
  <2>5. CASE UNCHANGED fat
    BY <2>5
  <2>. QED
    BY <2>1, <2>2, <2>3, <2>4, <2>5
       DEF Next, EditorStep, AllocateChain, AppendCluster, BeginAppend, FreeChain, BeginFree, WalkNext, WalkEnd,
           ThrowCorrupt, Interrupt
<1>. QED
  BY <1>1, TypeInvAnyImage, TypeInvNext, PTL DEF AnyImageSpec, UsedEntriesKept
=============================================================================
