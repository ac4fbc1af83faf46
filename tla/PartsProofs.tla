---------------------------- MODULE PartsProofs ----------------------------
(***************************************************************************)
(* What the parts promise, for any number of processes, pages, sources,    *)
(* turns and calls: the shared memory keeps its chain of replacements, a   *)
(* page loses no messages to older copies, the build of a program tells    *)
(* what is so, results are sent behind their calls, and an answer is read  *)
(* as it was sent.                                                         *)
(***************************************************************************)
EXTENDS Parts, FiniteSetTheorems, SequenceTheorems, WellFoundedInduction, TLAPS

-----------------------------------------------------------------------------
(* The parts *)

\* A behaviour of the whole is one of each part: the others stutter.
LEMMA PartsAreParts ==
    PartsSpec => Spec /\ Sync!Spec /\ Build!Spec /\ Talk!Spec /\ Stream!Spec
<1>1. PartsInit => Init /\ Sync!Init /\ Build!Init /\ Talk!Init /\ Stream!Init
  BY DEF PartsInit
<1>2. [PartsNext]_partsVars =>
         /\ [Next]_vars /\ [Sync!Next]_Sync!vars /\ [Build!Next]_Build!vars
         /\ [Talk!Next]_Talk!vars /\ [Stream!Next]_Stream!vars
  <2>1. UNCHANGED chatVars => UNCHANGED Sync!vars
    BY DEF chatVars, Sync!vars
  <2>2. UNCHANGED buildVars => UNCHANGED Build!vars
    BY DEF buildVars, Build!vars, Build!chosen, Build!program
  <2>3. UNCHANGED talkVars => UNCHANGED Talk!vars
    BY DEF talkVars, Talk!vars
  <2>4. UNCHANGED streamVars => UNCHANGED Stream!vars
    BY DEF streamVars, Stream!vars
  <2>5. PartsNext => /\ [Next]_vars /\ [Sync!Next]_Sync!vars /\ [Build!Next]_Build!vars
                     /\ [Talk!Next]_Talk!vars /\ [Stream!Next]_Stream!vars
    BY <2>1, <2>2, <2>3, <2>4 DEF PartsNext
  <2>6. UNCHANGED partsVars => UNCHANGED <<vars, chatVars, buildVars, talkVars, streamVars>>
    BY DEF partsVars
  <2> QED
    BY <2>1, <2>2, <2>3, <2>4, <2>5, <2>6
<1> QED
  BY <1>1, <1>2, PTL DEF PartsSpec, Spec, Sync!Spec, Build!Spec, Talk!Spec, Stream!Spec

-----------------------------------------------------------------------------
(* SharedFiles: the operator memory *)

\* A memory of which every superseded entry has one replacement, and no other.
Chained(entries) ==
    /\ \A m, k \in entries : m.id = k.id => m = k
    /\ \A m \in entries : m.active <=> \A r \in entries : r.supersedes # m.id
    /\ \A r, t \in entries : r.supersedes = t.supersedes /\ r.supersedes # None => r = t
    /\ \A r \in entries : r.supersedes # None => \E m \in entries : m.id = r.supersedes

\* No entry has the id.
Fresh(i, entries) == \A m \in entries : m.id # i

\* Entries that were written with an id given out.
Written(entries) == entries \subseteq Entries /\ \A m \in entries : m.id \in used

\* A process that supersedes has read a memory in which its target is active, and
\* holds an id that is in no file and no copy of one, and with no other process.
Superseding(p) ==
    /\ at[p] = "superseding"
    /\ new[p] \in Ids \cap used
    /\ \E m \in saw[p] : m.active /\ m.id = target[p]
    /\ Fresh(new[p], memory)
    /\ \A o \in Procs : Fresh(new[p], saw[o])
    /\ \A o \in Procs \ {p} : at[o] = "superseding" => new[o] # new[p]

MemoryInv ==
    /\ used \subseteq Ids
    /\ at \in [Procs -> Places] /\ saw \in [Procs -> SUBSET Entries]
    /\ target \in [Procs -> Ids \cup {None}] /\ new \in [Procs -> Ids \cup {None}]
    /\ Written(memory) /\ Chained(memory)
    /\ \A p \in Procs : Written(saw[p]) /\ Chained(saw[p])
    /\ \A p \in Procs : at[p] = "superseding" => Superseding(p)

\* A replacement under a new id keeps the chain.
LEMMA ReplacementChains ==
    ASSUME NEW entries \in SUBSET Entries, Chained(entries),
           NEW i \in Ids, Fresh(i, entries),
           NEW x \in entries, x.active
    PROVE  /\ Chained(Superseded(entries, x.id, i))
           /\ Superseded(entries, x.id, i) \subseteq Entries
           /\ \A k \in Superseded(entries, x.id, i) :
                 k.id = i \/ \E m \in entries : m.id = k.id
<1> DEFINE marked(m) == IF m.id = x.id THEN [m EXCEPT !.active = FALSE] ELSE m
           replacement == [id |-> i, supersedes |-> x.id, active |-> TRUE]
           after == {marked(m) : m \in entries} \cup {replacement}
<1>1. after = Superseded(entries, x.id, i)
  BY DEF Superseded
<1>2. None \notin Ids
  BY FilesAssumption
<1>3. \A m \in entries : m.id \in Ids /\ m.supersedes \in Ids \cup {None} /\ m.active \in BOOLEAN
  BY DEF Entries
<1>4. \A m \in entries : /\ marked(m) \in Entries
                         /\ marked(m).id = m.id /\ marked(m).supersedes = m.supersedes
                         /\ marked(m).active <=> m.active /\ m.id # x.id
  BY DEF Entries
<1>5. replacement \in Entries /\ replacement.id = i /\ replacement.supersedes = x.id
        /\ replacement.active
  BY <1>3 DEF Entries
<1>6. \A m \in entries : m.supersedes # x.id /\ m.supersedes # i /\ m.id # i
  BY <1>2 DEF Chained, Fresh
<1>7. \A k : k \in after <=> k = replacement \/ \E m \in entries : k = marked(m)
  OBVIOUS
<1> HIDE DEF marked, replacement, after
<1>8. \A m, k \in after : m.id = k.id => m = k
  BY <1>4, <1>5, <1>6, <1>7 DEF Chained
<1>9. \A m \in after : m.active <=> \A r \in after : r.supersedes # m.id
  <2>1. replacement \in after /\ \A r \in after : r.supersedes # i
    BY <1>3, <1>4, <1>5, <1>6, <1>7
  <2>2. ASSUME NEW m \in entries
        PROVE  marked(m).active <=> \A r \in after : r.supersedes # marked(m).id
    <3>1. \A r \in after : r.supersedes # m.id <=>
             \/ r = replacement /\ x.id # m.id
             \/ \E e \in entries : r = marked(e) /\ e.supersedes # m.id
      BY <1>4, <1>5, <1>7
    <3>2. (\A r \in after : r.supersedes # m.id) <=>
             x.id # m.id /\ \A e \in entries : e.supersedes # m.id
      BY <1>4, <1>5, <1>7
    <3> QED
      BY <1>4, <3>2 DEF Chained
  <2> QED
    BY <1>5, <1>7, <2>1, <2>2
<1>10. \A r, t \in after : r.supersedes = t.supersedes /\ r.supersedes # None => r = t
  BY <1>4, <1>5, <1>6, <1>7 DEF Chained
<1>11. \A r \in after : r.supersedes # None => \E m \in after : m.id = r.supersedes
  <2>1. \A m \in entries : marked(m) \in after /\ marked(m).id = m.id
    BY <1>4, <1>7
  <2> QED
    BY <1>4, <1>5, <1>7, <2>1 DEF Chained
<1>12. Chained(after)
  BY <1>8, <1>9, <1>10, <1>11 DEF Chained
<1>13. after \subseteq Entries /\ \A k \in after : k.id = i \/ \E m \in entries : m.id = k.id
  BY <1>4, <1>5, <1>7
<1> QED
  BY <1>1, <1>12, <1>13

\* An entry that replaces none keeps the chain.
LEMMA AppendChains ==
    ASSUME NEW entries \in SUBSET Entries, Chained(entries),
           NEW i \in Ids, Fresh(i, entries)
    PROVE  Chained(entries \cup {[id |-> i, supersedes |-> None, active |-> TRUE]})
<1> DEFINE e == [id |-> i, supersedes |-> None, active |-> TRUE]
           after == entries \cup {e}
<1>1. e.id = i /\ e.supersedes = None /\ e.active
  OBVIOUS
<1>2. i # None /\ \A m \in entries : m.id \in Ids /\ m.id # None /\ m.id # i /\ m.supersedes # i
  BY FilesAssumption DEF Entries, Fresh, Chained
<1>3. \A k : k \in after <=> k \in entries \/ k = e
  OBVIOUS
<1> HIDE DEF e, after
<1>4. Chained(after)
  BY <1>1, <1>2, <1>3 DEF Chained
<1> QED
  BY <1>4 DEF after, e

\* A step on the files keeps the invariant.
LEMMA MemoryStep ==
    ASSUME MemoryInv, [Next]_vars
    PROVE  MemoryInv'
<1> USE DEF MemoryInv
<1>1. ASSUME NEW p \in Procs, NEW i \in Ids, AppendMemory(p, i)
      PROVE  MemoryInv'
  <2> DEFINE e == [id |-> i, supersedes |-> None, active |-> TRUE]
  <2>1. /\ i \notin used /\ used' = used \cup {i} /\ memory' = memory \cup {e}
        /\ UNCHANGED <<saw, target, new, at>>
    BY <1>1 DEF AppendMemory
  <2>2. Fresh(i, memory)
    BY <2>1 DEF Fresh, Written
  <2>3. Chained(memory')
    BY <2>1, <2>2, AppendChains DEF Written
  <2>4. e \in Entries /\ e.id = i
    BY DEF Entries
  <2>5. Written(memory)'
    BY <2>1, <2>4 DEF Written
  <2>6. \A o \in Procs : (Written(saw[o]) /\ Chained(saw[o]))'
    BY <2>1 DEF Written, Chained
  <2>7. ASSUME NEW o \in Procs, at'[o] = "superseding" PROVE Superseding(o)'
    <3>1. Superseding(o)
      BY <2>1, <2>7
    <3>2. Fresh(new[o], memory')
      BY <2>1, <2>4, <3>1 DEF Superseding, Fresh
    <3> QED
      BY <2>1, <3>1, <3>2 DEF Superseding, Fresh
  <2> QED
    BY <2>1, <2>3, <2>5, <2>6, <2>7 DEF Chained
<1>2. ASSUME NEW p \in Procs, NEW i \in Ids, NEW m \in memory, SupersedeReads(p, m, i)
      PROVE  MemoryInv'
  <2>1. /\ at[p] = "idle" /\ m.active /\ i \notin used
        /\ used' = used \cup {i} /\ at' = [at EXCEPT ![p] = "superseding"]
        /\ saw' = [saw EXCEPT ![p] = memory] /\ target' = [target EXCEPT ![p] = m.id]
        /\ new' = [new EXCEPT ![p] = i] /\ UNCHANGED memory
    BY <1>2 DEF SupersedeReads
  <2>2. m.id \in Ids /\ memory \in SUBSET Entries
    BY DEF Written, Entries
  <2>3. /\ used' \subseteq Ids
        /\ at' \in [Procs -> Places] /\ saw' \in [Procs -> SUBSET Entries]
        /\ target' \in [Procs -> Ids \cup {None}] /\ new' \in [Procs -> Ids \cup {None}]
    BY <2>1, <2>2 DEF Places
  <2>4. \A o \in Procs : saw'[o] = saw[o] \/ saw'[o] = memory
    BY <2>1
  <2>5. Written(memory)' /\ \A o \in Procs : Written(saw[o])'
    BY <2>1, <2>4 DEF Written
  <2>6. Chained(memory)' /\ \A o \in Procs : Chained(saw[o])'
    BY <2>1, <2>4 DEF Chained
  <2>7. \A o \in Procs : Fresh(i, saw'[o])
    BY <2>1, <2>4 DEF Fresh, Written
  <2>8. Superseding(p)'
    <3>1. Fresh(i, memory')
      BY <2>1 DEF Fresh, Written
    <3>2. \A o \in Procs \ {p} : at'[o] = "superseding" => new'[o] # i
      BY <2>1 DEF Superseding
    <3>3. at'[p] = "superseding" /\ new'[p] = i /\ saw'[p] = memory /\ target'[p] = m.id
      BY <2>1
    <3>4. i \in Ids \cap used'
      BY <2>1
    <3>5. \E k \in memory : k.active /\ k.id = m.id
      BY <2>1
    <3> QED
      BY <2>7, <3>1, <3>2, <3>3, <3>4, <3>5 DEF Superseding, Fresh
  <2>9. ASSUME NEW o \in Procs \ {p}, at'[o] = "superseding" PROVE Superseding(o)'
    <3>1. Superseding(o) /\ at'[o] = at[o] /\ new'[o] = new[o] /\ saw'[o] = saw[o]
            /\ target'[o] = target[o]
      BY <2>1, <2>9
    <3>2. \A z \in Procs : Fresh(new[o], saw'[z])
      BY <2>4, <3>1 DEF Superseding
    <3>3. \A z \in Procs \ {o} : at'[z] = "superseding" => new'[z] # new[o]
      BY <2>1, <3>1 DEF Superseding
    <3>4. Fresh(new[o], memory') /\ new[o] \in Ids \cap used'
      BY <2>1, <3>1 DEF Superseding
    <3> QED
      BY <3>1, <3>2, <3>3, <3>4 DEF Superseding, Fresh
  <2>10. \A o \in Procs : at'[o] = "superseding" => Superseding(o)'
    BY <2>8, <2>9
  <2> QED
    BY <2>3, <2>5, <2>6, <2>10
<1>3. ASSUME NEW p \in Procs, SupersedeRenames(p)
      PROVE  MemoryInv'
  <2>1. /\ at[p] = "superseding" /\ memory' = Superseded(saw[p], target[p], new[p])
        /\ at' = [at EXCEPT ![p] = "idle"] /\ saw' = [saw EXCEPT ![p] = {}]
        /\ target' = [target EXCEPT ![p] = None] /\ new' = [new EXCEPT ![p] = None]
        /\ UNCHANGED used
    BY <1>3 DEF SupersedeRenames
  <2>2. Superseding(p)
    BY <2>1
  <2>3. PICK x \in saw[p] : x.active /\ x.id = target[p]
    BY <2>2 DEF Superseding
  <2>4. saw[p] \in SUBSET Entries /\ Chained(saw[p]) /\ new[p] \in Ids /\ Fresh(new[p], saw[p])
    BY <2>2 DEF Superseding
  <2>5. /\ Chained(memory') /\ memory' \subseteq Entries
        /\ \A k \in memory' : k.id = new[p] \/ \E m \in saw[p] : m.id = k.id
    BY <2>1, <2>3, <2>4, ReplacementChains
  <2>6. Written(memory)'
    BY <2>1, <2>2, <2>5 DEF Superseding, Written
  <2>7. /\ used' \subseteq Ids
        /\ at' \in [Procs -> Places] /\ saw' \in [Procs -> SUBSET Entries]
        /\ target' \in [Procs -> Ids \cup {None}] /\ new' \in [Procs -> Ids \cup {None}]
    BY <2>1 DEF Places
  <2>8. \A o \in Procs : saw'[o] = saw[o] \/ saw'[o] = {}
    BY <2>1
  <2>9. \A o \in Procs : Written(saw[o])' /\ Chained(saw[o])'
    BY <2>1, <2>8 DEF Written, Chained
  <2>10. ASSUME NEW o \in Procs, at'[o] = "superseding" PROVE Superseding(o)'
    <3>1. o # p /\ at'[o] = at[o] /\ new'[o] = new[o] /\ saw'[o] = saw[o]
            /\ target'[o] = target[o] /\ Superseding(o)
      BY <2>1, <2>10
    <3>2. \A z \in Procs : Fresh(new[o], saw'[z])
      BY <2>8, <3>1 DEF Superseding, Fresh
    <3>3. \A z \in Procs \ {o} : at'[z] = "superseding" => new'[z] # new[o]
      BY <2>1, <3>1 DEF Superseding
    <3>4. new[o] # new[p] /\ Fresh(new[o], saw[p])
      BY <2>1, <3>1 DEF Superseding
    <3>5. Fresh(new[o], memory')
      BY <2>5, <3>4 DEF Fresh
    <3>6. new[o] \in Ids \cap used'
      BY <2>1, <3>1 DEF Superseding
    <3> QED
      BY <3>1, <3>2, <3>3, <3>5, <3>6 DEF Superseding, Fresh
  <2> QED
    BY <2>5, <2>6, <2>7, <2>9, <2>10 DEF Chained
<1>4. ASSUME UNCHANGED <<memory, used>>,
             \A o \in Procs : \/ /\ saw'[o] = saw[o] /\ target'[o] = target[o]
                                 /\ new'[o] = new[o]
                              \/ at'[o] # "superseding" /\ saw'[o] = {},
             \A o \in Procs : at'[o] = "superseding" => at[o] = "superseding" /\ new'[o] = new[o],
             at' \in [Procs -> Places], saw' \in [Procs -> SUBSET Entries],
             target' \in [Procs -> Ids \cup {None}], new' \in [Procs -> Ids \cup {None}]
      PROVE  MemoryInv'
  <2>1. Written(memory)' /\ Chained(memory')
    BY <1>4 DEF Written
  <2>2. \A o \in Procs : saw'[o] = saw[o] \/ saw'[o] = {}
    BY <1>4
  <2>3. \A o \in Procs : Written(saw[o])' /\ Chained(saw[o])'
    BY <1>4, <2>2 DEF Written, Chained
  <2>4. ASSUME NEW o \in Procs, at'[o] = "superseding" PROVE Superseding(o)'
    <3>1. /\ Superseding(o) /\ new'[o] = new[o]
          /\ saw'[o] = saw[o] /\ target'[o] = target[o]
      BY <1>4, <2>4
    <3>2. \A z \in Procs : Fresh(new[o], saw'[z])
      BY <2>2, <3>1 DEF Superseding, Fresh
    <3>3. \A z \in Procs \ {o} : at'[z] = "superseding" => new'[z] # new[o]
      BY <1>4, <3>1 DEF Superseding
    <3> QED
      BY <1>4, <2>4, <3>1, <3>2, <3>3 DEF Superseding, Fresh
  <2> QED
    BY <1>4, <2>1, <2>3, <2>4 DEF Chained
<1>5. ASSUME NEW p \in Procs, NEW t \in Texts, AppendLine(p, t)
      PROVE  MemoryInv'
  BY <1>4, <1>5 DEF AppendLine, memoryVars
<1>6. ASSUME NEW p \in Procs, LoadReads(p)
      PROVE  MemoryInv'
  BY <1>4, <1>6 DEF LoadReads, memoryVars, Places
<1>7. ASSUME NEW p \in Procs, LoadTruncates(p)
      PROVE  MemoryInv'
  BY <1>4, <1>7 DEF LoadTruncates, memoryVars, Places
<1>8. ASSUME NEW p \in Procs, LoadWrites(p)
      PROVE  MemoryInv'
  BY <1>4, <1>8 DEF LoadWrites, memoryVars, Places
<1>9. ASSUME NEW p \in Procs, Dies(p)
      PROVE  MemoryInv'
  BY <1>4, <1>9 DEF Dies, Places
<1>10. CASE UNCHANGED vars
  BY <1>4, <1>10 DEF vars
<1>11. CASE Next
  BY <1>1, <1>2, <1>3, <1>5, <1>6, <1>7, <1>8, <1>9, <1>11 DEF Next
<1> QED
  BY <1>10, <1>11

\* The memory is empty at first.
LEMMA MemoryBegins == ASSUME Init PROVE MemoryInv
BY DEF Init, MemoryInv, Written, Chained, Places

\* SupersededHasSuccessor: the chain of replacements in the operator memory is
\* never broken, however many processes rewrite the file over one another.
THEOREM MemoryStaysChained == Spec => []SupersededHasSuccessor
<1>1. Init => MemoryInv
  BY MemoryBegins
<1>2. MemoryInv => SupersededHasSuccessor
  <2> SUFFICES ASSUME MemoryInv PROVE SupersededHasSuccessor
    OBVIOUS
  <2>1. Chained(memory) /\ None \notin Ids /\ \A m \in memory : m.id \in Ids /\ m.active \in BOOLEAN
    BY FilesAssumption DEF MemoryInv, Written, Entries
  <2>2. ASSUME NEW m \in memory
        PROVE  Cardinality({r \in memory : r.supersedes = m.id}) = IF m.active THEN 0 ELSE 1
    <3> DEFINE successors == {r \in memory : r.supersedes = m.id}
    <3>1. CASE m.active
      <4>1. successors = {}
        BY <2>1, <3>1 DEF Chained
      <4> QED
        BY <3>1, <4>1, FS_EmptySet
    <3>2. CASE ~m.active
      <4>1. PICK r \in memory : r.supersedes = m.id
        BY <2>1, <3>2 DEF Chained
      <4>2. successors = {r}
        BY <2>1, <4>1 DEF Chained
      <4> HIDE DEF successors
      <4>3. Cardinality(successors) = 1
        BY <4>2, FS_Singleton
      <4> QED
        BY <3>2, <4>3 DEF successors
    <3> QED
      BY <3>1, <3>2
  <2> QED
    BY <2>1, <2>2 DEF SupersededHasSuccessor, Chained
<1> QED
  BY <1>1, <1>2, MemoryStep, PTL DEF Spec

-----------------------------------------------------------------------------
(* SharedFiles: the prompt history *)

\* A set of natural numbers that is not empty has a least element.
LEMMA LeastNatural ==
    ASSUME NEW S, S \subseteq Nat, S # {}
    PROVE  \E least \in S : \A other \in S : least <= other
<1> DEFINE less == OpToRel(<, Nat)
<1>1. IsWellFoundedOn(less, Nat)
  BY NatLessThanWellFounded
<1>2. \A m, n \in Nat : <<m, n>> \in less <=> m < n
  BY DEF OpToRel
<1> HIDE DEF less
<1>3. PICK least \in S : \A other \in S : ~(<<other, least>> \in less)
  BY <1>1, WFMin
<1>4. least \in Nat /\ \A other \in S : other \in Nat /\ ~(other < least)
  BY <1>2, <1>3
<1> QED
  BY <1>3, <1>4

\* s lists the numbers of S in their order.
Lists(s, S) ==
    /\ s \in [1..Cardinality(S) -> S]
    /\ \A i \in S : \E a \in DOMAIN s : s[a] = i
    /\ \A a, b \in DOMAIN s : a < b => s[a] < s[b]

\* The least number of a set before those of the rest lists the set.
LEMMA LeastFirst ==
    ASSUME NEW S \in SUBSET Nat, IsFiniteSet(S), NEW m \in S, \A i \in S : m <= i,
           NEW s, Lists(s, S \ {m})
    PROVE  \E t : Lists(t, S)
<1>1. PICK n \in Nat : n = Cardinality(S) /\ Cardinality(S \ {m}) = n - 1 /\ n >= 1
  BY FS_CardinalityType, FS_RemoveElement, FS_EmptySet
<1> DEFINE next(a) == IF a = 1 THEN m ELSE s[a - 1]
           t == [a \in 1..n |-> next(a)]
<1>2. /\ s \in [1..(n - 1) -> S \ {m}]
      /\ \A i \in S \ {m} : \E a \in 1..(n - 1) : s[a] = i
      /\ \A a, b \in 1..(n - 1) : a < b => s[a] < s[b]
  BY <1>1 DEF Lists
<1>3. ASSUME NEW a \in 1..n PROVE next(a) \in S /\ (a # 1 => a - 1 \in 1..(n - 1) /\ m < next(a))
  <2>1. a # 1 => a - 1 \in 1..(n - 1)
    BY <1>1
  <2>2. a # 1 => s[a - 1] \in S \ {m} /\ s[a - 1] \in Nat /\ m \in Nat
    BY <1>2, <2>1
  <2> QED
    BY <2>1, <2>2
<1>4. \A i \in S : \E a \in 1..n : next(a) = i
  <2> TAKE i \in S
  <2>1. CASE i = m
    BY <1>1, <2>1
  <2>2. CASE i # m
    <3>1. PICK a \in 1..(n - 1) : s[a] = i
      BY <1>2, <2>2
    <3>2. a + 1 \in 1..n /\ a + 1 # 1 /\ (a + 1) - 1 = a
      BY <1>1
    <3> QED
      BY <3>1, <3>2
  <2> QED
    BY <2>1, <2>2
<1>5. \A a, b \in 1..n : a < b => next(a) < next(b)
  <2> TAKE a, b \in 1..n
  <2> HAVE a < b
  <2>1. b # 1 /\ b - 1 \in 1..(n - 1) /\ m < next(b)
    BY <1>1, <1>3
  <2>2. CASE a = 1
    BY <2>1, <2>2
  <2>3. CASE a # 1
    <3>1. a - 1 \in 1..(n - 1) /\ a - 1 < b - 1
      BY <1>3, <2>3
    <3> QED
      BY <1>2, <2>1, <2>3, <3>1
  <2> QED
    BY <2>2, <2>3
<1>6. t \in [1..n -> S] /\ DOMAIN t = 1..n /\ \A a \in 1..n : t[a] = next(a)
  BY <1>3
<1> HIDE DEF next, t
<1>7. Lists(t, S)
  BY <1>1, <1>4, <1>5, <1>6 DEF Lists
<1> QED
  BY <1>7

\* A finite set of natural numbers can be listed in order: Ascending does.
LEMMA AscendingLists ==
    ASSUME NEW S \in SUBSET Nat, IsFiniteSet(S)
    PROVE  Lists(Ascending(S), S)
<1> DEFINE Bad(T) == ~ \E s : Lists(s, T)
           sizes == {Cardinality(T) : T \in {U \in SUBSET S : Bad(U)}}
<1>1. \A T \in SUBSET S : IsFiniteSet(T) /\ Cardinality(T) \in Nat
  BY FS_Subset, FS_CardinalityType
<1>2. sizes \subseteq Nat
  BY <1>1
<1>3. sizes = {}
  <2> SUFFICES ASSUME sizes # {} PROVE FALSE
    OBVIOUS
  <2>1. PICK least \in sizes : \A other \in sizes : least <= other
    <3> HIDE DEF sizes
    <3> QED
      BY <1>2, LeastNatural
  <2>2. PICK T \in SUBSET S : Bad(T) /\ least = Cardinality(T)
    BY <2>1
  <2>3. T \in SUBSET Nat /\ IsFiniteSet(T) /\ Cardinality(T) \in Nat
    BY <1>1
  <2>4. CASE T = {}
    <3>1. Cardinality(T) = 0
      BY <2>4, FS_EmptySet
    <3>2. <<>> \in [1..0 -> T] /\ DOMAIN <<>> = 1..0 /\ \A a \in 1..0 : FALSE
      OBVIOUS
    <3>3. Lists(<<>>, T)
      BY <2>4, <3>1, <3>2 DEF Lists
    <3> QED
      BY <2>2, <3>3
  <2>5. CASE T # {}
    <3>1. PICK m \in T : \A i \in T : m <= i
      BY <2>3, <2>5, LeastNatural
    <3>2. Cardinality(T \ {m}) < least
      <4>1. Cardinality(T \ {m}) = Cardinality(T) - 1
        BY <2>3, FS_RemoveElement
      <4> QED
        BY <2>2, <2>3, <4>1
    <3>3. T \ {m} \in SUBSET S /\ Cardinality(T \ {m}) \in Nat
      BY <1>1
    <3>4. ~Bad(T \ {m})
      <4>1. Bad(T \ {m}) => Cardinality(T \ {m}) \in sizes
        BY <3>3
      <4>2. Cardinality(T \ {m}) \notin sizes
        <5> HIDE DEF sizes
        <5>1. least \in Nat
          BY <1>2
        <5> QED
          BY <2>1, <3>2, <3>3, <5>1
      <4> QED
        BY <4>1, <4>2
    <3>5. PICK s : Lists(s, T \ {m})
      BY <3>4
    <3>6. \E t : Lists(t, T)
      BY <2>3, <3>1, <3>5, LeastFirst
    <3> QED
      BY <2>2, <3>6
  <2> QED
    BY <2>4, <2>5
<1>4. \E s : Lists(s, S)
  BY <1>3
<1>5. \E s \in [1..Cardinality(S) -> S] :
         /\ \A i \in S : \E a \in DOMAIN s : s[a] = i
         /\ \A a, b \in DOMAIN s : a < b => s[a] < s[b]
  BY <1>4 DEF Lists
<1> QED
  BY <1>5 DEF Ascending, Lists

\* In an ascending list the numbers lie at least as far apart as their places.
LEMMA AscendingSpreads ==
    ASSUME NEW n \in Nat, NEW s \in [1..n -> Nat],
           \A a, b \in 1..n : a < b => s[a] < s[b],
           NEW a \in 1..n, NEW b \in 1..n, a <= b
    PROVE  b - a <= s[b] - s[a]
<1> DEFINE close == {c \in 1..n : a <= c /\ ~(c - a <= s[c] - s[a])}
<1> SUFFICES close = {}
  OBVIOUS
<1> SUFFICES ASSUME close # {} PROVE FALSE
  OBVIOUS
<1>1. close \subseteq Nat
  OBVIOUS
<1>2. PICK c \in close : \A d \in close : c <= d
  <2> HIDE DEF close
  <2> QED
    BY <1>1, LeastNatural
<1>3. /\ c \in 1..n /\ a <= c /\ ~(c - a <= s[c] - s[a]) /\ s[a] \in Nat /\ s[c] \in Nat
  OBVIOUS
<1>4. c # a
  BY <1>3
<1>5. c - 1 \in 1..n /\ a <= c - 1 /\ c - 1 < c
  BY <1>3, <1>4
<1>6. c - 1 \notin close
  <2> HIDE DEF close
  <2> QED
    BY <1>2, <1>3, <1>5
<1>7. (c - 1) - a <= s[c - 1] - s[a] /\ s[c - 1] \in Nat
  BY <1>5, <1>6
<1>8. s[c - 1] < s[c]
  BY <1>3, <1>5
<1> QED
  BY <1>3, <1>7, <1>8

\* Compaction returns lines of the list, and of these all that are not outdated.
LEMMA CompactKeeps ==
    ASSUME NEW S, NEW lines \in Seq(S)
    PROVE  /\ Compact(lines) \in Seq(S)
           /\ \A line \in Range(lines) : line \in Range(Compact(lines)) \/ Outdated(lines, line)
<1> DEFINE ends == RunEnds(lines)
           last == Ascending(ends)
           n == Cardinality(ends)
           done == WithoutRepeats(lines)
           from == IF n < Keep THEN 1 ELSE n - Keep + 1
<1>1. PICK len \in Nat : len = Len(lines) /\ DOMAIN lines = 1..len
  OBVIOUS
<1>2. ends \subseteq 1..len /\ ends \in SUBSET Nat /\ IsFiniteSet(ends) /\ Cardinality(ends) \in Nat
  <2>1. ends \subseteq 1..len
    BY <1>1 DEF RunEnds
  <2>2. IsFiniteSet(1..len)
    BY FS_Interval
  <2> HIDE DEF ends
  <2>3. IsFiniteSet(ends)
    BY <2>1, <2>2, FS_Subset
  <2> QED
    BY <2>1, <2>3, FS_CardinalityType
<1>3. /\ last \in [1..n -> ends]
      /\ \A i \in ends : \E a \in 1..n : last[a] = i
      /\ \A a, b \in 1..n : a < b => last[a] < last[b]
  <2> HIDE DEF ends
  <2> QED
    BY <1>2, AscendingLists DEF Lists
<1>4. done = [k \in 1..n |-> lines[last[k]]]
  BY DEF WithoutRepeats
<1> HIDE DEF ends, last, n
<1>5. n \in Nat
  BY <1>2 DEF n
<1>6. \A k \in 1..n : last[k] \in 1..len /\ lines[last[k]] \in S
  <2> TAKE k \in 1..n
  <2>1. last[k] \in 1..len
    BY <1>2, <1>3
  <2>2. \A i \in 1..len : lines[i] \in S
    BY <1>1
  <2> QED
    BY <2>1, <2>2
<1>7. done \in Seq(S) /\ Len(done) = n /\ \A k \in 1..n : done[k] = lines[last[k]]
  <2>1. [k \in 1..n |-> lines[last[k]]] \in Seq(S)
    BY <1>5, <1>6
  <2>2. Len([k \in 1..n |-> lines[last[k]]]) = n
    BY <1>5
  <2> QED
    BY <1>4, <2>1, <2>2
<1> HIDE DEF done
<1>8. Keep \in Nat /\ Keep >= 1
  BY FilesAssumption
<1>9. from \in 1..(n + 1) /\ n - from + 1 <= Keep
  BY <1>5, <1>8
<1>10. Compact(lines) = SubSeq(done, from, n)
  BY <1>7 DEF Compact, done
<1> HIDE DEF from
<1>11. /\ SubSeq(done, from, n) \in Seq(S) /\ Len(SubSeq(done, from, n)) = n - from + 1
       /\ \A k \in 1..(n - from + 1) : SubSeq(done, from, n)[k] = done[from + k - 1]
  BY <1>5, <1>7, <1>9
<1>12. ASSUME NEW line \in Range(lines), ~Outdated(lines, line)
       PROVE  line \in Range(SubSeq(done, from, n))
  <2>1. PICK i \in 1..len : lines[i] = line
    BY <1>1, <1>12 DEF Range
  <2>2. len - i < Keep /\ (i < len => lines[i + 1].text # lines[i].text)
    BY <1>1, <1>8, <1>12, <2>1 DEF Outdated
  <2>3. i \in ends
    BY <1>1, <2>2 DEF ends, RunEnds
  <2>4. PICK k \in 1..n : last[k] = i
    BY <1>3, <2>3
  <2>5. n - k <= len - i
    <3>1. n \in 1..n /\ k <= n /\ last[n] \in 1..len
      BY <1>5, <1>6, <2>4
    <3>2. last \in [1..n -> Nat]
      BY <1>3, <1>6
    <3>3. n - k <= last[n] - last[k]
      BY <1>3, <1>5, <3>1, <3>2, AscendingSpreads
    <3> QED
      BY <1>1, <2>1, <2>4, <3>1, <3>3
  <2>6. k >= from
    <3>1. n - k < Keep
      BY <1>1, <1>5, <1>8, <2>2, <2>5
    <3> QED
      BY <1>5, <1>8, <2>4, <3>1 DEF from
  <2>7. k - from + 1 \in 1..(n - from + 1) /\ from + (k - from + 1) - 1 = k
    BY <1>5, <1>9, <2>4, <2>6
  <2>8. SubSeq(done, from, n)[k - from + 1] = line
    BY <1>7, <1>11, <2>1, <2>4, <2>7
  <2>9. DOMAIN SubSeq(done, from, n) = 1..(n - from + 1)
    BY <1>11
  <2> QED
    BY <2>7, <2>8, <2>9 DEF Range
<1> QED
  BY <1>10, <1>11, <1>12

\* What a process that rewrites the history holds: what is left of what it read.
HistoryInv ==
    /\ at \in [Procs -> Places] /\ history \in Seq(Lines) /\ entered \in Nat
    /\ raw \in [Procs -> Seq(Lines)] /\ kept \in [Procs -> Seq(Lines)]
    /\ \A p \in Procs : at[p] \in {"loading", "truncated"} => kept[p] = Compact(raw[p])

\* HistoryInv is inductive.
LEMMA HistoryStep == ASSUME HistoryInv, [Next]_vars PROVE HistoryInv'
<1>1. CASE UNCHANGED vars
  BY <1>1 DEF HistoryInv, vars
<1>2. ASSUME NEW p \in Procs, NEW t \in Texts, AppendLine(p, t) PROVE HistoryInv'
  <2>1. [n |-> entered + 1, text |-> t] \in Lines
    BY <1>2, FilesAssumption DEF AppendLine, Lines, HistoryInv
  <2>2. history' \in Seq(Lines) /\ entered' \in Nat
    BY <1>2, <2>1 DEF AppendLine, HistoryInv
  <2> QED
    BY <1>2, <2>2 DEF AppendLine, HistoryInv
<1>3. ASSUME NEW p \in Procs, LoadReads(p) PROVE HistoryInv'
  <2>1. Compact(history) \in Seq(Lines)
    BY CompactKeeps DEF HistoryInv
  <2>2. /\ at' = [at EXCEPT ![p] = "loading"] /\ raw' = [raw EXCEPT ![p] = history]
        /\ kept' = [kept EXCEPT ![p] = Compact(history)]
        /\ history' = history /\ entered' = entered
    BY <1>3 DEF LoadReads
  <2>3. /\ at'[p] = "loading" /\ raw'[p] = history /\ kept'[p] = Compact(history)
        /\ \A q \in Procs \ {p} : at'[q] = at[q] /\ raw'[q] = raw[q] /\ kept'[q] = kept[q]
    BY <2>2 DEF HistoryInv
  <2>4. \A q \in Procs : at'[q] \in {"loading", "truncated"} => kept'[q] = Compact(raw'[q])
    BY <2>3 DEF HistoryInv
  <2>5. at' \in [Procs -> Places] /\ raw' \in [Procs -> Seq(Lines)] /\ kept' \in [Procs -> Seq(Lines)]
    BY <2>1, <2>2 DEF HistoryInv, Places
  <2> QED
    BY <2>2, <2>4, <2>5 DEF HistoryInv, Compact, WithoutRepeats, RunEnds, Ascending
<1>4. ASSUME NEW p \in Procs, LoadTruncates(p) PROVE HistoryInv'
  BY <1>4 DEF LoadTruncates, HistoryInv, Places
<1>5. ASSUME NEW p \in Procs, LoadWrites(p) PROVE HistoryInv'
  <2>1. history' \in Seq(Lines)
    <3>1. CASE history' = history
      BY <3>1 DEF HistoryInv
    <3>2. CASE history' # history
      <4>1. PICK k \in 2..(Len(history) + 1) \cup {Len(history) + 1} :
               history' = kept[p] \o SubSeq(history, k, Len(history))
        BY <1>5, <3>2 DEF LoadWrites
      <4>2. PICK h \in Seq(Lines), w \in Seq(Lines) : h = history /\ w = kept[p]
        BY DEF HistoryInv
      <4>3. k \in Nat \ {0} /\ Len(h) \in Nat
        BY <4>1, <4>2
      <4>4. SubSeq(h, k, Len(h)) \in Seq(Lines)
        BY <4>3
      <4> QED
        BY <4>1, <4>2, <4>4
    <3> QED
      BY <3>1, <3>2
  <2>2. <<>> \in Seq(Lines)
    OBVIOUS
  <2> QED
    BY <1>5, <2>1, <2>2 DEF LoadWrites, HistoryInv, Places
<1>6. ASSUME NEW p \in Procs, Dies(p) PROVE HistoryInv'
  <2>1. <<>> \in Seq(Lines)
    OBVIOUS
  <2> QED
    BY <1>6, <2>1 DEF Dies, HistoryInv, Places
<1>7. ASSUME NEW p \in Procs,
             \/ \E i \in Ids : AppendMemory(p, i) \/ \E m \in memory : SupersedeReads(p, m, i)
             \/ SupersedeRenames(p)
      PROVE  HistoryInv'
  BY <1>7 DEF AppendMemory, SupersedeReads, SupersedeRenames, HistoryInv, Places, historyVars
<1> QED
  BY <1>1, <1>2, <1>3, <1>4, <1>5, <1>6, <1>7 DEF Next

\* A process that holds what it will write does not hold what it did not read, or
\* what was outdated.
LEMMA NotKept ==
    ASSUME HistoryInv, NEW p \in Procs, at[p] \in {"loading", "truncated"},
           NEW line, line \notin Range(kept[p])
    PROVE  line \notin Range(raw[p]) \/ Outdated(raw[p], line)
<1>1. raw[p] \in Seq(Lines) /\ kept[p] = Compact(raw[p])
  BY DEF HistoryInv
<1> QED
  BY <1>1, CompactKeeps

\* Lines come and go with the file and with what processes have in their hands.
LEMMA PresentLines ==
    ASSUME NEW line
    PROVE  /\ line \in Present <=> \/ line \in Range(history)
                                   \/ \E p \in Procs : at[p] = "truncated" /\ line \in Range(kept[p])
           /\ line \in Present' <=> \/ line \in Range(history')
                                    \/ \E p \in Procs : at'[p] = "truncated" /\ line \in Range(kept'[p])
BY DEF Present, Range

\* A line that no step of the prompt history touches stays.
LEMMA HistoryLosses ==
    ASSUME HistoryInv, [Next]_vars, NEW line \in Present \ Present'
    PROVE  \E p \in Procs :
              \/ at[p] = "truncated" /\ at'[p] = "gone"
              \/ /\ at[p] \in {"loading", "truncated"}
                 /\ line \notin Range(raw[p]) \/ Outdated(raw[p], line)
<1>1. /\ at \in [Procs -> Places] /\ history \in Seq(Lines)
      /\ raw \in [Procs -> Seq(Lines)] /\ kept \in [Procs -> Seq(Lines)]
  BY DEF HistoryInv
<1>2. \/ line \in Range(history)
      \/ \E p \in Procs : at[p] = "truncated" /\ line \in Range(kept[p])
  BY PresentLines
<1>3. line \notin Range(history') /\ \A p \in Procs : at'[p] = "truncated" => line \notin Range(kept'[p])
  BY PresentLines
<1>4. CASE UNCHANGED <<history, kept>> /\ \A p \in Procs : at[p] = "truncated" => at'[p] = "truncated"
  BY <1>2, <1>3, <1>4
<1>5. CASE UNCHANGED vars
  BY <1>4, <1>5 DEF vars
<1>6. ASSUME NEW p \in Procs, NEW t \in Texts, AppendLine(p, t) PROVE FALSE
  <2>1. PICK x : history' = Append(history, x) /\ at' = at /\ kept' = kept
    BY <1>6 DEF AppendLine
  <2>2. PICK h \in Seq(Lines) : h = history
    BY <1>1
  <2>3. /\ DOMAIN Append(h, x) = 1..(Len(h) + 1) /\ DOMAIN h = 1..Len(h) /\ Len(h) \in Nat
        /\ \A i \in 1..Len(h) : Append(h, x)[i] = h[i]
    OBVIOUS
  <2>4. Range(history) \subseteq Range(history')
    BY <2>1, <2>2, <2>3 DEF Range
  <2> QED
    BY <1>2, <1>3, <2>1, <2>4
<1>7. ASSUME NEW p \in Procs, LoadReads(p) PROVE FALSE
  <2>1. /\ at[p] = "idle" /\ history' = history /\ at' = [at EXCEPT ![p] = "loading"]
        /\ kept' = [kept EXCEPT ![p] = Compact(history)]
    BY <1>7 DEF LoadReads
  <2>2. \A q \in Procs : at[q] = "truncated" => at'[q] = "truncated" /\ kept'[q] = kept[q]
    BY <1>1, <2>1
  <2> QED
    BY <1>2, <1>3, <2>1, <2>2
<1>8. ASSUME NEW p \in Procs, LoadTruncates(p)
      PROVE  at[p] = "loading" /\ (line \notin Range(raw[p]) \/ Outdated(raw[p], line))
  <2>1. at[p] = "loading" /\ at' = [at EXCEPT ![p] = "truncated"] /\ kept' = kept
    BY <1>8 DEF LoadTruncates
  <2>2. at'[p] = "truncated"
    BY <1>1, <2>1
  <2>3. line \notin Range(kept[p])
    BY <1>3, <2>1, <2>2
  <2> QED
    BY <2>1, <2>3, NotKept
<1>9. ASSUME NEW p \in Procs, LoadWrites(p)
      PROVE  at[p] = "truncated" /\ (line \notin Range(raw[p]) \/ Outdated(raw[p], line))
  <2>1. at[p] = "truncated" /\ at' = [at EXCEPT ![p] = "idle"] /\ kept' = [kept EXCEPT ![p] = <<>>]
    BY <1>9 DEF LoadWrites
  <2>2. line \notin Range(kept[p])
    <3> SUFFICES ASSUME line \in Range(kept[p]) PROVE line \in Range(history')
      BY <1>3
    <3>1. PICK w \in Seq(Lines), h \in Seq(Lines) : w = kept[p] /\ h = history
      BY <1>1
    <3>2. w # <<>>
      BY <3>1 DEF Range
    <3>3. PICK k \in 2..(Len(h) + 1) \cup {Len(h) + 1} : history' = w \o SubSeq(h, k, Len(h))
      BY <1>9, <3>1, <3>2 DEF LoadWrites
    <3>4. k \in Nat \ {0} /\ Len(h) \in Nat
      BY <3>1
    <3>5. PICK rest \in Seq(Lines) : rest = SubSeq(h, k, Len(h))
      <4>1. SubSeq(h, k, Len(h)) \in Seq(Lines)
        BY <3>4
      <4> QED
        BY <4>1
    <3>6. /\ DOMAIN (w \o rest) = 1..(Len(w) + Len(rest)) /\ DOMAIN w = 1..Len(w)
          /\ Len(w) \in Nat /\ Len(rest) \in Nat
          /\ \A i \in 1..Len(w) : (w \o rest)[i] = w[i]
      OBVIOUS
    <3>7. Range(w) \subseteq Range(w \o rest)
      BY <3>6 DEF Range
    <3> QED
      BY <3>1, <3>3, <3>5, <3>7
  <2> QED
    BY <2>1, <2>2, NotKept
<1>10. ASSUME NEW p \in Procs, Dies(p) PROVE at[p] = "truncated" /\ at'[p] = "gone"
  <2>1. history' = history /\ at' = [at EXCEPT ![p] = "gone"] /\ kept' = [kept EXCEPT ![p] = <<>>]
    BY <1>10 DEF Dies
  <2>2. at'[p] = "gone" /\ \A q \in Procs \ {p} : at'[q] = at[q] /\ kept'[q] = kept[q]
    BY <1>1, <2>1
  <2> QED
    BY <1>2, <1>3, <2>1, <2>2
<1>11. ASSUME NEW p \in Procs,
              \/ \E i \in Ids : AppendMemory(p, i) \/ \E m \in memory : SupersedeReads(p, m, i)
              \/ SupersedeRenames(p)
       PROVE  FALSE
  <2>1. UNCHANGED <<history, kept>>
    BY <1>11 DEF AppendMemory, SupersedeReads, SupersedeRenames, historyVars
  <2>2. \A q \in Procs : at[q] = "truncated" => at'[q] = "truncated"
    BY <1>1, <1>11 DEF AppendMemory, SupersedeReads, SupersedeRenames
  <2> QED
    BY <1>2, <1>3, <2>1, <2>2
<1> QED
  BY <1>5, <1>6, <1>7, <1>8, <1>9, <1>10, <1>11 DEF Next

\* An entry leaves the memory only by the rename of a process that had not seen it.
LEMMA MemoryLosses ==
    ASSUME [Next]_vars, saw \in [Procs -> SUBSET Entries],
           NEW m \in memory, \A k \in memory' : k.id # m.id
    PROVE  \E p \in Procs : at[p] = "superseding" /\ \A k \in saw[p] : k.id # m.id
<1>1. m \notin memory'
  OBVIOUS
<1>2. ASSUME NEW p \in Procs, SupersedeRenames(p)
      PROVE  at[p] = "superseding" /\ \A k \in saw[p] : k.id # m.id
  <2>1. at[p] = "superseding" /\ memory' = Superseded(saw[p], target[p], new[p])
    BY <1>2 DEF SupersedeRenames
  <2>2. ASSUME NEW k \in saw[p] PROVE k.id # m.id
    <3> DEFINE marked == IF k.id = target[p] THEN [k EXCEPT !.active = FALSE] ELSE k
    <3>1. k \in Entries
      OBVIOUS
    <3>2. marked.id = k.id
      BY <3>1 DEF Entries
    <3>3. marked \in memory'
      BY <2>1 DEF Superseded
    <3> QED
      BY <3>2, <3>3
  <2> QED
    BY <2>1, <2>2
<1>3. ASSUME NEW p \in Procs,
             \/ \E i \in Ids : AppendMemory(p, i) \/ \E x \in memory : SupersedeReads(p, x, i)
             \/ \E t \in Texts : AppendLine(p, t)
             \/ LoadReads(p) \/ LoadTruncates(p) \/ LoadWrites(p) \/ Dies(p)
      PROVE  FALSE
  BY <1>1, <1>3 DEF AppendMemory, SupersedeReads, AppendLine, LoadReads, LoadTruncates, LoadWrites,
                    Dies, memoryVars
<1>4. CASE UNCHANGED vars
  BY <1>1, <1>4 DEF vars
<1> QED
  BY <1>2, <1>3, <1>4 DEF Next

\* LossExplained: a memory entry vanishes only in a rename of a process that read
\* the file without it, a history line only if compaction may drop it, if a
\* process writes the file that read it without the line, or if one dies with
\* the file emptied.
THEOREM LossesExplained == Spec => LossExplained
<1>1. Init => HistoryInv
  <2>1. <<>> \in Seq(Lines)
    OBVIOUS
  <2> QED
    BY <2>1 DEF Init, HistoryInv, Places
<1>2. MemoryInv /\ HistoryInv /\ [Next]_vars =>
         [/\ \A m \in memory :
                (\A k \in memory' : k.id # m.id) =>
                    \E p \in Procs : at[p] = "superseding" /\ \A k \in saw[p] : k.id # m.id
          /\ \A line \in Present \ Present' :
                \E p \in Procs :
                    \/ at[p] = "truncated" /\ at'[p] = "gone"
                    \/ /\ at[p] \in {"loading", "truncated"}
                       /\ line \notin Range(raw[p]) \/ Outdated(raw[p], line)]_vars
  BY MemoryLosses, HistoryLosses DEF MemoryInv
<1> QED
  BY <1>1, <1>2, MemoryBegins, MemoryStep, HistoryStep, PTL DEF Spec, LossExplained

-----------------------------------------------------------------------------
(* BuildProgram *)

\* What was compiled is a source that was there after the save and is good.
Compiled == read \in good \ {0, None}

\* Nothing has been sent to D3, and nothing saved.
Untouched == ~saved /\ task = "none" /\ read = None /\ ~catalogued /\ output = "none"

\* What the step of the caller says of D3 while it waits.
AtStep ==
    /\ pc # "done" => told = "none"
    /\ pc \in {"begin", "save"} => Untouched
    /\ pc = "save" => kind = "build"
    /\ pc = "compile" => /\ "compile" \in wants
                         /\ task = "none" /\ read = None /\ ~catalogued /\ output = "none"
    /\ pc = "compiling" => /\ "compile" \in wants \ refused
                           /\ task \in {"basic", "compiling"}
    /\ pc \in {"catalog", "cataloging"} =>
          /\ "catalog" \in wants
          /\ "compile" \in wants => "compile" \notin refused
          /\ output # "errors" /\ (kind = "build" => Compiled)
          /\ task = IF pc = "catalog" THEN "none" ELSE "catalog"
          /\ pc = "cataloging" => "catalog" \notin refused

\* What D3 does for us, also when the caller has given up.
AtD3 ==
    /\ task = "basic" => read = None /\ ~catalogued /\ output = "none"
    /\ task = "compiling" => read # None /\ ~catalogued
    /\ task = "catalog" \/ catalogued => output # "errors" /\ (kind = "build" => Compiled)

\* What the tool does is allowed and of its own source or a later one.
OfTheTool ==
    /\ written >= 1
    /\ saved => source # 0 /\ refused \cap wants = {} /\ kind = "build"
    /\ kind = "build" /\ pc \in {"compile", "compiling", "catalog", "cataloging"} => saved
    /\ kind = "build" /\ pc \notin {"begin", "done"} =>
          /\ refused \cap (wants \cup {"write"}) = {}
          /\ "catalog" \in wants => "compile" \in wants
    /\ kind = "build" /\ (task # "none" \/ read # None) => saved
    /\ kind = "build" => read # 0

\* What was told: see ToldIsTrue.
AsTold ==
    /\ told \in {"refused", "conflict"} => Untouched
    /\ told \in {"unknown", "warning", "built", "ready"} => task = "none"
    /\ told = "unknown" => read = None /\ ~catalogued
    /\ told = "warning" => saved /\ read \notin good \cup {0, None} /\ ~catalogued
    /\ told = "built" => /\ saved
                         /\ "compile" \in wants => Compiled
                         /\ "catalog" \in wants => catalogued
    /\ told = "ready" => lint /\ output # "errors" /\ refused \cap wants = {}

BuildInv == Build!TypeOK /\ AtStep /\ AtD3 /\ OfTheTool /\ AsTold

\* The numbers of sources.
LEMMA SourceNumbers ==
    /\ None \notin Build!Sources /\ Build!Sources \subseteq Nat
    /\ 0 \in Build!Sources /\ 1 \in Build!Sources
    /\ \A w \in Build!Sources : w < MaxSource => w + 1 \in Build!Sources
BY PartsAssumption DEF Build!Sources

\* A step of the build keeps the invariant.
LEMMA BuildStep ==
    ASSUME BuildInv, [Build!Next]_Build!vars
    PROVE  BuildInv'
<1> USE DEF BuildInv, Build!TypeOK, AtStep, AtD3, OfTheTool, AsTold, Compiled,
     Untouched, Build!chosen, Build!program, Build!Steps
<1>1. CASE Build!BuildBegins
  BY <1>1 DEF Build!BuildBegins, Build!Tell, Build!Allowed
<1>2. CASE Build!SaveServed
  <2> USE <1>2 DEF Build!SaveServed, Build!Tell, Build!Proceed, Build!Mine
  <2>1. Build!TypeOK'
    BY SourceNumbers
  <2>2. OfTheTool'
    BY SourceNumbers
  <2>3. AtStep' /\ AtD3' /\ AsTold'
    OBVIOUS
  <2> QED
    BY <2>1, <2>2, <2>3 DEF BuildInv
<1>3. CASE Build!SaveUnknown
  <2> USE <1>3 DEF Build!SaveUnknown, Build!Tell, Build!Mine
  <2>1. Build!TypeOK'
    BY SourceNumbers
  <2>2. OfTheTool'
    BY SourceNumbers
  <2>3. AtStep' /\ AtD3' /\ AsTold'
    OBVIOUS
  <2> QED
    BY <2>1, <2>2, <2>3 DEF BuildInv
<1>4. CASE Build!CheckBegins
  BY <1>4 DEF Build!CheckBegins, Build!Tell, Build!Proceed
<1>5. CASE Build!SendBasic
  BY <1>5 DEF Build!SendBasic, Build!Send, Build!Stop, Build!Tell
<1>6. CASE Build!SendCatalog
  BY <1>6 DEF Build!SendCatalog, Build!Send, Build!Stop, Build!Tell
<1>7. CASE Build!BasicReads
  BY <1>7, SourceNumbers DEF Build!BasicReads
<1>8. CASE Build!BasicEnds
  BY <1>8 DEF Build!BasicEnds, Build!Clean, Build!Proceed, Build!Tell
<1>9. CASE Build!CatalogEnds
  BY <1>9 DEF Build!CatalogEnds, Build!Tell
<1>10. CASE Build!GiveUp
  BY <1>10 DEF Build!GiveUp, Build!Stop, Build!Tell
<1>11. CASE Build!OtherWrites
  <2> USE <1>11 DEF Build!OtherWrites
  <2>1. Build!TypeOK'
    BY SourceNumbers
  <2>2. OfTheTool'
    <3>1. written \in Nat
      BY SourceNumbers
    <3>2. written' >= 1 /\ source' # 0
      BY ONLY <1>11, <3>1 DEF Build!OtherWrites
    <3> QED
      BY <3>2
  <2>3. AtStep' /\ AtD3' /\ AsTold'
    OBVIOUS
  <2> QED
    BY <2>1, <2>2, <2>3 DEF BuildInv
<1>12. CASE UNCHANGED Build!vars
  <2> USE <1>12 DEF Build!vars
  <2>1. Build!TypeOK'
    BY SourceNumbers
  <2>2. OfTheTool'
    BY SourceNumbers
  <2>3. AtStep' /\ AtD3' /\ AsTold'
    OBVIOUS
  <2> QED
    BY <2>1, <2>2, <2>3 DEF BuildInv
<1> QED
  BY <1>1, <1>2, <1>3, <1>4, <1>5, <1>6, <1>7, <1>8, <1>9, <1>10, <1>11, <1>12
  DEF Build!Next

\* ToldIsTrue: what the tool says of the program is so, and stays so while D3
\* works on after it gave up, however many others write the source.
THEOREM BuildTellsTrue == Build!Spec => []ToldIsTrue
<1>1. Build!Init => BuildInv
  <2> SUFFICES ASSUME Build!Init PROVE BuildInv
    OBVIOUS
  <2>1. Build!TypeOK
    BY SourceNumbers DEF Build!Init, Build!TypeOK, Build!Steps
  <2>2. AtStep /\ AtD3 /\ AsTold /\ OfTheTool
    BY SourceNumbers DEF Build!Init, AtStep, AtD3, AsTold, OfTheTool, Untouched
  <2> QED
    BY <2>1, <2>2 DEF BuildInv
<1>2. BuildInv => ToldIsTrue
  BY DEF BuildInv, AtStep, AtD3, OfTheTool, AsTold, Compiled, Untouched, ToldIsTrue,
     Build!ToldIsTrue
<1> QED
  BY <1>1, <1>2, BuildStep, PTL DEF Build!Spec

-----------------------------------------------------------------------------
(* ModelStream *)

\* The lines that have arrived with their line break, and with their data.
Ended == {line \in DOMAIN reply : 4 * line <= arrived}
Whole == {line \in DOMAIN reply : 4 * line - 1 <= arrived}

\* While the stream is open the lines that ended have been parsed, and the rest is
\* kept.  Then the lines whose data arrived are parsed, and the calls come of them.
StreamInv ==
    /\ reply \in Replies /\ arrived \in Nat
    /\ stage \in {"open", "read", "failed"}
    /\ stage = "open" =>
          /\ handled = Ended /\ run = {}
          /\ buffer = {u \in 1 .. arrived : \A line \in Ended : u \notin Stream!Units(line)}
    /\ stage = "read" => handled = Whole /\ run = Stream!RunOf(Whole)
    /\ stage = "failed" => run = {}

\* The elements of a sequence are numbered from 1 and in its set.
LEMMA ElementsOfSequence ==
    ASSUME NEW S, NEW s \in Seq(S)
    PROVE  DOMAIN s \subseteq Nat \ {0} /\ \A i \in DOMAIN s : s[i] \in S
<1>1. DOMAIN s = 1 .. Len(s) /\ Len(s) \in Nat
  OBVIOUS
<1>2. \A i \in 1 .. Len(s) : i \in Nat \ {0}
  BY <1>1
<1>3. \A i \in 1 .. Len(s) : s[i] \in S
  OBVIOUS
<1> QED
  BY <1>1, <1>2, <1>3

\* The lines of a reply are numbered.
LEMMA LinesOfReply ==
    ASSUME reply \in Replies
    PROVE  /\ DOMAIN reply \subseteq Nat \ {0}
           /\ \A line \in DOMAIN reply :
                 reply[line] \in [kind : ReplyKinds, call : Tools \cup {Default}]
<1>1. reply \in Seq([kind : ReplyKinds, call : Tools \cup {Default}])
  BY PartsAssumption
<1> QED
  BY <1>1, ElementsOfSequence

\* Four units make a line, and no unit is of two.
LEMMA UnitsOfLine ==
    ASSUME NEW line \in Nat \ {0}
    PROVE  /\ Stream!Units(line) = {4 * line - 3, 4 * line - 2, 4 * line - 1, 4 * line}
           /\ Stream!Prefix(line) = 4 * line - 3 /\ Stream!Break(line) = 4 * line
           /\ Stream!Json(line) = {4 * line - 2, 4 * line - 1}
           /\ \A other \in Nat \ {0} : \A u \in Stream!Units(line) :
                 u \in Stream!Units(other) => other = line
BY DEF Stream!Units, Stream!Prefix, Stream!Break, Stream!Json

\* What has been kept: the units of lines that have not ended.
LEMMA KeptUnits ==
    ASSUME StreamInv, stage = "open", NEW line \in DOMAIN reply, NEW u \in Stream!Units(line)
    PROVE  u \in buffer <=> u <= arrived /\ arrived < 4 * line
<1>1. line \in Nat \ {0} /\ DOMAIN reply \subseteq Nat \ {0} /\ arrived \in Nat
  BY LinesOfReply DEF StreamInv
<1>2. u \in Nat \ {0} /\ u <= 4 * line
  <2>1. u \in {4 * line - 3, 4 * line - 2, 4 * line - 1, 4 * line}
    BY <1>1, UnitsOfLine
  <2> QED
    BY <1>1, <2>1
<1>3. (\A other \in Ended : u \notin Stream!Units(other)) <=> line \notin Ended
  <2>1. \A other \in Ended : other \in Nat \ {0}
    BY <1>1 DEF Ended
  <2> QED
    BY <1>1, <2>1, UnitsOfLine
<1>4. u \in 1 .. arrived <=> u <= arrived
  BY <1>1, <1>2
<1>5. line \in Ended <=> ~(arrived < 4 * line)
  BY <1>1 DEF Ended
<1> QED
  BY <1>3, <1>4, <1>5 DEF StreamInv

\* A chunk ends lines whose units are all there, and keeps the others.
LEMMA ChunkStep ==
    ASSUME StreamInv, NEW n \in Nat \ {0}, Stream!Chunk(n)
    PROVE  StreamInv'
<1> DEFINE text == buffer \cup (arrived + 1) .. (arrived + n)
           ended == {line \in DOMAIN reply : Stream!Break(line) \in text}
<1>1. /\ stage = "open" /\ arrived' = arrived + n
      /\ buffer' = text \ UNION {Stream!Units(line) : line \in ended}
      /\ handled' = handled \cup {line \in ended : Stream!Parsed(line, text)}
      /\ UNCHANGED <<reply, indexed, stage, run>>
  BY DEF Stream!Chunk
<1>2. arrived \in Nat /\ reply \in Replies
  BY DEF StreamInv
<1>3. ASSUME NEW line \in DOMAIN reply, NEW u \in Stream!Units(line)
      PROVE  u \in text <=> u <= arrived + n /\ arrived < 4 * line
  <2>1. line \in Nat \ {0}
    BY <1>2, LinesOfReply
  <2>2. u \in {4 * line - 3, 4 * line - 2, 4 * line - 1, 4 * line}
    BY <2>1, UnitsOfLine
  <2>3. u \in buffer <=> u <= arrived /\ arrived < 4 * line
    BY <1>1, KeptUnits
  <2> HIDE DEF text
  <2>4. u \in text <=> u \in buffer \/ u \in (arrived + 1) .. (arrived + n)
    BY DEF text
  <2> QED
    BY <1>2, <2>1, <2>2, <2>3, <2>4
<1>4. \A line \in DOMAIN reply : line \in ended <=> arrived < 4 * line /\ 4 * line <= arrived + n
  <2> TAKE line \in DOMAIN reply
  <2>1. line \in Nat \ {0}
    BY <1>2, LinesOfReply
  <2>2. 4 * line \in Stream!Units(line) /\ Stream!Break(line) = 4 * line
    BY <2>1, UnitsOfLine
  <2> QED
    BY <1>3, <2>2
<1>5. \A line \in ended : Stream!Parsed(line, text)
  <2> TAKE line \in ended
  <2>1. line \in Nat \ {0} /\ line \in DOMAIN reply
    BY <1>2, LinesOfReply
  <2>2. \A u \in Stream!Units(line) : u <= arrived + n
    <3>1. 4 * line <= arrived + n
      BY <1>4, <2>1
    <3>2. \A u \in {4 * line - 3, 4 * line - 2, 4 * line - 1, 4 * line} : u <= arrived + n
      BY <1>2, <2>1, <3>1
    <3> QED
      BY <2>1, <3>2, UnitsOfLine
  <2>3. Stream!Units(line) \subseteq text
    BY <1>3, <1>4, <2>1, <2>2
  <2> HIDE DEF text, ended
  <2>4. {Stream!Prefix(line)} \cup Stream!Json(line) \subseteq Stream!Units(line)
    BY <2>1, UnitsOfLine
  <2> QED
    BY <2>3, <2>4 DEF Stream!Parsed
<1>6. Ended' = Ended \cup ended
  <2>1. \A line \in DOMAIN reply : line \in Nat
    BY <1>2, LinesOfReply
  <2> HIDE DEF ended
  <2>2. ended \subseteq DOMAIN reply
    BY DEF ended
  <2>3. \A line \in DOMAIN reply : 4 * line <= arrived + n
                                 <=> 4 * line <= arrived \/ line \in ended
    BY <1>2, <1>4, <2>1
  <2> QED
    BY <1>1, <2>2, <2>3 DEF Ended
<1>7. handled' = Ended'
  BY <1>1, <1>5, <1>6 DEF StreamInv
<1>8. buffer' = {u \in 1 .. arrived' : \A line \in Ended' : u \notin Stream!Units(line)}
  <2> HIDE DEF text, ended
  <2>1. \A u : u \in buffer' <=> u \in text /\ \A line \in ended : u \notin Stream!Units(line)
    BY <1>1
  <2>2. \A u : u \in 1 .. arrived' <=> u \in 1 .. arrived \/ u \in (arrived + 1) .. (arrived + n)
    BY <1>1, <1>2
  <2>3. \A line \in Ended : \A u \in Stream!Units(line) : u \notin (arrived + 1) .. (arrived + n)
    <3> TAKE line \in Ended
    <3>1. line \in Nat \ {0} /\ 4 * line <= arrived
      BY <1>2, LinesOfReply DEF Ended
    <3>2. \A u \in {4 * line - 3, 4 * line - 2, 4 * line - 1, 4 * line} :
             u \notin (arrived + 1) .. (arrived + n)
      BY <1>2, <3>1
    <3> QED
      BY <3>1, <3>2, UnitsOfLine
  <2>4. \A u : u \in text <=>
          \/ u \in 1 .. arrived /\ \A line \in Ended : u \notin Stream!Units(line)
          \/ u \in (arrived + 1) .. (arrived + n)
    BY <1>1 DEF StreamInv, text
  <2>5. \A u : u \in buffer' <=>
          u \in 1 .. arrived' /\ \A line \in Ended' : u \notin Stream!Units(line)
    BY <1>6, <2>1, <2>2, <2>3, <2>4
  <2> QED
    BY <2>5
<1>9. arrived' \in Nat
  BY <1>1, <1>2
<1> QED
  BY <1>1, <1>7, <1>8, <1>9 DEF StreamInv

\* At the end of the stream what is left counts as a line.
LEMMA EndStep ==
    ASSUME StreamInv, Stream!End
    PROVE  StreamInv'
<1> DEFINE last == {line \in DOMAIN reply : Stream!Units(line) \cap buffer # {}}
<1>1. /\ stage = "open" /\ stage' \in {"failed", "read"}
      /\ handled' = handled \cup {line \in last : Stream!Parsed(line, buffer)}
      /\ run' = IF stage' = "read" THEN Stream!RunOf(handled') ELSE {}
      /\ UNCHANGED <<reply, indexed, arrived, buffer>>
  BY DEF Stream!End
<1>2. arrived \in Nat /\ reply \in Replies
  BY DEF StreamInv
<1>3. \A line \in DOMAIN reply :
         Stream!Parsed(line, buffer) <=> 4 * line - 1 <= arrived /\ arrived < 4 * line
  <2> TAKE line \in DOMAIN reply
  <2>1. line \in Nat \ {0}
    BY <1>2, LinesOfReply
  <2>2. /\ Stream!Prefix(line) = 4 * line - 3
        /\ Stream!Json(line) = {4 * line - 2, 4 * line - 1}
        /\ {4 * line - 3, 4 * line - 2, 4 * line - 1} \subseteq Stream!Units(line)
    BY <2>1, UnitsOfLine
  <2>3. \A u \in {4 * line - 3, 4 * line - 2, 4 * line - 1} :
           u \in buffer <=> u <= arrived /\ arrived < 4 * line
    BY <1>1, <2>2, KeptUnits
  <2>4. Stream!Parsed(line, buffer) <=>
           \A u \in {4 * line - 3, 4 * line - 2, 4 * line - 1} : u \in buffer
    BY <2>2 DEF Stream!Parsed
  <2> QED
    BY <1>2, <2>1, <2>3, <2>4
<1>4. \A line \in DOMAIN reply : Stream!Parsed(line, buffer) => line \in last
  <2> TAKE line \in DOMAIN reply
  <2>1. line \in Nat \ {0}
    BY <1>2, LinesOfReply
  <2>2. Stream!Prefix(line) \in Stream!Units(line)
    BY <2>1, UnitsOfLine
  <2> QED
    BY <2>2 DEF Stream!Parsed
<1>5. handled' = Whole
  <2>1. handled' = Ended \cup {line \in DOMAIN reply : Stream!Parsed(line, buffer)}
    BY <1>1, <1>4 DEF StreamInv
  <2>2. \A line \in DOMAIN reply : 4 * line - 1 <= arrived <=>
           4 * line <= arrived \/ (4 * line - 1 <= arrived /\ arrived < 4 * line)
    BY <1>2, LinesOfReply
  <2> QED
    BY <1>3, <2>1, <2>2 DEF Ended, Whole
<1>6. Whole' = Whole /\ Stream!RunOf(Whole)' = Stream!RunOf(Whole)
  BY <1>1 DEF Whole, Stream!RunOf, Stream!Named, Stream!Entry, Stream!Part, Stream!WellFormed,
     Stream!ArgumentsOf
<1> QED
  BY <1>1, <1>2, <1>5, <1>6 DEF StreamInv

\* A call runs with a line that names it, and with all of its arguments or none.
LEMMA CallsOfLines ==
    ASSUME reply \in Replies, NEW lines \in SUBSET DOMAIN reply,
           NEW call \in Stream!RunOf(lines)
    PROVE  /\ \E line \in lines : reply[line].call = call
           /\ \/ Stream!ArgumentsOf(call) \subseteq lines
              \/ Stream!ArgumentsOf(call) \cap lines = {}
<1>1. PICK e \in Tools \cup {Default} :
         /\ Stream!Named(e, lines) = {call} /\ call \in Tools
         /\ Stream!WellFormed(e, lines)
  BY DEF Stream!RunOf
<1>2. PICK m \in lines : /\ reply[m].call = call /\ Stream!Entry(m) = e
                         /\ reply[m].kind \in {"call", "message"}
  BY <1>1 DEF Stream!Named
<1> DEFINE arguments == {line \in lines : reply[line].kind = "args" /\ Stream!Entry(line) = e}
<1>3. arguments = {} \/ \E other \in Tools : arguments = Stream!ArgumentsOf(other)
  BY <1>1 DEF Stream!WellFormed
<1>4. \A line \in Stream!ArgumentsOf(call) : /\ line \in DOMAIN reply
                                             /\ reply[line].kind = "args"
                                             /\ reply[line].call = call
  BY DEF Stream!ArgumentsOf
<1>5. CASE Stream!Entry(m) = call /\ ~indexed
  <2>1. reply[m].kind = "message"
    BY <1>1, <1>2, <1>5, PartsAssumption DEF Stream!Entry, Stream!Part
  <2>2. Stream!ArgumentsOf(call) = {}
    BY <1>2, <1>4, <2>1, PartsAssumption
  <2> QED
    BY <1>2, <2>2
<1>6. CASE ~(Stream!Entry(m) = call /\ ~indexed)
  <2>1. \A line \in lines : reply[line].kind = "args" /\ reply[line].call = call
                               => Stream!Entry(line) = e
    BY <1>2, <1>6 DEF Stream!Entry, Stream!Part
  <2>2. Stream!ArgumentsOf(call) \cap lines \subseteq arguments
    BY <1>4, <2>1
  <2>3. CASE arguments = {}
    BY <1>2, <2>2, <2>3
  <2>4. ASSUME NEW other \in Tools, arguments = Stream!ArgumentsOf(other)
        PROVE  \/ Stream!ArgumentsOf(call) \subseteq lines
               \/ Stream!ArgumentsOf(call) \cap lines = {}
    <3>1. CASE other = call
      BY <2>4, <3>1
    <3>2. CASE other # call
      <4>1. \A line \in arguments : reply[line].call = other
        BY <2>4 DEF Stream!ArgumentsOf
      <4> QED
        BY <1>4, <2>2, <3>2, <4>1
    <3> QED
      BY <3>1, <3>2
  <2> QED
    BY <1>2, <1>3, <2>3, <2>4
<1> QED
  BY <1>5, <1>6

\* AnswerAsSent: however an answer is cut into chunks and wherever it ends, what
\* is read of it is the lines whose data arrived, and a call runs with all of its
\* arguments or, where none came, with none.
THEOREM AnswersAreRead == Stream!Spec => []AnswerAsSent
<1>1. Stream!Init => StreamInv
  <2> SUFFICES ASSUME Stream!Init PROVE StreamInv
    OBVIOUS
  <2>1. reply \in Replies /\ arrived = 0 /\ buffer = {} /\ handled = {} /\ stage = "open" /\ run = {}
    BY DEF Stream!Init
  <2>2. Ended = {}
    BY <2>1, LinesOfReply DEF Ended
  <2> QED
    BY <2>1, <2>2 DEF StreamInv
<1>2. StreamInv /\ [Stream!Next]_Stream!vars => StreamInv'
  <2> SUFFICES ASSUME StreamInv, [Stream!Next]_Stream!vars PROVE StreamInv'
    OBVIOUS
  <2>1. ASSUME NEW n \in 1 .. (4 * Len(reply)), Stream!Chunk(n)
        PROVE  StreamInv'
    BY <2>1, ChunkStep
  <2>2. CASE Stream!End
    BY <2>2, EndStep
  <2>3. CASE Stream!Breaks
    BY <2>3 DEF Stream!Breaks, StreamInv
  <2>4. CASE UNCHANGED Stream!vars
    <3>1. UNCHANGED <<reply, indexed, arrived, buffer, handled, stage, run>>
      BY <2>4 DEF Stream!vars
    <3>2. Ended' = Ended /\ Whole' = Whole
      BY <3>1 DEF Ended, Whole
    <3>3. Stream!RunOf(Whole)' = Stream!RunOf(Whole)
      BY <3>1, <3>2 DEF Stream!RunOf, Stream!Named, Stream!Entry, Stream!Part,
         Stream!WellFormed, Stream!ArgumentsOf
    <3> QED
      BY <3>1, <3>2, <3>3 DEF StreamInv
  <2> QED
    BY <2>1, <2>2, <2>3, <2>4 DEF Stream!Next
<1>3. StreamInv => AnswerAsSent
  <2> SUFFICES ASSUME StreamInv PROVE Stream!AnswerAsSent
    BY DEF AnswerAsSent
  <2>1. stage = "read" => handled = Whole
    BY DEF StreamInv
  <2>2. ASSUME NEW call \in run
        PROVE  /\ \E line \in Whole : reply[line].call = call
               /\ \/ Stream!ArgumentsOf(call) \subseteq Whole
                  \/ Stream!ArgumentsOf(call) \cap Whole = {}
    <3>1. call \in Stream!RunOf(Whole) /\ reply \in Replies
      BY DEF StreamInv
    <3>2. Whole \in SUBSET DOMAIN reply
      BY DEF Whole
    <3> QED
      BY <3>1, <3>2, CallsOfLines
  <2> QED
    BY <2>1, <2>2 DEF Stream!AnswerAsSent, Whole
<1> QED
  BY <1>1, <1>2, <1>3, PTL DEF Stream!Spec

-----------------------------------------------------------------------------
(* ChatSync: the chats of the pages *)

ChatCopies == [stamp : Nat, messages : SUBSET Nat]
ChatLists == [Chats -> ChatCopies \cup {Absent}]

\* The lists that are somewhere: on a page, in a browser, on the server, or on
\* the way from one to another.
Held == {chats[p] : p \in Pages} \cup {local[b] : b \in Browsers} \cup {server} \cup posts
            \cup {answer[p] : p \in {page \in Pages : answer[page] # Absent}}

\* Two copies of one stamp have the same messages, unless one was cleared.
Alike(copy, other) ==
    copy # Absent /\ other # Absent /\ copy.stamp = other.stamp =>
        copy.messages = other.messages \/ copy.messages = {} \/ other.messages = {}

SyncInv ==
    /\ browser \in [Pages -> Browsers]
    /\ chats \in [Pages -> ChatLists] /\ local \in [Browsers -> ChatLists]
    /\ server \in ChatLists /\ posts \subseteq ChatLists
    /\ answer \in [Pages -> ChatLists \cup {Absent}]
    /\ writer \in [Browsers -> Pages \cup {Absent}]
    /\ clock \in Nat /\ known \subseteq Chats
    /\ \A list \in Held, id \in Chats :
          list[id] # Absent => list[id].stamp <= clock /\ id \in known
    /\ \A list, other \in Held, id \in Chats : Alike(list[id], other[id])
    /\ \A p \in Pages : writer[browser[p]] = p => local[browser[p]] = chats[p]

\* What may become the list of a page: of each chat nothing, a copy that is held,
\* one of a new stamp, or a cleared one.
Storable(list) ==
    /\ list \in ChatLists
    /\ \A id \in Chats :
          \/ list[id] = Absent
          \/ \E other \in Held : list[id] = other[id]
          \/ clock' = clock + 1 /\ list[id].stamp = clock + 1 /\ id \in known'
          \/ list[id].stamp <= clock /\ list[id].messages = {} /\ id \in known

\* The lists held keep what is true of them when a storable one joins them.
LEMMA HeldStep ==
    ASSUME SyncInv, NEW list, Storable(list), Held' \subseteq Held \cup {list},
           clock' \in {clock, clock + 1}, known \subseteq known'
    PROVE  /\ \A l \in Held', id \in Chats : l[id] # Absent => l[id].stamp <= clock' /\ id \in known'
           /\ \A l, k \in Held', id \in Chats : Alike(l[id], k[id])
<1> DEFINE held == Held
<1>1. /\ \A l \in held, id \in Chats : l[id] # Absent => l[id].stamp <= clock /\ id \in known
      /\ \A l, k \in held, id \in Chats : Alike(l[id], k[id])
      /\ clock \in Nat
  BY DEF SyncInv
<1>2. \A l \in held : l \in ChatLists
  BY DEF SyncInv, Held
<1>3. Held' \subseteq held \cup {list}
  OBVIOUS
<1>4. \A id \in Chats :
          \/ list[id] = Absent
          \/ \E k \in held : list[id] = k[id]
          \/ clock' = clock + 1 /\ list[id].stamp = clock + 1 /\ id \in known'
          \/ list[id].stamp <= clock /\ list[id].messages = {} /\ id \in known
  BY DEF Storable
<1>5. \A k \in held, id \in Chats : k[id] # Absent => k[id].stamp \in Nat
  BY <1>2 DEF ChatLists, ChatCopies
<1> HIDE DEF held
<1>6. \A id \in Chats : list[id] # Absent => list[id].stamp <= clock' /\ id \in known'
  <2>1. clock' \in Nat /\ clock <= clock' /\ clock \in Nat
    BY <1>1
  <2>2. \A id \in Chats : list[id] # Absent => list[id].stamp \in Nat
    BY DEF Storable, ChatLists, ChatCopies
  <2> TAKE id \in Chats
  <2>3. CASE list[id] # Absent /\ \E k \in held : list[id] = k[id]
    BY <1>1, <1>5, <2>1, <2>3
  <2>4. CASE list[id] # Absent /\ list[id].stamp = clock + 1 /\ clock' = clock + 1 /\ id \in known'
    BY <2>1, <2>4
  <2>5. CASE list[id] # Absent /\ list[id].stamp <= clock /\ id \in known
    BY <2>1, <2>2, <2>5
  <2> QED
    BY <1>4, <2>3, <2>4, <2>5
<1>7. \A k \in held, id \in Chats : Alike(list[id], k[id]) /\ Alike(k[id], list[id])
  <2> TAKE k \in held, id \in Chats
  <2>1. CASE \E l \in held : list[id] = l[id]
    BY <1>1, <2>1
  <2>2. CASE list[id].stamp = clock + 1
    BY <1>1, <1>5, <2>2 DEF Alike
  <2>3. CASE list[id] = Absent \/ list[id].messages = {}
    BY <2>3 DEF Alike
  <2> QED
    BY <1>4, <2>1, <2>2, <2>3
<1>8. \A l \in held, id \in Chats : l[id] # Absent => l[id].stamp <= clock' /\ id \in known'
  BY <1>1, <1>5
<1>9. \A id \in Chats : Alike(list[id], list[id])
  BY DEF Alike
<1> QED
  BY <1>1, <1>3, <1>6, <1>7, <1>8, <1>9

\* A page stores a list.
LEMMA StoreStep ==
    ASSUME SyncInv, NEW p \in Pages, NEW list, Storable(list), Sync!Store(p, list),
           clock' \in {clock, clock + 1}, known \subseteq known', known' \subseteq Chats,
           UNCHANGED <<browser, server, posts>>,
           answer' \in [Pages -> ChatLists \cup {Absent}],
           \A q \in Pages : answer'[q] \in {answer[q], Absent}
    PROVE  SyncInv'
<1> USE DEF SyncInv
<1>1. /\ chats' = [chats EXCEPT ![p] = list]
      /\ local' = [local EXCEPT ![browser[p]] = list]
      /\ writer' = [writer EXCEPT ![browser[p]] = p]
      /\ list \in ChatLists /\ browser[p] \in Browsers
  BY DEF Sync!Store, Storable
<1>2. /\ chats' \in [Pages -> ChatLists] /\ local' \in [Browsers -> ChatLists]
      /\ writer' \in [Browsers -> Pages \cup {Absent}]
  BY <1>1
<1>3. Held' \subseteq Held \cup {list}
  <2>1. \A q \in Pages : chats'[q] \in {chats[q], list}
    BY <1>1
  <2>2. \A b \in Browsers : local'[b] \in {local[b], list}
    BY <1>1
  <2> QED
    BY <2>1, <2>2 DEF Held
<1>4. /\ \A l \in Held', id \in Chats : l[id] # Absent => l[id].stamp <= clock' /\ id \in known'
      /\ \A l, k \in Held', id \in Chats : Alike(l[id], k[id])
  BY <1>3, HeldStep
<1>5. \A q \in Pages : writer'[browser[q]] = q => local'[browser[q]] = chats'[q]
  <2> TAKE q \in Pages
  <2>1. CASE q = p
    BY <1>1, <2>1
  <2>2. CASE q # p /\ browser[q] = browser[p]
    BY <1>1, <2>2
  <2>3. CASE q # p /\ browser[q] # browser[p]
    BY <1>1, <2>3
  <2> QED
    BY <2>1, <2>2, <2>3
<1>6. clock' \in Nat
  OBVIOUS
<1> QED
  BY <1>2, <1>4, <1>5, <1>6

\* No list is made.
LEMMA MoveStep ==
    ASSUME SyncInv, UNCHANGED <<browser, clock, known, writer, local>>,
           chats' \in [Pages -> ChatLists],
           \A p \in Pages : chats'[p] \in {chats[p], local[browser[p]]},
           server' \in {server} \cup posts,
           posts' \subseteq posts \cup {chats[p] : p \in Pages},
           answer' \in [Pages -> ChatLists \cup {Absent}],
           \A p \in Pages : answer'[p] \in {answer[p], Absent, server, Sync!NoChats}
    PROVE  SyncInv'
<1> USE DEF SyncInv
<1> DEFINE none == Sync!NoChats
<1>1. none \in ChatLists /\ \A id \in Chats : none[id] = Absent
  BY DEF Sync!NoChats, ChatLists
<1>2. Storable(none)
  BY <1>1 DEF Storable
<1>3. Held' \subseteq Held \cup {none}
  BY DEF Held
<1>4. /\ \A l \in Held', id \in Chats : l[id] # Absent => l[id].stamp <= clock' /\ id \in known'
      /\ \A l, k \in Held', id \in Chats : Alike(l[id], k[id])
  BY <1>2, <1>3, HeldStep
<1>5. server' \in ChatLists /\ posts' \subseteq ChatLists
  OBVIOUS
<1>6. \A p \in Pages : writer'[browser'[p]] = p => local'[browser'[p]] = chats'[p]
  OBVIOUS
<1> QED
  BY <1>4, <1>5, <1>6

\* The list that an answer of the server makes of a page's list.
Merged(p) ==
    [id \in Chats |-> IF answer[p][id] # Absent /\ Sync!Newer(answer[p][id], chats[p][id])
                      THEN answer[p][id] ELSE chats[p][id]]

\* A list with a chat of its own.
LEMMA WithOne ==
    ASSUME SyncInv, NEW p \in Pages, NEW id \in Chats, NEW copy \in ChatCopies \cup {Absent},
           \/ copy = Absent
           \/ clock' = clock + 1 /\ copy.stamp = clock + 1 /\ id \in known'
           \/ copy.stamp <= clock /\ copy.messages = {} /\ id \in known
    PROVE  /\ Storable(Sync!With(p, id, copy))
           /\ Sync!With(p, id, copy)[id] = copy
           /\ \A other \in Chats \ {id} : Sync!With(p, id, copy)[other] = chats[p][other]
<1> DEFINE list == Sync!With(p, id, copy)
<1>1. chats[p] \in ChatLists /\ chats[p] \in Held
  BY DEF SyncInv, Held
<1>2. list = [chats[p] EXCEPT ![id] = copy]
  BY DEF Sync!With
<1>3. /\ list \in ChatLists /\ list[id] = copy
      /\ \A other \in Chats \ {id} : list[other] = chats[p][other]
  BY <1>1, <1>2 DEF ChatLists
<1> HIDE DEF list
<1>4. Storable(list)
  BY <1>1, <1>3 DEF Storable
<1> QED
  BY <1>3, <1>4 DEF list

\* What PageKeepsChats says of a page and a chat.
KeepsChat(p, id) ==
    Sync!Loses(chats[p][id], chats'[p][id]) =>
        \/ Sync!EditMessage(p, id) \/ Sync!ClearChat(p, id) \/ Sync!DeleteChat(p, id)
        \/ /\ chats'[p][id] # Absent
           /\ chats'[p][id].stamp >= chats[p][id].stamp
           /\ chats'[p][id].stamp = chats[p][id].stamp => chats'[p][id].messages = {}
        \/ Sync!Reload(p) /\ writer[browser[p]] # p

\* A page that has the list it had has lost nothing.
LEMMA SameKeeps ==
    ASSUME NEW p, NEW id, chats'[p][id] = chats[p][id]
    PROVE  KeepsChat(p, id)
BY DEF KeepsChat, Sync!Loses

\* A page saves a list that differs in one chat.
LEMMA SaveStep ==
    ASSUME SyncInv, NEW p \in Pages, NEW id \in Chats, NEW copy \in ChatCopies \cup {Absent},
           \/ copy = Absent
           \/ clock' = clock + 1 /\ copy.stamp = clock + 1 /\ id \in known'
           \/ copy.stamp <= clock /\ copy.messages = {} /\ id \in known,
           clock' \in {clock, clock + 1}, known \subseteq known', known' \subseteq Chats,
           Sync!SaveChats(p, Sync!With(p, id, copy))
    PROVE  /\ SyncInv'
           /\ chats'[p][id] = copy
           /\ \A q \in Pages, other \in Chats :
                 q # p \/ other # id => chats'[q][other] = chats[q][other]
<1> DEFINE list == Sync!With(p, id, copy)
<1>1. /\ Storable(list) /\ list[id] = copy
      /\ \A other \in Chats \ {id} : list[other] = chats[p][other]
  BY WithOne
<1>2. Sync!Store(p, list) /\ UNCHANGED <<browser, server, posts, answer>>
  BY DEF Sync!SaveChats
<1>3. chats' = [chats EXCEPT ![p] = list] /\ chats \in [Pages -> ChatLists]
  BY <1>2 DEF Sync!Store, SyncInv
<1> HIDE DEF list
<1>4. SyncInv'
  <2>1. answer' \in [Pages -> ChatLists \cup {Absent}] /\ \A q \in Pages : answer'[q] \in {answer[q], Absent}
    BY <1>2 DEF SyncInv
  <2> QED
    BY <1>1, <1>2, <2>1, StoreStep
<1> QED
  BY <1>1, <1>3, <1>4

\* An answer is merged into the list of a page.
LEMMA HydrateStep ==
    ASSUME SyncInv, NEW p \in Pages, Sync!Hydrate(p)
    PROVE  SyncInv' /\ \A q \in Pages, id \in Chats : KeepsChat(q, id)
<1> DEFINE theirs == answer[p]
           mine == chats[p]
           list == Merged(p)
<1>1. /\ theirs # Absent /\ theirs \in ChatLists /\ theirs \in Held
      /\ mine \in ChatLists /\ mine \in Held
  BY DEF Sync!Hydrate, SyncInv, Held
<1>2. /\ answer' = [answer EXCEPT ![p] = Absent]
      /\ UNCHANGED <<browser, server, posts, clock, known>>
      /\ \/ UNCHANGED <<chats, local, writer>>
         \/ Sync!Store(p, list)
  BY DEF Sync!Hydrate, Merged
<1>3. \A id \in Chats : \/ list[id] = mine[id]
                        \/ /\ list[id] = theirs[id] /\ theirs[id] # Absent
                           /\ mine[id] = Absent \/ theirs[id].stamp >= mine[id].stamp
  BY DEF Merged, Sync!Newer
<1>4. list \in ChatLists
  <2>1. \A id \in Chats : list[id] \in ChatCopies \cup {Absent}
    BY <1>1, <1>3 DEF ChatLists
  <2> QED
    BY <2>1 DEF Merged, ChatLists
<1>5. /\ answer' \in [Pages -> ChatLists \cup {Absent}]
      /\ \A q \in Pages : answer'[q] \in {answer[q], Absent}
  BY <1>2 DEF SyncInv
<1>6. \A id \in Chats : Alike(mine[id], theirs[id])
  BY <1>1 DEF SyncInv
<1> HIDE DEF list
<1>7. Storable(list)
  BY <1>1, <1>3, <1>4 DEF Storable
<1>8. CASE UNCHANGED <<chats, local, writer>>
  <2>1. SyncInv'
    BY <1>2, <1>5, <1>8, MoveStep DEF SyncInv
  <2> QED
    BY <1>8, <2>1, SameKeeps
<1>9. CASE Sync!Store(p, list)
  <2>1. SyncInv'
    BY <1>2, <1>5, <1>7, <1>9, StoreStep DEF SyncInv
  <2>2. chats' = [chats EXCEPT ![p] = list] /\ chats \in [Pages -> ChatLists]
    BY <1>9 DEF Sync!Store, SyncInv
  <2>3. ASSUME NEW q \in Pages, NEW id \in Chats PROVE KeepsChat(q, id)
    <3>1. CASE q # p \/ list[id] = mine[id]
      BY <2>2, <3>1, SameKeeps
    <3>2. CASE /\ q = p
               /\ list[id] = theirs[id] /\ theirs[id] # Absent
               /\ mine[id] = Absent \/ theirs[id].stamp >= mine[id].stamp
      <4>1. chats'[p][id] = theirs[id] /\ chats[p][id] = mine[id]
        BY <2>2, <3>2
      <4>2. mine[id] # Absent /\ theirs[id].stamp = mine[id].stamp =>
               theirs[id].messages = mine[id].messages \/ mine[id].messages = {}
                  \/ theirs[id].messages = {}
        BY <1>6, <3>2 DEF Alike
      <4> HIDE DEF mine, theirs
      <4> QED
        BY <3>2, <4>1, <4>2 DEF KeepsChat, Sync!Loses
    <3> QED
      BY <1>3, <3>1, <3>2
  <2> QED
    BY <2>1, <2>3
<1> QED
  BY <1>2, <1>8, <1>9

\* A step of the chats keeps the invariant and loses only what may be lost.
LEMMA SyncStep ==
    ASSUME SyncInv, [Sync!Next]_Sync!vars
    PROVE  SyncInv' /\ \A p \in Pages, id \in Chats : KeepsChat(p, id)
<1>1. \A p \in Pages, id \in Chats : /\ chats[p][id] # Absent => chats[p][id] \in ChatCopies
                                     /\ chats[p][id] # Absent => id \in known /\ chats[p][id].stamp <= clock
  <2>1. \A p \in Pages : chats[p] \in ChatLists /\ chats[p] \in Held
    BY DEF SyncInv, Held
  <2> QED
    BY <2>1 DEF SyncInv, ChatLists
<1>2. clock \in Nat /\ known \subseteq Chats
  BY DEF SyncInv
<1>3. ASSUME NEW p \in Pages, NEW id \in Chats, Sync!NewChat(p, id)
      PROVE  SyncInv' /\ \A q \in Pages, other \in Chats : KeepsChat(q, other)
  <2> DEFINE copy == [stamp |-> clock', messages |-> {}]
  <2>1. /\ id \notin known /\ clock' = clock + 1 /\ known' = known \cup {id}
        /\ Sync!SaveChats(p, Sync!With(p, id, copy))
    BY <1>3 DEF Sync!NewChat, Sync!Tick
  <2>2. copy \in ChatCopies /\ copy.stamp = clock + 1
    BY <1>2, <2>1 DEF ChatCopies
  <2> HIDE DEF copy
  <2>3. /\ SyncInv'
        /\ \A q \in Pages, other \in Chats :
              q # p \/ other # id => chats'[q][other] = chats[q][other]
    BY <1>2, <2>1, <2>2, SaveStep
  <2>4. chats[p][id] = Absent
    BY <1>1, <2>1
  <2> QED
    BY <2>3, <2>4, SameKeeps DEF KeepsChat, Sync!Loses
<1>4. ASSUME NEW p \in Pages, NEW id \in Chats, Sync!RecordMessage(p, id)
      PROVE  SyncInv' /\ \A q \in Pages, other \in Chats : KeepsChat(q, other)
  <2> DEFINE copy == [stamp |-> clock', messages |-> chats[p][id].messages \cup {clock'}]
  <2>1. /\ chats[p][id] # Absent /\ clock' = clock + 1 /\ known' = known
        /\ Sync!SaveChats(p, Sync!With(p, id, copy))
    BY <1>4 DEF Sync!RecordMessage, Sync!Tick
  <2>2. chats[p][id] \in ChatCopies /\ id \in known
    BY <1>1, <2>1
  <2>3. copy \in ChatCopies /\ copy.stamp = clock + 1 /\ chats[p][id].messages \subseteq copy.messages
    BY <1>2, <2>1, <2>2 DEF ChatCopies
  <2>4. /\ SyncInv' /\ chats'[p][id] = copy
        /\ \A q \in Pages, other \in Chats :
              q # p \/ other # id => chats'[q][other] = chats[q][other]
    <3> HIDE DEF copy
    <3> QED
      BY <1>2, <2>1, <2>2, <2>3, SaveStep
  <2>5. KeepsChat(p, id)
    <3>1. copy.stamp >= chats[p][id].stamp /\ copy.stamp # chats[p][id].stamp
      BY <1>1, <1>2, <2>1, <2>2, <2>3 DEF ChatCopies
    <3>2. copy # Absent
      BY <2>3, PartsAssumption DEF ChatCopies
    <3> HIDE DEF copy
    <3> QED
      BY <2>4, <3>1, <3>2 DEF KeepsChat, Sync!Loses
  <2> QED
    BY <2>4, <2>5, SameKeeps
<1>5. ASSUME NEW p \in Pages, NEW id \in Chats, Sync!EditMessage(p, id)
      PROVE  SyncInv' /\ \A q \in Pages, other \in Chats : KeepsChat(q, other)
  <2>1. /\ chats[p][id] # Absent /\ clock' = clock + 1 /\ known' = known
    BY <1>5 DEF Sync!EditMessage, Sync!Tick
  <2>2. PICK m \in chats[p][id].messages :
           Sync!SaveChats(p, Sync!With(p, id,
              [stamp |-> clock', messages |-> {n \in chats[p][id].messages : n < m}]))
    BY <1>5 DEF Sync!EditMessage
  <2> DEFINE copy == [stamp |-> clock', messages |-> {n \in chats[p][id].messages : n < m}]
  <2>3. chats[p][id] \in ChatCopies /\ id \in known
    BY <1>1, <2>1
  <2>4. copy \in ChatCopies /\ copy.stamp = clock + 1
    BY <1>2, <2>1, <2>3 DEF ChatCopies
  <2> HIDE DEF copy
  <2>5. /\ SyncInv'
        /\ \A q \in Pages, other \in Chats :
              q # p \/ other # id => chats'[q][other] = chats[q][other]
    BY <1>2, <2>1, <2>2, <2>3, <2>4, SaveStep DEF copy
  <2> QED
    BY <1>5, <2>5, SameKeeps DEF KeepsChat
<1>6. ASSUME NEW p \in Pages, NEW id \in Chats, Sync!ClearChat(p, id)
      PROVE  SyncInv' /\ \A q \in Pages, other \in Chats : KeepsChat(q, other)
  <2> DEFINE copy == [chats[p][id] EXCEPT !.messages = {}]
  <2>1. /\ chats[p][id] # Absent /\ clock' = clock /\ known' = known
        /\ Sync!SaveChats(p, Sync!With(p, id, copy))
    BY <1>6 DEF Sync!ClearChat
  <2>2. chats[p][id] \in ChatCopies /\ id \in known /\ chats[p][id].stamp <= clock
    BY <1>1, <2>1
  <2>3. copy \in ChatCopies /\ copy.stamp <= clock /\ copy.messages = {}
    BY <2>2 DEF ChatCopies
  <2> HIDE DEF copy
  <2>4. /\ SyncInv'
        /\ \A q \in Pages, other \in Chats :
              q # p \/ other # id => chats'[q][other] = chats[q][other]
    BY <1>2, <2>1, <2>2, <2>3, SaveStep
  <2> QED
    BY <1>6, <2>4, SameKeeps DEF KeepsChat
<1>7. ASSUME NEW p \in Pages, NEW id \in Chats, Sync!DeleteChat(p, id)
      PROVE  SyncInv' /\ \A q \in Pages, other \in Chats : KeepsChat(q, other)
  <2>1. /\ clock' = clock /\ known' = known
        /\ Sync!SaveChats(p, Sync!With(p, id, Absent))
    BY <1>7 DEF Sync!DeleteChat
  <2>2. /\ SyncInv'
        /\ \A q \in Pages, other \in Chats :
              q # p \/ other # id => chats'[q][other] = chats[q][other]
    BY <1>2, <2>1, SaveStep
  <2> QED
    BY <1>7, <2>2, SameKeeps DEF KeepsChat
<1>8. ASSUME NEW p \in Pages, Sync!Resave(p)
      PROVE  SyncInv' /\ \A q \in Pages, id \in Chats : KeepsChat(q, id)
  <2>1. /\ Sync!Store(p, chats[p]) /\ UNCHANGED <<browser, server, posts, answer, clock, known>>
    BY <1>8 DEF Sync!Resave, Sync!SaveChats
  <2>2. Storable(chats[p])
    BY DEF Storable, SyncInv, Held
  <2>3. /\ answer' \in [Pages -> ChatLists \cup {Absent}]
        /\ \A q \in Pages : answer'[q] \in {answer[q], Absent}
    BY <2>1 DEF SyncInv
  <2>4. SyncInv'
    BY <1>2, <2>1, <2>2, <2>3, StoreStep
  <2>5. chats' = chats
    BY <2>1 DEF Sync!Store, SyncInv
  <2> QED
    BY <2>4, <2>5, SameKeeps
<1>9. ASSUME NEW p \in Pages, Sync!SyncFires(p)
      PROVE  SyncInv' /\ \A q \in Pages, id \in Chats : KeepsChat(q, id)
  <2>1. posts' = posts \cup {chats[p]} /\ UNCHANGED <<browser, chats, local, server, answer, clock, known, writer>>
    BY <1>9 DEF Sync!SyncFires
  <2>2. SyncInv'
    BY <2>1, MoveStep DEF SyncInv
  <2> QED
    BY <2>1, <2>2, SameKeeps
<1>10. ASSUME NEW p \in Pages, Sync!HydrateFails(p)
       PROVE  SyncInv' /\ \A q \in Pages, id \in Chats : KeepsChat(q, id)
  <2>1. /\ answer' = [answer EXCEPT ![p] = Absent]
        /\ UNCHANGED <<browser, chats, local, server, posts, clock, known, writer>>
    BY <1>10 DEF Sync!HydrateFails
  <2>2. SyncInv'
    BY <2>1, MoveStep DEF SyncInv
  <2> QED
    BY <2>1, <2>2, SameKeeps
<1>11. ASSUME NEW p \in Pages, Sync!Reload(p)
       PROVE  SyncInv' /\ \A q \in Pages, id \in Chats : KeepsChat(q, id)
  <2>1. /\ chats' = [chats EXCEPT ![p] = local[browser[p]]]
        /\ answer' = [answer EXCEPT ![p] = Absent]
        /\ UNCHANGED <<browser, local, server, posts, clock, known, writer>>
    BY <1>11 DEF Sync!Reload
  <2>2. /\ chats' \in [Pages -> ChatLists]
        /\ \A q \in Pages : chats'[q] \in {chats[q], local[browser[q]]}
    BY <2>1 DEF SyncInv
  <2>3. SyncInv'
    BY <2>1, <2>2, MoveStep DEF SyncInv
  <2>4. ASSUME NEW q \in Pages, NEW id \in Chats PROVE KeepsChat(q, id)
    <3>1. CASE q = p /\ writer[browser[p]] # p
      BY <1>11, <3>1 DEF KeepsChat
    <3>2. CASE q # p \/ writer[browser[p]] = p
      <4>1. chats'[q] = chats[q]
        BY <2>1, <3>2 DEF SyncInv
      <4> QED
        BY <4>1, SameKeeps
    <3> QED
      BY <3>1, <3>2
  <2> QED
    BY <2>3, <2>4
<1>12. ASSUME NEW p \in Pages, Sync!ChatsServed(p)
       PROVE  SyncInv' /\ \A q \in Pages, id \in Chats : KeepsChat(q, id)
  <2>1. PICK list \in {server, Sync!NoChats} :
           /\ answer' = [answer EXCEPT ![p] = list]
           /\ UNCHANGED <<browser, chats, local, server, posts, clock, known, writer>>
    BY <1>12 DEF Sync!ChatsServed
  <2>2. list \in ChatLists
    BY DEF SyncInv, Sync!NoChats, ChatLists
  <2>3. /\ answer' \in [Pages -> ChatLists \cup {Absent}]
        /\ \A q \in Pages : answer'[q] \in {answer[q], Absent, server, Sync!NoChats}
    BY <2>1, <2>2 DEF SyncInv
  <2>4. SyncInv'
    BY <2>1, <2>3, MoveStep DEF SyncInv
  <2> QED
    BY <2>1, <2>4, SameKeeps
<1>13. ASSUME NEW list \in posts, Sync!PostArrives(list) \/ Sync!PostLost(list)
       PROVE  SyncInv' /\ \A q \in Pages, id \in Chats : KeepsChat(q, id)
  <2>1. /\ server' \in {server, list} /\ posts' = posts \ {list}
        /\ UNCHANGED <<browser, chats, local, answer, clock, known, writer>>
    BY <1>13 DEF Sync!PostArrives, Sync!PostLost
  <2>2. SyncInv'
    BY <2>1, MoveStep DEF SyncInv
  <2> QED
    BY <2>1, <2>2, SameKeeps
<1>14. CASE UNCHANGED Sync!vars
  <2>1. UNCHANGED <<browser, chats, local, server, posts, answer, clock, known, writer>>
    BY <1>14 DEF Sync!vars
  <2>2. SyncInv'
    BY <2>1, MoveStep DEF SyncInv
  <2> QED
    BY <2>1, <2>2, SameKeeps
<1> QED
  BY <1>3, <1>4, <1>5, <1>6, <1>7, <1>8, <1>9, <1>10, <1>11, <1>12, <1>13, <1>14,
     HydrateStep DEF Sync!Next

\* PageKeepsChats: whatever order answers and lists arrive in, a page loses messages
\* only where its operator drops them, to a copy that was changed later or cleared,
\* or, when it is loaded anew, to another tab that stored its own list since.
THEOREM PagesKeepChats == Sync!Spec => PageKeepsChats
<1>1. Sync!Init => SyncInv
  <2> SUFFICES ASSUME Sync!Init PROVE SyncInv
    OBVIOUS
  <2>1. Sync!NoChats \in ChatLists /\ \A id \in Chats : Sync!NoChats[id] = Absent
    BY DEF Sync!NoChats, ChatLists
  <2>2. /\ browser \in [Pages -> Browsers]
        /\ chats = [p \in Pages |-> Sync!NoChats] /\ local = [b \in Browsers |-> Sync!NoChats]
        /\ server = Sync!NoChats /\ posts = {} /\ answer = [p \in Pages |-> Absent]
        /\ clock = 0 /\ known = {} /\ writer = [b \in Browsers |-> Absent]
    BY DEF Sync!Init
  <2>3. \A list \in Held, id \in Chats : list[id] = Absent
    BY <2>1, <2>2 DEF Held
  <2> QED
    BY <2>1, <2>2, <2>3 DEF SyncInv, Alike
<1>2. SyncInv /\ [Sync!Next]_Sync!vars => SyncInv'
  BY SyncStep
<1>3. SyncInv /\ [Sync!Next]_Sync!vars =>
         \A p \in Pages, id \in Chats : KeepsChat(p, id)
  BY SyncStep
<1> QED
  BY <1>1, <1>2, <1>3, PTL DEF Sync!Spec, PageKeepsChats, Sync!PageKeepsChats, KeepsChat

-----------------------------------------------------------------------------
(* Conversation: the messages a provider is sent *)

SomeMessages == [role : Talk!Roles, n : Nat, size : Nat]

\* Behind message i stand the results of its first d calls.
Done(list, i, d) ==
    /\ d \in Nat /\ d <= list[i].n /\ i + d <= Len(list)
    /\ \A k \in 1 .. d : list[i + k].role = "tool" /\ list[i + k].n = k

\* Behind each answer stand results of its calls, in order: all of them, unless the
\* operator's next request follows, or the list ends there.
Served(list) ==
    \A i \in 1 .. Len(list) : list[i].role = "assistant" =>
        \E d \in Nat : /\ Done(list, i, d)
                       /\ d < list[i].n => i + d = Len(list) \/ list[i + d + 1].role = "user"

\* ... and it does not end there.
Complete(list) ==
    \A i \in 1 .. Len(list) : list[i].role = "assistant" =>
        \E d \in Nat : /\ Done(list, i, d)
                       /\ d < list[i].n => i + d < Len(list) /\ list[i + d + 1].role = "user"

\* Message i is a result, with nothing but results between it and its call.
Behind(list, i) ==
    \E k \in 1 .. (i - 1) :
        /\ list[k].role = "assistant"
        /\ \A j \in (k + 1) .. i : list[j].role = "tool"
        /\ \/ list[k].n = 0 /\ i = k + 1 /\ list[i].n = 0
           \/ list[i].n = i - k /\ i - k <= list[k].n

\* Every result is behind its call, unless compaction left the call out.
Owned(list) ==
    \A i \in 1 .. Len(list) : list[i].role = "tool" => Talk!CutOff(list, i) \/ Behind(list, i)

TalkInv ==
    /\ turns \in Nat
    /\ conversation \in Seq(SomeMessages) /\ Served(conversation) /\ Owned(conversation)
    /\ messages \in Seq(SomeMessages) /\ Served(messages) /\ Owned(messages)
    /\ sent \in Seq(SomeMessages) /\ Complete(sent) /\ Owned(sent)
    /\ phase \in {"ask", "model", "retry"} => Complete(messages)
    /\ phase = "results" => messages # <<>> /\ messages[Len(messages)].role = "assistant"

\* What is the same but for its size.
Resized(m, other) ==
    m.role = other.role /\ m.n = other.n /\ (other = Talk!Note => m = Talk!Note)

\* Compaction returns the list, or the note and the end of the list.
LEMMA CompactCuts ==
    ASSUME NEW list \in Seq(SomeMessages), NEW budget \in {Usual, Reduced},
           NEW c, c = Talk!Compact(list, budget)
    PROVE  /\ c \in Seq(SomeMessages)
           /\ \/ Len(c) = Len(list) /\ \A i \in 1 .. Len(list) : Resized(c[i], list[i])
              \/ \E off \in 1 .. Len(list) :
                    /\ Len(c) = Len(list) - off + 1 /\ c[1] = Talk!Note
                    /\ \A i \in 2 .. Len(c) : Resized(c[i], list[off + i - 1])
<1> DEFINE fits == {k \in 0 .. Len(list) :
                       /\ k <= budget.messages
                       /\ k <= 1 \/ Talk!Total(Talk!Newest(list, k, budget)) <= budget.size}
           most == CHOOSE k \in fits : \A other \in fits : other <= k
           note == IF most < Len(list) THEN <<Talk!Note>> ELSE <<>>
           newest == Talk!Newest(list, most, budget)
<1>1. c = note \o newest
  BY DEF Talk!Compact
<1>2. budget.messages \in Nat /\ budget.each \in Nat \ {0} /\ Len(list) \in Nat
  BY PartsAssumption
<1>3. most \in 0 .. Len(list)
  <2>1. 0 \in fits
    BY <1>2
  <2>2. fits \subseteq 0 .. Len(list)
    OBVIOUS
  <2> HIDE DEF fits
  <2> DEFINE left == {Len(list) - k : k \in fits}
  <2>3. left \subseteq Nat /\ left # {}
    BY <1>2, <2>1, <2>2
  <2>4. PICK least \in left : \A other \in left : least <= other
    BY <2>3, LeastNatural
  <2>5. PICK k \in fits : least = Len(list) - k
    BY <2>4
  <2>6. \A other \in fits : Len(list) - k <= Len(list) - other
    BY <2>4, <2>5
  <2>7. \A other \in fits : other <= k
    BY <1>2, <2>2, <2>5, <2>6
  <2> QED
    BY <2>2, <2>5, <2>7
<1> HIDE DEF fits, most
<1>4. PICK off \in 0 .. Len(list) : off = Len(list) - most
  <2>1. \A n, m \in Nat : m <= n => n - m \in 0 .. n
    OBVIOUS
  <2>2. most \in Nat /\ most <= Len(list)
    BY <1>2, <1>3
  <2> QED
    BY <1>2, <2>1, <2>2
<1> DEFINE of(i) == LET m == list[Len(list) - most + i]
                    IN [m EXCEPT !.size = IF m.size > budget.each THEN budget.each ELSE m.size]
<1>5. newest = [i \in 1 .. most |-> of(i)]
  BY DEF Talk!Newest
<1>6. \A i \in 1 .. most : /\ off + i \in 1 .. Len(list)
                           /\ of(i) \in SomeMessages
                           /\ Resized(of(i), list[off + i])
  <2> TAKE i \in 1 .. most
  <2>1. PICK j \in 1 .. Len(list) : j = off + i /\ j = Len(list) - most + i
    <3>1. \A n, m, k \in Nat : k <= m /\ 1 <= k /\ m <= n => n - m + k \in 1 .. n
      OBVIOUS
    <3>2. i \in Nat /\ most \in Nat /\ i <= most /\ 1 <= i /\ most <= Len(list)
      BY <1>2, <1>3
    <3>3. Len(list) - most + i \in 1 .. Len(list)
      BY <1>2, <3>1, <3>2
    <3> QED
      BY <1>4, <3>3
  <2>2. list[j] \in SomeMessages
    BY <2>1
  <2> DEFINE size == IF list[j].size > budget.each THEN budget.each ELSE list[j].size
  <2>3. size \in Nat /\ (list[j].size = 1 => size = 1)
    BY <1>2, <2>2 DEF SomeMessages
  <2>4. of(i) = [list[j] EXCEPT !.size = size]
    BY <2>1
  <2> HIDE DEF of, size
  <2>5. /\ of(i) \in SomeMessages
        /\ of(i).role = list[j].role /\ of(i).n = list[j].n
        /\ of(i) = [role |-> list[j].role, n |-> list[j].n, size |-> size]
    BY <2>2, <2>3, <2>4 DEF SomeMessages
  <2>6. list[j] = Talk!Note => of(i) = Talk!Note
    BY <2>3, <2>5 DEF Talk!Note, Talk!Message
  <2> QED
    BY <2>1, <2>5, <2>6 DEF Resized
<1> HIDE DEF of
<1>7. /\ newest \in Seq(SomeMessages) /\ Len(newest) = most
      /\ \A i \in 1 .. most : newest[i] = of(i)
  BY <1>3, <1>5, <1>6
<1> HIDE DEF newest
<1>8. CASE off = 0
  <2>1. most = Len(list) /\ note = <<>>
    BY <1>2, <1>3, <1>4, <1>8
  <2>2. c = newest
    BY <1>1, <1>7, <2>1
  <2> QED
    BY <1>6, <1>7, <1>8, <2>1, <2>2
<1>9. CASE off # 0
  <2>1. most < Len(list) /\ note = <<Talk!Note>> /\ off \in 1 .. Len(list) /\ most = Len(list) - off
    BY <1>2, <1>3, <1>4, <1>9
  <2>2. Talk!Note \in SomeMessages
    BY DEF Talk!Note, Talk!Message, SomeMessages, Talk!Roles
  <2>3. /\ c \in Seq(SomeMessages) /\ Len(c) = most + 1 /\ c[1] = Talk!Note
        /\ \A i \in 1 .. most : c[i + 1] = newest[i]
    BY <1>1, <1>3, <1>7, <2>1, <2>2
  <2>4. Len(c) = Len(list) - off + 1
    BY <1>2, <2>1, <2>3
  <2>5. ASSUME NEW i \in 2 .. Len(c) PROVE Resized(c[i], list[off + i - 1])
    <3>1. i - 1 \in 1 .. most /\ off + (i - 1) = off + i - 1 /\ (i - 1) + 1 = i
      BY <1>3, <2>1, <2>3
    <3>2. c[(i - 1) + 1] = of(i - 1) /\ Resized(of(i - 1), list[off + (i - 1)])
      BY <1>6, <1>7, <2>3, <3>1
    <3> QED
      BY <3>1, <3>2
  <2> QED
    BY <2>1, <2>3, <2>4, <2>5
<1> QED
  BY <1>8, <1>9


\* What compaction sends is served and owned as the list was.
LEMMA CutKeeps ==
    ASSUME NEW list \in Seq(SomeMessages), NEW budget \in {Usual, Reduced}, Owned(list)
    PROVE  /\ Talk!Compact(list, budget) \in Seq(SomeMessages)
           /\ Owned(Talk!Compact(list, budget))
           /\ Served(list) => Served(Talk!Compact(list, budget))
           /\ Complete(list) => Complete(Talk!Compact(list, budget))
<1> DEFINE c == Talk!Compact(list, budget)
<1>1. /\ c \in Seq(SomeMessages)
      /\ \/ Len(c) = Len(list) /\ \A i \in 1 .. Len(list) : Resized(c[i], list[i])
         \/ \E off \in 1 .. Len(list) :
               /\ Len(c) = Len(list) - off + 1 /\ c[1] = Talk!Note
               /\ \A i \in 2 .. Len(c) : Resized(c[i], list[off + i - 1])
  BY CompactCuts
<1> HIDE DEF c
<1>2. PICK len \in Nat, now \in Nat : len = Len(list) /\ now = Len(c)
  BY <1>1
<1>3. CASE now = len /\ \A i \in 1 .. len : Resized(c[i], list[i])
  <2>1. \A i \in 1 .. now : c[i].role = list[i].role /\ c[i].n = list[i].n
    BY <1>3 DEF Resized
  <2>2. ASSUME NEW i \in 1 .. now, NEW d \in Nat, Done(list, i, d) PROVE Done(c, i, d)
    <3>1. i + d <= now /\ d <= c[i].n
      BY <1>2, <1>3, <2>1, <2>2 DEF Done
    <3>2. \A k \in 1 .. d : i + k \in 1 .. now
      BY <3>1
    <3> QED
      BY <1>2, <2>1, <2>2, <3>1, <3>2 DEF Done
  <2>3. \A i \in 1 .. now, d \in Nat : i + d < now => i + d + 1 \in 1 .. now
    OBVIOUS
  <2>4. Served(list) => Served(c)
    <3> SUFFICES ASSUME Served(list), NEW i \in 1 .. now, c[i].role = "assistant"
                 PROVE  \E d \in Nat : /\ Done(c, i, d)
                                       /\ d < c[i].n => i + d = now \/ c[i + d + 1].role = "user"
      BY <1>2 DEF Served
    <3>1. PICK d \in Nat : /\ Done(list, i, d)
                           /\ d < list[i].n => i + d = len \/ list[i + d + 1].role = "user"
      BY <1>2, <1>3, <2>1 DEF Served
    <3>2. i + d <= now
      BY <1>2, <1>3, <3>1 DEF Done
    <3>3. i + d = now \/ i + d < now
      BY <3>2
    <3> QED
      BY <1>3, <2>1, <2>2, <2>3, <3>1, <3>3
  <2>5. Complete(list) => Complete(c)
    <3> SUFFICES ASSUME Complete(list), NEW i \in 1 .. now, c[i].role = "assistant"
                 PROVE  \E d \in Nat : /\ Done(c, i, d)
                                       /\ d < c[i].n => i + d < now /\ c[i + d + 1].role = "user"
      BY <1>2 DEF Complete
    <3>1. PICK d \in Nat : /\ Done(list, i, d)
                           /\ d < list[i].n => i + d < len /\ list[i + d + 1].role = "user"
      BY <1>2, <1>3, <2>1 DEF Complete
    <3> QED
      BY <1>3, <2>1, <2>2, <2>3, <3>1
  <2>6. ASSUME NEW i \in 1 .. now, Talk!CutOff(list, i) PROVE Talk!CutOff(c, i)
    <3>1. c[1] = Talk!Note
      BY <1>3, <2>6 DEF Talk!CutOff, Resized
    <3>2. \A j \in 2 .. i : j \in 1 .. now
      OBVIOUS
    <3> QED
      BY <2>1, <2>6, <3>1, <3>2 DEF Talk!CutOff
  <2>7. ASSUME NEW i \in 1 .. now, Behind(list, i) PROVE Behind(c, i)
    <3>1. PICK k \in 1 .. (i - 1) :
             /\ list[k].role = "assistant"
             /\ \A j \in (k + 1) .. i : list[j].role = "tool"
             /\ \/ list[k].n = 0 /\ i = k + 1 /\ list[i].n = 0
                \/ list[i].n = i - k /\ i - k <= list[k].n
      BY <2>7 DEF Behind
    <3>2. k \in 1 .. now /\ \A j \in (k + 1) .. i : j \in 1 .. now
      OBVIOUS
    <3> QED
      BY <2>1, <3>1, <3>2 DEF Behind
  <2>8. Owned(c)
    BY <1>2, <1>3, <2>1, <2>6, <2>7 DEF Owned
  <2> QED
    BY <1>1, <2>4, <2>5, <2>8 DEF c
<1>4. ASSUME NEW off \in 1 .. len, now = len - off + 1, c[1] = Talk!Note,
             \A i \in 2 .. now : Resized(c[i], list[off + i - 1])
      PROVE  /\ Owned(c)
             /\ Served(list) => Served(c)
             /\ Complete(list) => Complete(c)
  <2>1. \A i \in 2 .. now : /\ c[i].role = list[off + i - 1].role /\ c[i].n = list[off + i - 1].n
                            /\ off + i - 1 \in 1 .. len
    BY <1>4 DEF Resized
  <2>2. c[1].role = "note"
    BY <1>4 DEF Talk!Note, Talk!Message
  <2>3. ASSUME NEW i \in 2 .. now, NEW d \in Nat, Done(list, off + i - 1, d) PROVE Done(c, i, d)
    <3>1. off + i - 1 + d <= len /\ d <= c[i].n
      BY <1>2, <2>1, <2>3 DEF Done
    <3>2. i + d <= now
      BY <1>4, <3>1
    <3>3. \A k \in 1 .. d : i + k \in 2 .. now /\ off + (i + k) - 1 = off + i - 1 + k
      BY <3>2
    <3>4. \A k \in 1 .. d : list[off + i - 1 + k].role = "tool" /\ list[off + i - 1 + k].n = k
      BY <2>3 DEF Done
    <3>5. \A k \in 1 .. d : c[i + k].role = "tool" /\ c[i + k].n = k
      BY <2>1, <3>3, <3>4
    <3> QED
      BY <1>2, <3>1, <3>2, <3>5 DEF Done
  <2>4. ASSUME NEW i \in 2 .. now, NEW d \in Nat
        PROVE  /\ off + i - 1 + d = len => i + d = now
               /\ off + i - 1 + d < len => /\ i + d < now
                                           /\ c[i + d + 1].role = list[off + i - 1 + d + 1].role
    <3>1. off + i - 1 + d < len => /\ i + d + 1 \in 2 .. now
                                   /\ off + (i + d + 1) - 1 = off + i - 1 + d + 1
      BY <1>4
    <3> QED
      BY <1>4, <2>1, <3>1
  <2>5. \A i \in 1 .. now : c[i].role = "assistant" => i \in 2 .. now
    BY <2>2
  <2>6. Served(list) => Served(c)
    <3> SUFFICES ASSUME Served(list), NEW i \in 2 .. now, c[i].role = "assistant"
                 PROVE  \E d \in Nat : /\ Done(c, i, d)
                                       /\ d < c[i].n => i + d = now \/ c[i + d + 1].role = "user"
      BY <1>2, <2>5 DEF Served
    <3>1. PICK d \in Nat : /\ Done(list, off + i - 1, d)
                           /\ d < list[off + i - 1].n =>
                                 off + i - 1 + d = len \/ list[off + i - 1 + d + 1].role = "user"
      BY <1>2, <2>1 DEF Served
    <3>2. off + i - 1 + d <= len
      BY <1>2, <3>1 DEF Done
    <3>3. off + i - 1 + d = len \/ off + i - 1 + d < len
      BY <3>2
    <3> QED
      BY <2>1, <2>3, <2>4, <3>1, <3>3
  <2>7. Complete(list) => Complete(c)
    <3> SUFFICES ASSUME Complete(list), NEW i \in 2 .. now, c[i].role = "assistant"
                 PROVE  \E d \in Nat : /\ Done(c, i, d)
                                       /\ d < c[i].n => i + d < now /\ c[i + d + 1].role = "user"
      BY <1>2, <2>5 DEF Complete
    <3>1. PICK d \in Nat : /\ Done(list, off + i - 1, d)
                           /\ d < list[off + i - 1].n =>
                                 off + i - 1 + d < len /\ list[off + i - 1 + d + 1].role = "user"
      BY <1>2, <2>1 DEF Complete
    <3> QED
      BY <2>1, <2>3, <2>4, <3>1
  <2>8. ASSUME NEW i \in 2 .. now, \A j \in (off + 1) .. (off + i - 1) : list[j].role = "tool"
        PROVE  Talk!CutOff(c, i)
    <3>1. \A j \in 2 .. i : j \in 2 .. now /\ off + j - 1 \in (off + 1) .. (off + i - 1)
      OBVIOUS
    <3>2. \A j \in 2 .. i : c[j].role = "tool"
      BY <2>1, <2>8, <3>1
    <3> QED
      BY <1>4, <3>2 DEF Talk!CutOff
  <2>9. ASSUME NEW i \in 2 .. now, Talk!CutOff(list, off + i - 1) PROVE Talk!CutOff(c, i)
    <3>1. \A j \in (off + 1) .. (off + i - 1) : list[j].role = "tool"
      BY <2>9 DEF Talk!CutOff
    <3> QED
      BY <2>8, <3>1
  <2>10. ASSUME NEW i \in 2 .. now, Behind(list, off + i - 1)
         PROVE  Talk!CutOff(c, i) \/ Behind(c, i)
    <3>1. PICK place \in 1 .. len : place = off + i - 1
      BY <2>1
    <3>2. PICK k \in 1 .. (place - 1) :
             /\ list[k].role = "assistant"
             /\ \A j \in (k + 1) .. place : list[j].role = "tool"
             /\ \/ list[k].n = 0 /\ place = k + 1 /\ list[place].n = 0
                \/ list[place].n = place - k /\ place - k <= list[k].n
      BY <2>10, <3>1 DEF Behind
    <3>3. CASE k <= off
      <4>1. \A j \in (off + 1) .. (off + i - 1) : list[j].role = "tool"
        BY <3>1, <3>2, <3>3
      <4> QED
        BY <2>8, <4>1
    <3>4. CASE off < k
      <4>1. PICK h \in 2 .. now : h = k - off + 1 /\ off + h - 1 = k /\ h \in 1 .. (i - 1)
        BY <1>4, <3>1, <3>4
      <4>2. c[h].role = "assistant" /\ c[h].n = list[k].n /\ c[i].n = list[place].n
        BY <2>1, <3>1, <3>2, <4>1
      <4>3. \A j \in (h + 1) .. i : c[j].role = "tool"
        <5>1. \A j \in (h + 1) .. i : j \in 2 .. now /\ off + j - 1 \in (k + 1) .. place
          BY <3>1, <4>1
        <5> QED
          BY <2>1, <3>2, <5>1
      <4>4. i - h = place - k /\ (place = k + 1 <=> i = h + 1)
        BY <3>1, <4>1
      <4> QED
        BY <3>2, <4>1, <4>2, <4>3, <4>4 DEF Behind
    <3> QED
      BY <3>3, <3>4
  <2>11. Owned(c)
    <3>1. \A i \in 1 .. now : c[i].role = "tool" => i \in 2 .. now
      BY <2>2
    <3> SUFFICES ASSUME NEW i \in 2 .. now, c[i].role = "tool"
                 PROVE  Talk!CutOff(c, i) \/ Behind(c, i)
      BY <1>2, <3>1 DEF Owned
    <3>2. Talk!CutOff(list, off + i - 1) \/ Behind(list, off + i - 1)
      BY <1>2, <2>1 DEF Owned
    <3> QED
      BY <2>9, <2>10, <3>2
  <2> QED
    BY <2>6, <2>7, <2>11
<1> QED
  BY <1>1, <1>2, <1>3, <1>4 DEF c


\* Whether a result is behind its call depends only on the messages up to it.
LEMMA BehindKeeps ==
    ASSUME NEW list, NEW c, NEW i \in Nat, Behind(list, i), \A j \in 1 .. i : c[j] = list[j]
    PROVE  Behind(c, i)
<1>1. PICK k \in 1 .. (i - 1) :
         /\ list[k].role = "assistant"
         /\ \A j \in (k + 1) .. i : list[j].role = "tool"
         /\ \/ list[k].n = 0 /\ i = k + 1 /\ list[i].n = 0
            \/ list[i].n = i - k /\ i - k <= list[k].n
  BY DEF Behind
<1>2. k \in 1 .. i /\ i \in 1 .. i /\ \A j \in (k + 1) .. i : j \in 1 .. i
  OBVIOUS
<1>3. c[k] = list[k] /\ c[i] = list[i] /\ \A j \in (k + 1) .. i : c[j] = list[j]
  BY <1>2
<1> QED
  BY <1>1, <1>3 DEF Behind

\* A request of the operator, or an answer, joins the messages.
LEMMA AppendKeeps ==
    ASSUME NEW list \in Seq(SomeMessages), Owned(list), Served(list),
           NEW m \in SomeMessages, m.role \in {"user", "assistant"},
           m.role = "assistant" => Complete(list)
    PROVE  /\ Append(list, m) \in Seq(SomeMessages)
           /\ Owned(Append(list, m)) /\ Served(Append(list, m))
           /\ m.role = "user" => Complete(Append(list, m))
           /\ Append(list, m) # <<>> /\ Append(list, m)[Len(Append(list, m))] = m
<1> DEFINE c == Append(list, m)
<1>1. PICK len \in Nat : len = Len(list)
  OBVIOUS
<1>2. /\ c \in Seq(SomeMessages) /\ Len(c) = len + 1 /\ c[len + 1] = m
      /\ \A i \in 1 .. len : c[i] = list[i]
  BY <1>1
<1> HIDE DEF c
<1>3. ASSUME NEW i \in 1 .. len, NEW d \in Nat, Done(list, i, d) PROVE Done(c, i, d) /\ i + d <= len
  <2>1. i + d <= len /\ d <= c[i].n
    BY <1>1, <1>2, <1>3 DEF Done
  <2>2. \A k \in 1 .. d : i + k \in 1 .. len
    BY <2>1
  <2>3. \A k \in 1 .. d : list[i + k].role = "tool" /\ list[i + k].n = k
    BY <1>3 DEF Done
  <2>4. \A k \in 1 .. d : c[i + k].role = "tool" /\ c[i + k].n = k
    BY <1>2, <2>2, <2>3
  <2>5. i + d <= Len(c)
    BY <1>2, <2>1
  <2> QED
    BY <2>1, <2>4, <2>5 DEF Done
<1>4. \A i \in 1 .. len, d \in Nat : i + d < len => i + d + 1 \in 1 .. len
  OBVIOUS
<1>5. ASSUME NEW i \in 1 .. len, c[i].role = "assistant"
      PROVE  \E d \in Nat : /\ Done(c, i, d)
                            /\ d < c[i].n => i + d < len + 1 /\ c[i + d + 1].role = "user"
  <2>1. CASE m.role = "user"
    <3>1. PICK d \in Nat : /\ Done(list, i, d)
                           /\ d < list[i].n => i + d = len \/ list[i + d + 1].role = "user"
      BY <1>1, <1>2, <1>5 DEF Served
    <3>2. Done(c, i, d) /\ i + d <= len
      BY <1>3, <3>1
    <3>3. i + d = len => c[i + d + 1].role = "user"
      BY <1>2, <2>1
    <3>4. i + d # len => c[i + d + 1] = list[i + d + 1]
      BY <1>2, <1>4, <3>2
    <3> QED
      BY <1>2, <3>1, <3>2, <3>3, <3>4
  <2>2. CASE m.role = "assistant"
    <3>1. PICK d \in Nat : /\ Done(list, i, d)
                           /\ d < list[i].n => i + d < len /\ list[i + d + 1].role = "user"
      BY <1>1, <1>2, <1>5, <2>2 DEF Complete
    <3>2. Done(c, i, d) /\ i + d <= len
      BY <1>3, <3>1
    <3> QED
      BY <1>2, <1>4, <3>1, <3>2
  <2> QED
    BY <2>1, <2>2
<1>6. Done(c, len + 1, 0)
  BY <1>2 DEF Done, SomeMessages
<1>7. Served(c)
  <2> SUFFICES ASSUME NEW i \in 1 .. len + 1, c[i].role = "assistant"
               PROVE  \E d \in Nat : /\ Done(c, i, d)
                                     /\ d < c[i].n => i + d = len + 1 \/ c[i + d + 1].role = "user"
    BY <1>2 DEF Served
  <2>1. CASE i \in 1 .. len
    BY <1>5, <2>1
  <2>2. CASE i = len + 1
    BY <1>6, <2>2
  <2> QED
    BY <2>1, <2>2
<1>8. m.role = "user" => Complete(c)
  <2> SUFFICES ASSUME m.role = "user", NEW i \in 1 .. len + 1, c[i].role = "assistant"
               PROVE  \E d \in Nat : /\ Done(c, i, d)
                                     /\ d < c[i].n => i + d < len + 1 /\ c[i + d + 1].role = "user"
    BY <1>2 DEF Complete
  <2>1. i \in 1 .. len
    BY <1>2
  <2> QED
    BY <1>5, <2>1
<1>9. Owned(c)
  <2> SUFFICES ASSUME NEW i \in 1 .. len + 1, c[i].role = "tool"
               PROVE  Talk!CutOff(c, i) \/ Behind(c, i)
    BY <1>2 DEF Owned
  <2>1. i \in 1 .. len
    BY <1>2
  <2>2. \A j \in 1 .. i : c[j] = list[j]
    BY <1>2, <2>1
  <2>3. Talk!CutOff(list, i) \/ Behind(list, i)
    BY <1>1, <1>2, <2>1 DEF Owned
  <2>4. CASE Talk!CutOff(list, i)
    BY <2>1, <2>2, <2>4 DEF Talk!CutOff
  <2>5. CASE Behind(list, i)
    BY <2>1, <2>2, <2>5, BehindKeeps
  <2> QED
    BY <2>3, <2>4, <2>5
<1> QED
  BY <1>2, <1>7, <1>8, <1>9 DEF c

\* Results of the last answer's calls join the messages.
LEMMA ResultsKeep ==
    ASSUME NEW list \in Seq(SomeMessages), Owned(list), Served(list), list # <<>>,
           list[Len(list)].role = "assistant",
           NEW asked \in Nat, asked = list[Len(list)].n,
           NEW k \in Nat, 1 <= k, k <= IF asked = 0 THEN 1 ELSE asked,
           NEW c \in Seq(SomeMessages), Len(c) = Len(list) + k,
           \A i \in 1 .. Len(list) : c[i] = list[i],
           \A i \in 1 .. k : /\ c[Len(list) + i].role = "tool"
                             /\ c[Len(list) + i].n = IF asked = 0 THEN 0 ELSE i
    PROVE  /\ Owned(c) /\ Served(c)
           /\ (k = IF asked = 0 THEN 1 ELSE asked) => Complete(c)
<1>1. PICK len \in Nat \ {0}, now \in Nat : len = Len(list) /\ now = Len(c)
  OBVIOUS
<1>2. /\ now = len + k
      /\ \A i \in 1 .. len : c[i] = list[i]
      /\ \A i \in 1 .. k : c[len + i].role = "tool" /\ c[len + i].n = IF asked = 0 THEN 0 ELSE i
      /\ list[len].role = "assistant" /\ list[len].n = asked
  BY <1>1
<1>3. ASSUME NEW i \in 1 .. (len - 1), c[i].role = "assistant"
      PROVE  \E d \in Nat : /\ Done(c, i, d)
                            /\ d < c[i].n => i + d < now /\ c[i + d + 1].role = "user"
  <2>1. PICK d \in Nat : /\ Done(list, i, d)
                         /\ d < list[i].n => i + d = len \/ list[i + d + 1].role = "user"
    BY <1>1, <1>2, <1>3 DEF Served
  <2>2. i + d <= len /\ d <= list[i].n
    BY <1>1, <2>1 DEF Done
  <2>3. i + d # len
    <3> SUFFICES ASSUME i + d = len PROVE FALSE
      OBVIOUS
    <3>1. d \in 1 .. d /\ i + d = len
      OBVIOUS
    <3> QED
      BY <1>2, <2>1, <3>1 DEF Done
  <2>4. \A j \in 1 .. d : i + j \in 1 .. len
    BY <2>2
  <2>5. i + d + 1 \in 1 .. len
    BY <2>2, <2>3
  <2>6. Done(c, i, d)
    <3>1. \A j \in 1 .. d : list[i + j].role = "tool" /\ list[i + j].n = j
      BY <2>1 DEF Done
    <3>2. \A j \in 1 .. d : c[i + j].role = "tool" /\ c[i + j].n = j
      BY <1>2, <2>4, <3>1
    <3>3. i + d <= Len(c) /\ d <= c[i].n
      BY <1>1, <1>2, <2>2
    <3> QED
      BY <3>2, <3>3 DEF Done
  <2>7. i + d < now
    BY <1>2, <2>5
  <2> QED
    BY <1>2, <2>1, <2>3, <2>5, <2>6, <2>7
<1>4. \A i \in 1 .. now : c[i].role = "assistant" => i \in 1 .. (len - 1) \/ i = len
  <2>0. \A i \in 1 .. now : i \in 1 .. (len - 1) \/ i = len \/ i > len
    OBVIOUS
  <2> SUFFICES ASSUME NEW i \in 1 .. now, i > len PROVE c[i].role = "tool"
    BY <2>0
  <2>1. PICK j \in 1 .. k : i = len + j
    <3>1. i - len \in 1 .. k /\ i = len + (i - len)
      BY <1>2
    <3> QED
      BY <3>1
  <2> QED
    BY <1>2, <2>1
<1>5. \E d \in Nat : /\ Done(c, len, d)
                     /\ d < c[len].n => d = k
  <2>1. CASE asked = 0
    <3>1. c[len].n = 0
      BY <1>2, <2>1
    <3>2. Done(c, len, 0)
      <4>1. len + 0 <= Len(c) /\ 0 <= 0
        BY <1>1, <1>2
      <4>2. 1 .. 0 = {}
        OBVIOUS
      <4> QED
        BY <3>1, <4>1, <4>2 DEF Done
    <3> QED
      BY <3>1, <3>2
  <2>2. CASE asked # 0
    <3>1. Done(c, len, k)
      BY <1>1, <1>2, <2>2 DEF Done
    <3> QED
      BY <3>1
  <2> QED
    BY <2>1, <2>2
<1>6. Served(c)
  <2> SUFFICES ASSUME NEW i \in 1 .. now, c[i].role = "assistant"
               PROVE  \E d \in Nat : /\ Done(c, i, d)
                                     /\ d < c[i].n => i + d = now \/ c[i + d + 1].role = "user"
    BY <1>1 DEF Served
  <2>1. CASE i \in 1 .. (len - 1)
    BY <1>3, <2>1
  <2>2. CASE i = len
    BY <1>2, <1>5, <2>2
  <2> QED
    BY <1>4, <2>1, <2>2
<1>7. ASSUME k = IF asked = 0 THEN 1 ELSE asked PROVE Complete(c)
  <2> SUFFICES ASSUME NEW i \in 1 .. now, c[i].role = "assistant"
               PROVE  \E d \in Nat : /\ Done(c, i, d)
                                     /\ d < c[i].n => i + d < now /\ c[i + d + 1].role = "user"
    BY <1>1 DEF Complete
  <2>1. CASE i \in 1 .. (len - 1)
    BY <1>3, <2>1
  <2>2. CASE i = len
    <3>1. PICK d \in Nat : Done(c, len, d) /\ (d < c[len].n => d = k)
      BY <1>5
    <3>2. c[len].n = asked
      BY <1>2
    <3>3. ~(d < c[len].n)
      BY <1>7, <3>1, <3>2
    <3> QED
      BY <2>2, <3>1, <3>3
  <2> QED
    BY <1>4, <2>1, <2>2
<1>8. Owned(c)
  <2> SUFFICES ASSUME NEW i \in 1 .. now, c[i].role = "tool"
               PROVE  Talk!CutOff(c, i) \/ Behind(c, i)
    BY <1>1 DEF Owned
  <2>1. CASE i <= len
    <3>1. \A j \in 1 .. i : c[j] = list[j]
      BY <1>2, <2>1
    <3>2. Talk!CutOff(list, i) \/ Behind(list, i)
      BY <1>1, <1>2, <2>1 DEF Owned
    <3>3. CASE Talk!CutOff(list, i)
      BY <2>1, <3>1, <3>3 DEF Talk!CutOff
    <3>4. CASE Behind(list, i)
      BY <2>1, <3>1, <3>4, BehindKeeps
    <3> QED
      BY <3>2, <3>3, <3>4
  <2>2. CASE i > len
    <3>1. PICK j \in 1 .. k : i = len + j
      <4>1. i - len \in 1 .. k /\ i = len + (i - len)
        BY <1>2, <2>2
      <4> QED
        BY <4>1
    <3>2. \A h \in (len + 1) .. i : c[h].role = "tool"
      <4> TAKE h \in (len + 1) .. i
      <4>1. h - len \in 1 .. k /\ h = len + (h - len)
        BY <3>1
      <4> QED
        BY <1>2, <4>1
    <3>3. len \in 1 .. (i - 1) /\ c[len].role = "assistant" /\ c[len].n = asked
      BY <1>2, <2>2
    <3>4. \/ asked = 0 /\ i = len + 1 /\ c[i].n = 0
          \/ c[i].n = i - len /\ i - len <= asked
      BY <1>2, <3>1
    <3> QED
      BY <3>2, <3>3, <3>4 DEF Behind
  <2> QED
    BY <2>1, <2>2
<1> QED
  BY <1>6, <1>7, <1>8


\* The elements of two sequences put together.
LEMMA Joined ==
    ASSUME NEW S, NEW s \in Seq(S), NEW t \in Seq(S)
    PROVE  /\ s \o t \in Seq(S)
           /\ Len(s \o t) = Len(s) + Len(t)
           /\ \A i \in 1 .. Len(s) : (s \o t)[i] = s[i]
           /\ \A i \in 1 .. Len(t) : (s \o t)[Len(s) + i] = t[i]
BY ConcatProperties

\* Results of calls join the messages: the turn ends, or all have come.
LEMMA ResultsStep ==
    ASSUME TalkInv, NEW k \in 1 .. MaxCalls, NEW sizes \in [1 .. k -> Talk!Sizes],
           Talk!Results(sizes)
    PROVE  TalkInv'
<1>1. /\ phase = "results"
      /\ Len(sizes) \in 1 .. Talk!Due
  BY DEF Talk!Results
<1>2. /\ turns \in Nat /\ messages \in Seq(SomeMessages) /\ Served(messages) /\ Owned(messages)
      /\ conversation \in Seq(SomeMessages) /\ Served(conversation) /\ Owned(conversation)
      /\ messages # <<>> /\ messages[Len(messages)].role = "assistant"
  BY <1>1 DEF TalkInv
<1>3. PICK asked \in Nat : asked = messages[Len(messages)].n
  <2>1. messages[Len(messages)] \in SomeMessages
    BY <1>2
  <2> QED
    BY <2>1 DEF SomeMessages
<1>4. PICK due \in Nat : due = IF asked = 0 THEN 1 ELSE asked
  OBVIOUS
<1>5. Talk!Due = due /\ Talk!Asked = asked
  BY <1>3, <1>4 DEF Talk!Due, Talk!Asked
<1>6. k \in Nat /\ Len(sizes) = k /\ \A i \in 1 .. k : sizes[i] \in Nat
  <2>1. k \in Nat /\ sizes \in Seq(Talk!Sizes) /\ DOMAIN sizes = 1 .. k
    OBVIOUS
  <2>2. Len(sizes) = k
    BY <2>1
  <2>3. \A i \in 1 .. k : sizes[i] \in Talk!Sizes
    OBVIOUS
  <2> QED
    BY <2>1, <2>2, <2>3 DEF Talk!Sizes
<1> DEFINE results == [i \in 1 .. Len(sizes) |->
                          Talk!Message("tool", IF Talk!Asked = 0 THEN 0 ELSE i, sizes[i])]
           list == messages \o results
<1>7. Talk!Ends(list) \/ (Talk!MayGoOn(Len(sizes)) /\ Talk!GoesOn(list, "ask"))
  BY DEF Talk!Results
<1>8. /\ results \in Seq(SomeMessages) /\ Len(results) = k
      /\ \A i \in 1 .. k : /\ results[i].role = "tool"
                           /\ results[i].n = IF asked = 0 THEN 0 ELSE i
  <2> DEFINE result(i) == [role |-> "tool", n |-> IF asked = 0 THEN 0 ELSE i, size |-> sizes[i]]
  <2>1. results = [i \in 1 .. k |-> result(i)]
    BY <1>5, <1>6 DEF Talk!Message
  <2>2. \A i \in 1 .. k : /\ result(i) \in SomeMessages
                          /\ result(i).role = "tool" /\ result(i).n = IF asked = 0 THEN 0 ELSE i
    BY <1>6 DEF SomeMessages, Talk!Roles
  <2> HIDE DEF result, results
  <2>3. results \in Seq(SomeMessages) /\ Len(results) = k /\ \A i \in 1 .. k : results[i] = result(i)
    BY <1>6, <2>1, <2>2
  <2> QED
    BY <2>2, <2>3
<1> HIDE DEF results
<1>9. /\ list \in Seq(SomeMessages) /\ Len(list) = Len(messages) + k
      /\ \A i \in 1 .. Len(messages) : list[i] = messages[i]
      /\ \A i \in 1 .. k : list[Len(messages) + i] = results[i]
  <2>1. messages \in Seq(SomeMessages) /\ results \in Seq(SomeMessages) /\ Len(results) = k
    BY <1>2, <1>8
  <2>2. PICK r \in Seq(SomeMessages) : r = results
    BY <2>1
  <2>3. list = messages \o r
    BY <2>2
  <2>4. /\ messages \o r \in Seq(SomeMessages)
        /\ Len(messages \o r) = Len(messages) + Len(r)
        /\ \A i \in 1 .. Len(messages) : (messages \o r)[i] = messages[i]
        /\ \A i \in 1 .. Len(r) : (messages \o r)[Len(messages) + i] = r[i]
    BY <2>1, Joined
  <2>5. Len(r) = k
    BY <2>1, <2>2
  <2> HIDE DEF list
  <2> QED
    BY <2>2, <2>3, <2>4, <2>5
<1> HIDE DEF list
<1>10. \A i \in 1 .. k : /\ list[Len(messages) + i].role = "tool"
                         /\ list[Len(messages) + i].n = IF asked = 0 THEN 0 ELSE i
  BY <1>8, <1>9
<1>11. 1 <= k /\ k <= IF asked = 0 THEN 1 ELSE asked
  <2>1. 1 <= k /\ k <= due
    BY <1>1, <1>5, <1>6
  <2> QED
    BY <1>4, <2>1
<1>12. /\ Owned(list) /\ Served(list)
       /\ (k = IF asked = 0 THEN 1 ELSE asked) => Complete(list)
  <2>1. PICK m \in Seq(SomeMessages) : m = messages
    BY <1>2
  <2>2. PICK c \in Seq(SomeMessages) : c = list
    BY <1>9
  <2>3. Owned(m) /\ Served(m) /\ m # <<>> /\ m[Len(m)].role = "assistant" /\ asked = m[Len(m)].n
    BY <1>2, <1>3, <2>1
  <2>4. /\ Len(c) = Len(m) + k
        /\ \A i \in 1 .. Len(m) : c[i] = m[i]
        /\ \A i \in 1 .. k : /\ c[Len(m) + i].role = "tool"
                             /\ c[Len(m) + i].n = IF asked = 0 THEN 0 ELSE i
    BY <1>9, <1>10, <2>1, <2>2
  <2>5. Owned(c) /\ Served(c) /\ ((k = IF asked = 0 THEN 1 ELSE asked) => Complete(c))
    BY <1>6, <1>11, <2>3, <2>4, ResultsKeep
  <2> QED
    BY <2>2, <2>5
<1>13. <<>> \in Seq(SomeMessages) /\ Complete(<<>>) /\ Owned(<<>>) /\ Served(<<>>)
  BY DEF Complete, Owned, Served
<1>14. CASE Talk!Ends(list)
  BY <1>2, <1>9, <1>12, <1>13, <1>14 DEF Talk!Ends, TalkInv
<1>15. CASE Talk!MayGoOn(Len(sizes)) /\ Talk!GoesOn(list, "ask")
  <2>1. k = due
    BY <1>5, <1>6, <1>15 DEF Talk!MayGoOn
  <2>2. Complete(list)
    BY <1>4, <1>12, <2>1
  <2> QED
    BY <1>2, <1>9, <1>12, <1>13, <1>15, <2>2 DEF Talk!GoesOn, TalkInv
<1> QED
  BY <1>7, <1>14, <1>15

\* A step of the conversation keeps its invariant.
LEMMA TalkStep ==
    ASSUME TalkInv, [Talk!Next]_Talk!vars
    PROVE  TalkInv'
<1> USE DEF TalkInv
<1>1. \A role \in Talk!Roles, n, size \in Nat :
         /\ Talk!Message(role, n, size) \in SomeMessages
         /\ Talk!Message(role, n, size).role = role /\ Talk!Message(role, n, size).n = n
  BY DEF Talk!Message, SomeMessages
<1>2. "user" \in Talk!Roles /\ "assistant" \in Talk!Roles /\ "tool" \in Talk!Roles
  BY DEF Talk!Roles
<1>3. <<>> \in Seq(SomeMessages) /\ Complete(<<>>) /\ Owned(<<>>) /\ Served(<<>>)
  BY DEF Complete, Owned, Served
<1>4. ASSUME NEW list \in Seq(SomeMessages), Complete(list) PROVE Served(list)
  <2> SUFFICES ASSUME NEW i \in 1 .. Len(list), list[i].role = "assistant"
               PROVE  \E d \in Nat : /\ Done(list, i, d)
                                     /\ d < list[i].n =>
                                           i + d = Len(list) \/ list[i + d + 1].role = "user"
    BY DEF Served
  <2> QED
    BY <1>4 DEF Complete
<1>5. ASSUME NEW list \in Seq(SomeMessages), Served(list), Owned(list), Talk!Ends(list)
      PROVE  TalkInv'
  BY <1>3, <1>5 DEF Talk!Ends
<1>6. CASE Talk!Begin
  <2>1. PICK base \in {conversation, Talk!PageHistory} :
           messages' = Append(Talk!Compact(base, Usual), Talk!Message("user", 0, 1))
    BY <1>6 DEF Talk!Begin
  <2>2. base \in Seq(SomeMessages) /\ Served(base) /\ Owned(base)
    <3>1. CASE base = Talk!PageHistory
      <4>1. PICK len \in Nat : len = 2 * turns
        OBVIOUS
      <4>2. base = [i \in 1 .. len |->
                       Talk!Message(IF i % 2 = 1 THEN "user" ELSE "assistant", 0, 1)]
        BY <3>1, <4>1 DEF Talk!PageHistory
      <4>3. \A i \in 1 .. len :
               Talk!Message(IF i % 2 = 1 THEN "user" ELSE "assistant", 0, 1) \in SomeMessages
        BY <1>1, <1>2
      <4>4. base \in Seq(SomeMessages) /\ Len(base) = len
        BY <4>2, <4>3
      <4>5. \A i \in 1 .. len : base[i].role \in {"user", "assistant"} /\ base[i].n = 0
        BY <1>1, <1>2, <4>2
      <4>6. \A i \in 1 .. len : Done(base, i, 0)
        BY <4>4, <4>5 DEF Done
      <4>7. Served(base)
        BY <4>4, <4>5, <4>6 DEF Served
      <4>8. Owned(base)
        BY <4>4, <4>5 DEF Owned
      <4> QED
        BY <4>4, <4>7, <4>8
    <3> QED
      BY <2>1, <3>1
  <2>3. /\ Talk!Compact(base, Usual) \in Seq(SomeMessages)
        /\ Owned(Talk!Compact(base, Usual)) /\ Served(Talk!Compact(base, Usual))
    BY <2>2, CutKeeps
  <2>4. Talk!Message("user", 0, 1) \in SomeMessages /\ Talk!Message("user", 0, 1).role = "user"
    BY <1>1, <1>2
  <2>5. PICK m \in SomeMessages : m = Talk!Message("user", 0, 1) /\ m.role = "user"
    BY <2>4
  <2>6. PICK c \in Seq(SomeMessages) : c = Talk!Compact(base, Usual) /\ Owned(c) /\ Served(c)
    BY <2>3
  <2>7. messages' = Append(c, m)
    BY <2>1, <2>5, <2>6
  <2>8. /\ messages' \in Seq(SomeMessages) /\ Owned(messages') /\ Served(messages')
        /\ Complete(messages')
    BY <2>5, <2>6, <2>7, AppendKeeps
  <2> QED
    BY <1>6, <2>8 DEF Talk!Begin
<1>7. CASE Talk!AskConnection
  <2> DEFINE list == <<Talk!Message("user", 0, 1), Talk!Message("assistant", 0, 1)>>
  <2>1. /\ list \in Seq(SomeMessages) /\ Len(list) = 2
        /\ list[1].role = "user" /\ list[2].role = "assistant" /\ list[2].n = 0
    BY <1>1, <1>2
  <2>2. conversation' = list /\ turns' = turns + 1 /\ UNCHANGED <<phase, messages, rounds, sent>>
    BY <1>7 DEF Talk!AskConnection
  <2> HIDE DEF list
  <2>3. Done(list, 2, 0) /\ \A i \in 1 .. 2 : i = 1 \/ i = 2
    BY <2>1 DEF Done
  <2>4. Served(list) /\ Owned(list)
    BY <2>1, <2>3 DEF Served, Owned
  <2> QED
    BY <2>1, <2>2, <2>4
<1>8. CASE Talk!Request
  <2>1. /\ phase = "ask" /\ sent' = Talk!Compact(messages, Usual) /\ phase' = "model"
        /\ UNCHANGED <<conversation, turns, messages>>
    BY <1>8 DEF Talk!Request
  <2>2. sent' \in Seq(SomeMessages) /\ Complete(sent') /\ Owned(sent')
    BY <2>1, CutKeeps
  <2> QED
    BY <2>1, <2>2
<1>9. CASE Talk!ContextLimit
  <2>1. /\ phase = "model" /\ sent' = Talk!Compact(messages, Reduced) /\ phase' = "retry"
        /\ UNCHANGED <<conversation, turns, messages>>
    BY <1>9 DEF Talk!ContextLimit
  <2>2. sent' \in Seq(SomeMessages) /\ Complete(sent') /\ Owned(sent')
    BY <2>1, CutKeeps
  <2> QED
    BY <2>1, <2>2
<1>10. CASE Talk!RequestFails
  BY <1>5, <1>10 DEF Talk!RequestFails
<1>11. ASSUME NEW n \in 0 .. MaxCalls, Talk!Answer(n) PROVE TalkInv'
  <2> DEFINE m == Talk!Message("assistant", n, 1)
             list == Append(messages, m)
  <2>1. n \in Nat /\ m \in SomeMessages /\ m.role = "assistant"
    BY <1>1, <1>2
  <2>2. Complete(messages)
    BY <1>11 DEF Talk!Answer
  <2>3. /\ list \in Seq(SomeMessages) /\ Owned(list) /\ Served(list)
        /\ list # <<>> /\ list[Len(list)] = m
    <3> HIDE DEF m
    <3> QED
      BY <2>1, <2>2, AppendKeeps
  <2>4. Talk!Ends(list) \/ Talk!GoesOn(list, "results")
    BY <1>11 DEF Talk!Answer
  <2> HIDE DEF list, m
  <2>5. CASE Talk!GoesOn(list, "results")
    BY <1>3, <2>1, <2>3, <2>5 DEF Talk!GoesOn
  <2> QED
    BY <1>5, <2>3, <2>4, <2>5
<1>12. ASSUME NEW k \in 1 .. MaxCalls, NEW sizes \in [1 .. k -> Talk!Sizes], Talk!Results(sizes)
       PROVE  TalkInv'
  BY <1>12, ResultsStep
<1>13. CASE UNCHANGED Talk!vars
  BY <1>13 DEF Talk!vars
<1> QED
  BY <1>6, <1>7, <1>8, <1>9, <1>10, <1>11, <1>12, <1>13 DEF Talk!Next

\* ResultsPaired: in what a provider is sent the results of an answer's calls stand
\* right behind it, in order and all of them unless a turn ended before they had run,
\* and a result stands behind its call, unless compaction left the call out.
THEOREM ResultsArePaired == Talk!Spec => []ResultsPaired
<1>1. Talk!Init => TalkInv
  BY DEF Talk!Init, TalkInv, Complete, Owned, Served
<1>2. TalkInv /\ [Talk!Next]_Talk!vars => TalkInv'
  BY TalkStep
<1>3. TalkInv => ResultsPaired
  <2> SUFFICES ASSUME TalkInv PROVE Talk!ResultsPaired
    BY DEF ResultsPaired
  <2>1. \A j \in 1 .. Len(sent) : sent[j].n \in Nat
    <3>1. \A j \in 1 .. Len(sent) : sent[j] \in SomeMessages
      BY DEF TalkInv
    <3> QED
      BY <3>1 DEF SomeMessages
  <2>2. ASSUME NEW i \in 1 .. Len(sent), sent[i].role = "assistant"
        PROVE  \E done \in 0 .. sent[i].n :
                  /\ i + done <= Len(sent)
                  /\ \A k \in 1 .. done : sent[i + k].role = "tool" /\ sent[i + k].n = k
                  /\ done < sent[i].n => i + done < Len(sent) /\ sent[i + done + 1].role = "user"
    <3>1. PICK d \in Nat : /\ Done(sent, i, d)
                           /\ d < sent[i].n => i + d < Len(sent) /\ sent[i + d + 1].role = "user"
      BY <2>2 DEF TalkInv, Complete
    <3>2. d <= sent[i].n /\ i + d <= Len(sent)
      BY <3>1 DEF Done
    <3>3. d \in 0 .. sent[i].n
      BY <2>1, <3>2
    <3>4. \A k \in 1 .. d : sent[i + k].role = "tool" /\ sent[i + k].n = k
      BY <3>1 DEF Done
    <3> QED
      BY <3>1, <3>2, <3>3, <3>4
  <2>3. ASSUME NEW i \in 1 .. Len(sent), sent[i].role = "tool"
        PROVE  \/ Talk!CutOff(sent, i)
               \/ sent[i].n = 0 /\ sent[i - 1].role = "assistant" /\ sent[i - 1].n = 0
               \/ \E k \in 1 .. (i - 1) : /\ sent[k].role = "assistant"
                                          /\ sent[k].n >= sent[i].n
                                          /\ i - k = sent[i].n
    <3>1. CASE Talk!CutOff(sent, i)
      BY <3>1
    <3>2. CASE Behind(sent, i)
      <4>1. PICK k \in 1 .. (i - 1) :
               /\ sent[k].role = "assistant"
               /\ \/ sent[k].n = 0 /\ i = k + 1 /\ sent[i].n = 0
                  \/ sent[i].n = i - k /\ i - k <= sent[k].n
        BY <3>2 DEF Behind
      <4>2. CASE sent[k].n = 0 /\ i = k + 1 /\ sent[i].n = 0
        <5>1. k = i - 1
          BY <4>2
        <5> QED
          BY <4>1, <4>2, <5>1
      <4>3. CASE sent[i].n = i - k /\ i - k <= sent[k].n
        <5>1. k \in 1 .. Len(sent) /\ sent[k].n \in Nat
          <6>1. k \in 1 .. Len(sent)
            BY DEF TalkInv
          <6> QED
            BY <2>1, <6>1
        <5> QED
          BY <4>1, <4>3, <5>1
      <4> QED
        BY <4>1, <4>2, <4>3
    <3> QED
      BY <2>3, <3>1, <3>2 DEF TalkInv, Owned
  <2> QED
    BY <2>2, <2>3 DEF Talk!ResultsPaired
<1> QED
  BY <1>1, <1>2, <1>3, PTL DEF Talk!Spec

-----------------------------------------------------------------------------
\* SupersededHasSuccessor, LossExplained, PageKeepsChats, ToldIsTrue, ResultsPaired
\* and AnswerAsSent: the promises of the parts are kept in every behaviour of them
\* side by side.
THEOREM PartsKeepPromises ==
    PartsSpec => /\ [](SupersededHasSuccessor /\ ToldIsTrue /\ ResultsPaired /\ AnswerAsSent)
                 /\ LossExplained /\ PageKeepsChats
BY PartsAreParts, MemoryStaysChained, LossesExplained, PagesKeepChats, BuildTellsTrue,
   ResultsArePaired, AnswersAreRead, PTL
=============================================================================
