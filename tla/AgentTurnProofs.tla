--------------------------- MODULE AgentTurnProofs ---------------------------
(***************************************************************************)
(* Proofs about AgentTurn, for any tools, profiles, batch size and number  *)
(* of rounds: the types, what the operator is shown, what a refusal stops, *)
(* what plan mode allows, and what an approval and an abort mean for the   *)
(* D3 commands of the turn.                                                *)
(***************************************************************************)
EXTENDS AgentTurn, FiniteSetTheorems, WellFoundedInduction, TLAPS

\* Only a batch under way has calls, and it counts as a round.
BatchOnly ==
    /\ phase # "batch" => batch = <<>>
    /\ phase = "batch" => rounds < MaxRounds

\* How far a call is and how its approval was settled go together.
CallsAndVerdicts ==
    \A i \in DOMAIN batch :
        /\ call[i] \in {"queued", "gated"} => verdict[i] = "none"
        /\ call[i] = "waiting" => verdict[i] # "none"
        /\ call[i] = "running" => verdict[i] \in {"none", "approved"}
        /\ verdict[i] = "pending" => call[i] = "waiting" /\ ~aborted
        /\ verdict[i] = "cancelled" => aborted
        /\ verdict[i] = "approved" => Id(i) \in granted

\* A batch with a mutation runs its calls one after the other.
SerialOrder ==
    Serial => \A i, j \in DOMAIN batch : i < j /\ call[j] # "queued" => Settled(i)

\* What stopped says of a batch with a mutation.
SerialStopped ==
    Serial => \A i \in DOMAIN batch :
        /\ call[i] = "waiting" => stopped = "incomplete"
        /\ i = 1 /\ call[i] = "queued" => stopped = ""
        /\ Refused(i) => stopped # "" \/ aborted

\* In plan mode no call comes as far as its approval.
PlanNeverAsks ==
    mode = "plan" => \A i \in DOMAIN batch : call[i] \notin {"gated", "waiting"}

\* The inductive invariant.
Inv ==
    /\ TypeOK /\ BatchOnly /\ CallsAndVerdicts /\ SerialOrder /\ SerialStopped
    /\ PlanNeverAsks /\ PlanReads /\ RefusalStopsBatch /\ ShownIsPending

-----------------------------------------------------------------------------
(* What the operators return.                                              *)

\* A batch is a sequence of at most MaxBatch calls.
LEMMA BatchIsSequence ==
    ASSUME TypeOK
    PROVE  \E n \in 0..MaxBatch : DOMAIN batch = 1..n /\ batch \in [1..n -> Tools]
<1>1. CASE batch = <<>>
  BY <1>1, TurnAssumption
<1>2. CASE batch \in Batches
  <2>1. PICK n \in 1..MaxBatch : batch \in [1..n -> Tools]
    BY <1>2 DEF Batches
  <2> QED
    BY <2>1, TurnAssumption
<1> QED
  BY <1>1, <1>2 DEF TypeOK

\* The places of a batch are the second parts of its approval ids.
LEMMA IdsOfBatch ==
    ASSUME TypeOK
    PROVE  /\ \A i \in DOMAIN batch : i \in 1..MaxBatch /\ batch[i] \in Tools /\ Id(i) \in Ids
           /\ \A i, j \in DOMAIN batch : Id(i) = Id(j) => i = j
           /\ \A i \in DOMAIN batch : Id(i) # None /\ Id(i)[1] = rounds /\ Id(i)[2] = i
<1>1. PICK n \in 0..MaxBatch : DOMAIN batch = 1..n /\ batch \in [1..n -> Tools]
  BY BatchIsSequence
<1>2. MaxBatch \in Nat /\ MaxRounds \in Nat /\ rounds \in 0..MaxRounds
  BY TurnAssumption DEF TypeOK
<1>3. \A i \in DOMAIN batch : i \in 1..MaxBatch /\ batch[i] \in Tools
  BY <1>1, <1>2
<1>4. \A i \in DOMAIN batch : Id(i) \in Ids /\ Id(i) \in Nat \X Nat
  BY <1>2, <1>3 DEF Id, Ids
<1> QED
  BY <1>3, <1>4, TurnAssumption DEF Id

\* The places of a batch are numbered from 1.
LEMMA PlacesAreOrdered ==
    ASSUME TypeOK
    PROVE  /\ \A i \in DOMAIN batch : i \in Nat /\ i >= 1
           /\ \A i, j \in DOMAIN batch : i # j => i < j \/ i > j
           /\ \A i, j \in DOMAIN batch : i < j => j > 1 /\ j # 1 /\ j > i
<1>1. PICK n \in 0..MaxBatch : DOMAIN batch = 1..n /\ batch \in [1..n -> Tools]
  BY BatchIsSequence
<1>2. n \in Nat
  BY TurnAssumption
<1> QED
  BY <1>1, <1>2

\* How often a batch holds a call is a natural number.
LEMMA OccurrencesType ==
    ASSUME NEW b \in Batches, NEW t PROVE Occurrences(b, t) \in Nat
<1>1. PICK n \in 1..MaxBatch : b \in [1..n -> Tools]
  BY DEF Batches
<1>2. n \in Nat
  BY TurnAssumption
<1>3. IsFiniteSet(1..n)
  BY <1>2, FS_Interval
<1>4. {i \in DOMAIN b : b[i] = t} \in SUBSET (1..n)
  BY <1>1
<1> QED
  BY <1>3, <1>4, FS_Subset, FS_CardinalityType DEF Occurrences

\* Some line of a command is at least as risky as all of them, and
\* CommandRisk is the risk of such a line.
LEMMA RiskiestLine ==
    ASSUME NEW lines \in SUBSET Risks, lines # {}
    PROVE  \E r \in lines : CommandRisk(lines, FALSE) = r /\ \A s \in lines : AtLeast(r, s)
<1>1. /\ RiskOrder[1] = "read" /\ RiskOrder[2] = "write" /\ RiskOrder[3] = "compile"
      /\ RiskOrder[4] = "destructive" /\ RiskOrder[5] = "shell"
  BY DEF RiskOrder
<1>2. PICK m \in 1..5 : RiskOrder[m] \in lines /\ \A k \in 1..5 : RiskOrder[k] \in lines => k <= m
  <2>1. \E k \in 1..5 : RiskOrder[k] \in lines
    BY DEF Risks
  <2> QED
    BY <2>1
<1>3. \A s \in lines : AtLeast(RiskOrder[m], s)
  BY <1>2 DEF AtLeast, Risks
<1> DEFINE riskiest == CHOOSE r \in lines : \A s \in lines : AtLeast(r, s)
<1>4. riskiest \in lines /\ \A s \in lines : AtLeast(riskiest, s)
  BY <1>2, <1>3
<1>5. CommandRisk(lines, FALSE) = riskiest
  BY DEF CommandRisk
<1> HIDE DEF riskiest
<1> QED
  BY <1>4, <1>5

\* A command whose risk is read consists of reads.
LEMMA ReadsOnly ==
    ASSUME NEW lines \in SUBSET Risks, CommandRisk(lines, FALSE) = "read"
    PROVE  lines \subseteq {"read"}
<1>1. lines # {}
  BY DEF CommandRisk
<1>2. PICK r \in lines : CommandRisk(lines, FALSE) = r /\ \A s \in lines : AtLeast(r, s)
  BY <1>1, RiskiestLine, Zenon
<1>3. /\ RiskOrder[1] = "read" /\ RiskOrder[2] = "write" /\ RiskOrder[3] = "compile"
      /\ RiskOrder[4] = "destructive" /\ RiskOrder[5] = "shell"
  BY DEF RiskOrder
<1>4. ASSUME NEW s, AtLeast("read", s) PROVE s = "read"
  <2>1. PICK i, j \in 1..5 : i >= j /\ "read" = RiskOrder[i] /\ s = RiskOrder[j]
    BY <1>4 DEF AtLeast
  <2>2. i = 1
    BY <2>1, <1>3
  <2> QED
    BY <2>1, <2>2, <1>3
<1> QED
  BY <1>2, <1>4, Zenon

\* In plan mode the policy lets reads through and asks for nothing.
LEMMA PlanPolicy ==
    ASSUME TypeOK, mode = "plan", NEW i \in DOMAIN batch, NEW confirmed \in BOOLEAN
    PROVE  /\ Policy(i, confirmed) # "needs approval"
           /\ Policy(i, confirmed) = "allowed" => batch[i].lines \subseteq {"read"}
<1> DEFINE risk == CommandRisk(batch[i].lines, conn \in ShellConns)
<1>1. batch[i].lines \in SUBSET Risks
  BY IdsOfBatch, TurnAssumption DEF ToolTypes
<1>2. Permission("plan", risk) = IF risk = "read" THEN "allow" ELSE "deny"
  BY DEF Permission
<1>3. Policy(i, confirmed) = IF risk = "read" THEN "allowed" ELSE "denied"
  BY <1>2 DEF Policy, Verdict
<1>4. risk = "read" => CommandRisk(batch[i].lines, FALSE) = "read"
  BY DEF CommandRisk
<1> HIDE DEF risk
<1> QED
  BY <1>1, <1>3, <1>4, ReadsOnly

\* A call that fails is settled, and nothing else about the calls changes.
LEMMA FailType ==
    ASSUME TypeOK, NEW i \in DOMAIN batch, Fail(i)
    PROVE  /\ failed' \in [Tools -> 0..2]
           /\ call' = [call EXCEPT ![i] = "failed"]
           /\ call' \in [DOMAIN batch -> CallStates]
<1>1. batch[i] \in Tools
  BY IdsOfBatch
<1>2. call' = [call EXCEPT ![i] = "failed"]
  BY DEF Fail
<1>3. call' \in [DOMAIN batch -> CallStates]
  BY <1>2 DEF TypeOK, CallStates
<1>4. failed' \in [Tools -> 0..2]
  <2>1. CASE UNCHANGED failed
    BY <2>1 DEF TypeOK
  <2>2. CASE failed' = [failed EXCEPT ![batch[i]] = IF @ < 2 THEN @ + 1 ELSE 2]
    <3>1. failed \in [Tools -> 0..2] /\ failed[batch[i]] \in 0..2
      BY <1>1 DEF TypeOK
    <3>2. (IF failed[batch[i]] < 2 THEN failed[batch[i]] + 1 ELSE 2) \in 0..2
      BY <3>1
    <3> QED
      BY <1>1, <2>2, <3>1, <3>2
  <2> QED
    BY <2>1, <2>2 DEF Fail
<1> QED
  BY <1>2, <1>3, <1>4

-----------------------------------------------------------------------------
(* The loop around the model keeps Inv.                                    *)

\* The empty sequence has no elements, and is a function from them.
LEMMA EmptySequence == DOMAIN <<>> = {} /\ \A S : <<>> \in [{} -> S]
OBVIOUS

\* Initially there is no batch and nothing is shown.
LEMMA InitInv == Init => Inv
<1> SUFFICES ASSUME Init PROVE Inv
  OBVIOUS
<1>1. batch = <<>> /\ call = <<>> /\ proposed = <<>> /\ verdict = <<>> /\ DOMAIN batch = {}
  <2>1. batch = <<>> /\ call = <<>> /\ proposed = <<>> /\ verdict = <<>>
    BY DEF Init
  <2> QED
    BY <2>1, EmptySequence
<1>2. TypeOK
  <2>1. /\ call \in [DOMAIN batch -> CallStates] /\ verdict \in [DOMAIN batch -> Verdicts]
        /\ proposed \in [DOMAIN batch -> Conns \cup {None}]
    BY <1>1, EmptySequence
  <2>2. repeated \in [Tools -> 0..2] /\ failed \in [Tools -> 0..2] /\ rounds \in 0..MaxRounds
    <3>1. repeated = [t \in Tools |-> 0] /\ failed = [t \in Tools |-> 0] /\ rounds = 0
      BY Zenon DEF Init
    <3> QED
      BY <3>1, TurnAssumption
  <2> QED
    BY <1>1, <2>1, <2>2 DEF Init, TypeOK
<1>3. BatchOnly /\ CallsAndVerdicts /\ PlanNeverAsks /\ PlanReads
  BY <1>1 DEF Init, BatchOnly, CallsAndVerdicts, PlanNeverAsks, PlanReads
<1>4. SerialOrder /\ SerialStopped /\ RefusalStopsBatch /\ ShownIsPending
  BY <1>1 DEF Init, SerialOrder, SerialStopped, RefusalStopsBatch, ShownIsPending
<1> QED
  BY <1>2, <1>3, <1>4 DEF Inv

\* Without a batch nothing is pending, so no approval is shown.
LEMMA NothingShown ==
    ASSUME Inv, phase # "batch" PROVE batch = <<>> /\ DOMAIN batch = {} /\ current = None
<1>1. batch = <<>>
  BY DEF Inv, BatchOnly
<1>2. DOMAIN batch = {}
  BY <1>1
<1> QED
  BY <1>1, <1>2 DEF Inv, ShownIsPending

\* A step to a state without a batch and without a shown approval keeps Inv.
LEMMA EmptyBatchInv ==
    ASSUME Inv, TypeOK', DOMAIN batch' = {}, batch' = <<>>, current' = None,
           phase' # "batch", phase' = "model" => stopped' = "",
           UNCHANGED <<mode, shown>>
    PROVE  Inv'
<1>1. BatchOnly' /\ CallsAndVerdicts' /\ PlanNeverAsks'
  BY DEF BatchOnly, CallsAndVerdicts, PlanNeverAsks
<1>2. PlanReads'
  BY DEF Inv, PlanReads
<1>3. ~Serial'
  BY DEF Serial
<1>4. SerialOrder' /\ SerialStopped' /\ RefusalStopsBatch' /\ ShownIsPending'
  BY <1>3 DEF SerialOrder, SerialStopped, RefusalStopsBatch, ShownIsPending
<1> QED
  BY <1>1, <1>2, <1>4 DEF Inv

\* The end of the turn keeps Inv.
LEMMA EndTurnInv == ASSUME Inv, EndTurn PROVE Inv'
<1>1. batch = <<>> /\ DOMAIN batch = {} /\ UNCHANGED batch
  BY NothingShown DEF EndTurn
<1>2. TypeOK'
  BY DEF Inv, TypeOK, EndTurn, envVars
<1> QED
  BY <1>1, <1>2, EmptyBatchInv DEF EndTurn

\* The end of a batch keeps Inv: none of its approvals is pending any more.
LEMMA EndBatchInv == ASSUME Inv, EndBatch PROVE Inv'
<1>1. \A i \in DOMAIN batch : verdict[i] # "pending"
  BY DEF Inv, CallsAndVerdicts, EndBatch, Settled
<1>2. current = None /\ current' = None
  BY <1>1 DEF Inv, ShownIsPending, EndBatch
<1>3. batch' = <<>> /\ DOMAIN batch' = {}
  <2>1. batch' = <<>>
    BY DEF EndBatch
  <2> QED
    BY <2>1, EmptySequence
<1>4. rounds' \in 0..MaxRounds
  <2>1. rounds \in 0..MaxRounds /\ rounds < MaxRounds /\ rounds' = rounds + 1
    BY DEF Inv, TypeOK, BatchOnly, EndBatch
  <2> QED
    BY <2>1, TurnAssumption
<1>5. TypeOK'
  <2>1. call' = <<>> /\ proposed' = <<>> /\ verdict' = <<>>
    BY DEF EndBatch
  <2>2. /\ call' \in [DOMAIN batch' -> CallStates] /\ verdict' \in [DOMAIN batch' -> Verdicts]
        /\ proposed' \in [DOMAIN batch' -> Conns \cup {None}]
    BY <1>3, <2>1
  <2> QED
    BY <1>2, <1>3, <1>4, <2>2 DEF Inv, TypeOK, EndBatch, envVars
<1>6. phase' \in {"model", "ended"} /\ (phase' = "model" => stopped' = "")
  BY DEF EndBatch
<1> QED
  BY <1>2, <1>3, <1>5, <1>6, EmptyBatchInv DEF EndBatch

\* The calls of a response all begin as queued.
LEMMA RespondInv == ASSUME Inv, NEW b \in Batches, Respond(b) PROVE Inv'
<1>1. current = None /\ current' = None /\ stopped' = ""
  BY NothingShown DEF Respond, Inv, RefusalStopsBatch
<1>2. /\ batch' = b
      /\ \A i \in DOMAIN batch' : call'[i] = "queued" /\ verdict'[i] = "none"
  BY DEF Respond
<1>3. TypeOK'
  <2>1. repeated' \in [Tools -> 0..2]
    <3>1. ASSUME NEW t \in Tools PROVE repeated[t] + Occurrences(b, t) \in 0..2
      <4>1. Occurrences(b, t) \in Nat /\ repeated[t] \in 0..2
        BY OccurrencesType DEF Inv, TypeOK
      <4>2. Occurrences(b, t) > 0 => repeated[t] + Occurrences(b, t) < 3
        BY DEF Respond
      <4> QED
        BY <4>1, <4>2
    <3> QED
      BY <3>1 DEF Respond
  <2>2. /\ call' \in [DOMAIN batch' -> CallStates] /\ verdict' \in [DOMAIN batch' -> Verdicts]
        /\ proposed' \in [DOMAIN batch' -> Conns \cup {None}]
    BY DEF Respond, CallStates, Verdicts
  <2> QED
    BY <2>1, <2>2 DEF Inv, TypeOK, Respond, envVars
<1>4. BatchOnly' /\ CallsAndVerdicts' /\ PlanNeverAsks'
  BY <1>2 DEF Respond, BatchOnly, CallsAndVerdicts, PlanNeverAsks
<1>5. PlanReads'
  BY <1>2 DEF Inv, PlanReads, Respond
<1>6. \A i \in DOMAIN batch' : ~Refused(i)'
  BY <1>2 DEF Refused
<1>7. SerialOrder' /\ SerialStopped'
  BY <1>1, <1>2, <1>6 DEF SerialOrder, SerialStopped
<1>8. RefusalStopsBatch' /\ ShownIsPending'
  BY <1>1, <1>2, <1>6 DEF RefusalStopsBatch, ShownIsPending
<1> QED
  BY <1>3, <1>4, <1>5, <1>7, <1>8 DEF Inv

-----------------------------------------------------------------------------
(* Steps that settle approvals keep Inv.                                   *)

\* A step that only settles pending approvals, and hides those it settles,
\* keeps Inv.
LEMMA SettlesInv ==
    ASSUME Inv, TypeOK',
           UNCHANGED <<mode, phase, rounds, batch, call, stopped, shown>>,
           granted \subseteq granted', aborted => aborted',
           \A i \in DOMAIN batch :
              /\ verdict'[i] # verdict[i] =>
                    /\ verdict[i] = "pending"
                    /\ verdict'[i] \in Verdicts \ {"none", "pending"}
                    /\ verdict'[i] = "approved" => Id(i) \in granted'
                    /\ verdict'[i] = "cancelled" => aborted'
              /\ verdict'[i] = "pending" => ~aborted'
              /\ verdict'[i] = "pending" /\ current = Id(i) => current' = current
              /\ verdict'[i] # "pending" /\ current = Id(i) => current' = None,
           current' \in {current, None}
    PROVE  Inv'
<1>1. \A i \in DOMAIN batch : verdict'[i] # verdict[i] => call[i] = "waiting"
  BY DEF Inv, CallsAndVerdicts
<1>2. /\ \A i \in DOMAIN batch : (Refused(i)' <=> Refused(i)) /\ (Settled(i)' <=> Settled(i))
      /\ \A i \in DOMAIN batch : Id(i)' = Id(i)
      /\ Serial' <=> Serial
  BY <1>1 DEF Refused, Settled, Id, Serial
<1>3. BatchOnly' /\ PlanNeverAsks' /\ PlanReads'
  BY DEF Inv, BatchOnly, PlanNeverAsks, PlanReads
<1>4. CallsAndVerdicts'
  BY <1>1, <1>2 DEF Inv, CallsAndVerdicts, Verdicts
<1>5. SerialOrder' /\ SerialStopped'
  BY <1>2 DEF Inv, SerialOrder, SerialStopped
<1>6. RefusalStopsBatch'
  BY <1>2 DEF Inv, RefusalStopsBatch
<1>7. ShownIsPending'
  <2>1. current' # None => \E i \in DOMAIN batch : current' = Id(i) /\ verdict'[i] = "pending"
    BY DEF Inv, ShownIsPending
  <2>2. Serial => \A i \in DOMAIN batch : verdict'[i] = "pending" => current' = Id(i)
    BY DEF Inv, ShownIsPending, Verdicts
  <2> QED
    BY <1>2, <2>1, <2>2 DEF ShownIsPending
<1> QED
  BY <1>3, <1>4, <1>5, <1>6, <1>7 DEF Inv

-----------------------------------------------------------------------------
(* Steps of one call keep Inv.                                             *)

\* In a batch with a mutation, what precedes a call that has begun and not
\* ended is settled, and what follows it is queued.
LEMMA OthersAreIdle ==
    ASSUME Inv, Serial, NEW i \in DOMAIN batch, call[i] # "queued", ~Settled(i)
    PROVE  \A j \in DOMAIN batch : /\ j < i => Settled(j)
                                   /\ j > i => call[j] = "queued"
BY DEF Inv, SerialOrder

\* A call that has no pending approval moves on, alone: this keeps Inv if
\* the order of the batch and what stopped says of it are kept.
LEMMA CallMoves ==
    ASSUME Inv, TypeOK', NEW i \in DOMAIN batch, phase = "batch",
           NEW c \in {"gated", "running", "done", "failed"},
           call' = [call EXCEPT ![i] = c],
           UNCHANGED <<mode, aborted, phase, rounds, batch, verdict, current, shown, granted>>,
           ~Settled(i), verdict[i] # "pending",
           c = "gated" => verdict[i] = "none" /\ mode # "plan",
           c = "running" => /\ verdict[i] \in {"none", "approved"}
                            /\ mode = "plan" => batch[i].lines \subseteq {"read"},
           call[i] # "waiting" => UNCHANGED stopped,
           Serial => /\ call[i] = "queued" =>
                           /\ \A j \in DOMAIN batch : j < i => Settled(j)
                           /\ i > 1 => stopped = "" /\ ~aborted
                     /\ Refused(i)' => stopped' # "" \/ aborted
                     /\ stopped' = "changed" => c \in {"done", "failed"}
    PROVE  Inv'
<1>1. /\ call \in [DOMAIN batch -> CallStates] /\ call'[i] = c
      /\ \A j \in DOMAIN batch : j # i => call'[j] = call[j]
  BY DEF Inv, TypeOK
<1>2. /\ \A j \in DOMAIN batch : j # i => (Refused(j)' <=> Refused(j)) /\ (Settled(j)' <=> Settled(j))
      /\ \A j \in DOMAIN batch : Id(j)' = Id(j)
      /\ Serial' <=> Serial
      /\ DOMAIN batch' = DOMAIN batch
  BY <1>1 DEF Refused, Settled, Id, Serial
<1>3. /\ \A j \in DOMAIN batch : j # i => j < i \/ i < j
      /\ \A j, k \in DOMAIN batch : j < k => k > 1 /\ k # 1 /\ k > j
  BY PlacesAreOrdered DEF Inv
<1>4. Serial => \A j \in DOMAIN batch : /\ j < i => Settled(j)
                                        /\ j > i => call[j] = "queued"
  <2>1. ASSUME Serial, call[i] # "queued"
        PROVE  \A j \in DOMAIN batch : /\ j < i => Settled(j)
                                       /\ j > i => call[j] = "queued"
    BY <2>1, OthersAreIdle
  <2>2. ASSUME Serial, call[i] = "queued"
        PROVE  \A j \in DOMAIN batch : /\ j < i => Settled(j)
                                       /\ j > i => call[j] = "queued"
    BY <2>2 DEF Inv, SerialOrder, Settled
  <2> QED
    BY <2>1, <2>2
<1>5. BatchOnly' /\ PlanNeverAsks' /\ PlanReads'
  <2>1. BatchOnly'
    BY DEF Inv, BatchOnly
  <2>2. PlanNeverAsks'
    BY <1>1 DEF Inv, PlanNeverAsks
  <2>3. PlanReads'
    BY <1>1 DEF Inv, PlanReads
  <2> QED
    BY <2>1, <2>2, <2>3
<1>6. CallsAndVerdicts'
  BY <1>1, <1>2 DEF Inv, CallsAndVerdicts
<1>7. SerialOrder'
  <2> SUFFICES ASSUME Serial, NEW a \in DOMAIN batch, NEW b \in DOMAIN batch,
                      a < b, call'[b] # "queued"
               PROVE  Settled(a)'
    BY <1>2 DEF SerialOrder
  <2>1. a # i /\ (b # i => call[b] # "queued")
    BY <1>1, <1>4
  <2>2. Settled(a)
    BY <2>1, <1>4 DEF Inv, SerialOrder
  <2> QED
    BY <2>1, <2>2, <1>2
<1>8. SerialStopped'
  <2> SUFFICES ASSUME Serial, NEW j \in DOMAIN batch
               PROVE  /\ call'[j] = "waiting" => stopped' = "incomplete"
                      /\ j = 1 /\ call'[j] = "queued" => stopped' = ""
                      /\ Refused(j)' => stopped' # "" \/ aborted
    BY <1>2 DEF SerialStopped
  <2>1. CASE j = i
    BY <2>1, <1>1
  <2>2. CASE j # i
    <3>0. (j < i /\ Settled(j)) \/ (i < j /\ call[j] = "queued")
      BY <2>2, <1>3, <1>4
    <3>1. call'[j] = call[j] /\ call[j] # "waiting"
      BY <2>2, <3>0, <1>1 DEF Settled
    <3>2. ~(j = 1 /\ call[j] = "queued")
      <4>1. i < j => j # 1
        BY <1>3
      <4> QED
        BY <3>0, <4>1 DEF Settled
    <3>3. Refused(j) => stopped' # "" \/ aborted
      <4>1. Refused(j) => j < i
        BY <3>0 DEF Refused
      <4>2. Refused(j) => call[i] = "queued"
        BY <4>1 DEF Inv, RefusalStopsBatch
      <4>3. Refused(j) => stopped # "" \/ aborted
        BY DEF Inv, SerialStopped
      <4> QED
        BY <4>2, <4>3
    <3> QED
      BY <2>2, <3>1, <3>2, <3>3, <1>2
  <2> QED
    BY <2>1, <2>2
<1>9. RefusalStopsBatch'
  <2>1. ASSUME Serial, NEW a \in DOMAIN batch, NEW b \in DOMAIN batch, a < b, Refused(a)'
        PROVE  call'[b] = "queued"
    <3>1. CASE a = i
      BY <2>1, <3>1, <1>1, <1>3, <1>4
    <3>2. CASE a # i
      <4>1. Refused(a) /\ call[b] = "queued"
        BY <2>1, <3>2, <1>2 DEF Inv, RefusalStopsBatch
      <4>2. stopped # "" \/ aborted
        BY <2>1, <4>1 DEF Inv, SerialStopped
      <4>3. b # i
        <5>1. b = i => i > 1
          BY <2>1, <1>3
        <5> QED
          BY <2>1, <4>1, <4>2, <5>1, <1>2
      <4> QED
        BY <4>1, <4>3, <1>1
    <3> QED
      BY <3>1, <3>2
  <2>2. ASSUME Serial, stopped' = "changed", NEW j \in DOMAIN batch
        PROVE  Settled(j)' \/ call'[j] = "queued"
    <3>1. CASE j = i
      BY <2>2, <3>1, <1>1 DEF Settled
    <3>2. CASE j # i
      <4>1. Settled(j) \/ call[j] = "queued"
        BY <2>2, <3>2, <1>3, <1>4
      <4> QED
        BY <3>2, <4>1, <1>1, <1>2
    <3> QED
      BY <3>1, <3>2
  <2>3. phase' # "model"
    OBVIOUS
  <2> QED
    BY <2>1, <2>2, <2>3, <1>2 DEF RefusalStopsBatch
<1>10. ShownIsPending'
  BY <1>2 DEF Inv, ShownIsPending
<1> QED
  BY <1>5, <1>6, <1>7, <1>8, <1>9, <1>10 DEF Inv

\* The start of a call keeps Inv: in plan mode it is refused or a read.
LEMMA BeginInv == ASSUME Inv, NEW i \in DOMAIN batch, Begin(i) PROVE Inv'
<1>1. PICK c \in {"gated", "running", "failed"} :
        /\ call' = [call EXCEPT ![i] = c]
        /\ c = "gated" => Policy(i, FALSE) = "needs approval" /\ conn # None
        /\ c = "running" => Policy(i, FALSE) = "allowed"
        /\ failed' \in [Tools -> 0..2]
  <2>1. ASSUME Fail(i) PROVE call' = [call EXCEPT ![i] = "failed"] /\ failed' \in [Tools -> 0..2]
    BY <2>1, FailType DEF Inv
  <2>2. UNCHANGED failed => failed' \in [Tools -> 0..2]
    BY DEF Inv, TypeOK
  <2> QED
    BY <2>1, <2>2 DEF Begin
<1>2. TypeOK'
  <2>1. call' \in [DOMAIN batch' -> CallStates]
    BY <1>1 DEF Inv, TypeOK, CallStates, Begin
  <2>2. proposed' \in [DOMAIN batch' -> Conns \cup {None}]
    BY DEF Inv, TypeOK, Begin
  <2> QED
    BY <1>1, <2>1, <2>2 DEF Inv, TypeOK, Begin, envVars
<1>3. verdict[i] = "none" /\ call[i] = "queued" /\ ~Settled(i)
  BY DEF Inv, CallsAndVerdicts, Begin, Settled
<1>4. mode = "plan" => /\ c # "gated"
                       /\ c = "running" => batch[i].lines \subseteq {"read"}
  BY <1>1, PlanPolicy DEF Inv
<1>5. Serial => /\ \A j \in DOMAIN batch : j < i => Settled(j)
                /\ i > 1 => stopped = "" /\ ~aborted
  BY DEF Begin, MayBegin
<1>6. Serial => stopped' = "" \/ i > 1
  <2>1. i = 1 \/ i > 1
    BY PlacesAreOrdered DEF Inv
  <2>2. Serial /\ i = 1 => stopped = "" /\ UNCHANGED stopped
    BY <1>3 DEF Inv, SerialStopped, Begin
  <2> QED
    BY <2>1, <2>2
<1>7. ~Refused(i)'
  BY <1>3 DEF Refused, Begin
<1>8. Serial => stopped' # "changed"
  BY <1>5, <1>6 DEF Begin
<1>9. /\ phase = "batch"
      /\ UNCHANGED <<mode, aborted, phase, rounds, batch, stopped, verdict, current, shown,
                     granted>>
  BY DEF Begin, envVars
<1> QED
  BY <1>1, <1>2, <1>3, <1>4, <1>5, <1>7, <1>8, <1>9, CallMoves

\* The end of a D3 command keeps Inv.
LEMMA CompleteInv == ASSUME Inv, NEW i \in DOMAIN batch, Complete(i) PROVE Inv'
<1>1. PICK c \in {"done", "failed"} :
        call' = [call EXCEPT ![i] = c] /\ failed' \in [Tools -> 0..2]
  <2>1. ASSUME Fail(i) PROVE call' = [call EXCEPT ![i] = "failed"] /\ failed' \in [Tools -> 0..2]
    BY <2>1, FailType DEF Inv
  <2>2. UNCHANGED failed => failed' \in [Tools -> 0..2]
    BY DEF Inv, TypeOK
  <2> QED
    BY <2>1, <2>2 DEF Complete
<1>2. TypeOK'
  <2>1. call' \in [DOMAIN batch' -> CallStates]
    BY <1>1 DEF Inv, TypeOK, CallStates, Complete
  <2> QED
    BY <1>1, <2>1 DEF Inv, TypeOK, Complete, envVars, approvalVars
<1>3. call[i] = "running" /\ ~Settled(i) /\ verdict[i] \in {"none", "approved"}
  BY DEF Inv, CallsAndVerdicts, Complete, Settled
<1>4. ~Refused(i)'
  BY <1>3 DEF Refused, Complete, approvalVars
<1>5. /\ phase = "batch"
      /\ UNCHANGED <<mode, aborted, phase, rounds, batch, stopped, verdict, current, shown,
                     granted>>
  BY DEF Complete, envVars, approvalVars
<1> QED
  BY <1>1, <1>2, <1>3, <1>4, <1>5, CallMoves

\* The return from an approval keeps Inv: one that was not given leaves its
\* trace in stopped.
LEMMA ResumeInv == ASSUME Inv, NEW i \in DOMAIN batch, Resume(i) PROVE Inv'
<1>1. PICK c \in {"running", "failed"} :
        /\ call' = [call EXCEPT ![i] = c]
        /\ c = "running" => verdict[i] = "approved" /\ stopped' = ""
        /\ failed' \in [Tools -> 0..2]
  <2>1. ASSUME Fail(i) PROVE call' = [call EXCEPT ![i] = "failed"] /\ failed' \in [Tools -> 0..2]
    BY <2>1, FailType DEF Inv
  <2>2. UNCHANGED failed => failed' \in [Tools -> 0..2]
    BY DEF Inv, TypeOK
  <2> QED
    BY <2>1, <2>2 DEF Resume
<1>2. /\ stopped' \in {"", "incomplete", "declined", "changed"}
      /\ stopped' \in {stopped, "", "declined", "changed"}
      /\ verdict[i] \in {"expired", "invalidated"} => UNCHANGED stopped
      /\ verdict[i] \in {"declined", "cancelled"} /\ ~aborted => stopped' = "declined"
  BY DEF Inv, TypeOK, Resume
<1>3. TypeOK'
  <2>1. call' \in [DOMAIN batch' -> CallStates]
    BY <1>1 DEF Inv, TypeOK, CallStates, Resume
  <2> QED
    BY <1>1, <1>2, <2>1 DEF Inv, TypeOK, Resume, envVars, approvalVars
<1>4. call[i] = "waiting" /\ ~Settled(i) /\ verdict[i] # "pending"
  BY DEF Resume, Settled
<1>5. mode # "plan"
  BY <1>4 DEF Inv, PlanNeverAsks
<1>6. Serial => stopped = "incomplete"
  BY <1>4 DEF Inv, SerialStopped
<1>7. Serial => (Refused(i)' => stopped' # "" \/ aborted)
  BY <1>2, <1>6 DEF Refused, Resume, approvalVars
<1>8. /\ phase = "batch"
      /\ UNCHANGED <<mode, aborted, phase, rounds, batch, verdict, current, shown, granted>>
  BY DEF Resume, envVars, approvalVars
<1>9. Serial => (stopped' = "changed" => c \in {"done", "failed"})
  BY <1>1
<1> QED
  BY <1>1, <1>3, <1>4, <1>5, <1>7, <1>8, <1>9, CallMoves

\* A proposal that is published keeps Inv: in a batch with a mutation no
\* other approval is pending.
LEMMA AskInv == ASSUME Inv, NEW i \in DOMAIN batch, Ask(i) PROVE Inv'
<1>1. PICK v \in {"cancelled", "pending"} :
        /\ verdict' = [verdict EXCEPT ![i] = v]
        /\ v = "cancelled" => aborted /\ UNCHANGED current
        /\ v = "pending" => ~aborted /\ current' = Id(i)
  BY DEF Ask
<1>2. /\ phase = "batch" /\ stopped' = "incomplete" /\ shown' = shown \cup {Id(i)}
      /\ UNCHANGED <<safety, selected, conn, mode, aborted, phase, rounds, repeated, failed,
                     batch, proposed, granted>>
  BY DEF Ask, envVars, loopVars
<1>3. call[i] = "gated" /\ ~Settled(i) /\ call' = [call EXCEPT ![i] = "waiting"]
  BY DEF Ask, Settled
<1>4. /\ call'[i] = "waiting" /\ verdict'[i] = v
      /\ \A j \in DOMAIN batch : j # i => call'[j] = call[j] /\ verdict'[j] = verdict[j]
  BY <1>1, <1>3 DEF Inv, TypeOK
<1>5. /\ \A j \in DOMAIN batch : j # i => (Refused(j)' <=> Refused(j)) /\ (Settled(j)' <=> Settled(j))
      /\ \A j \in DOMAIN batch : Id(j)' = Id(j)
      /\ Serial' <=> Serial
      /\ DOMAIN batch' = DOMAIN batch
  BY <1>2, <1>4 DEF Refused, Settled, Id, Serial
<1>6. TypeOK'
  <2>1. call' \in [DOMAIN batch' -> CallStates] /\ verdict' \in [DOMAIN batch' -> Verdicts]
    BY <1>1, <1>2, <1>3 DEF Inv, TypeOK, CallStates, Verdicts
  <2>2. shown' \subseteq Ids /\ granted' \subseteq shown' /\ current' \in Ids \cup {None}
    BY <1>1, <1>2, IdsOfBatch DEF Inv, TypeOK
  <2> QED
    BY <1>2, <2>1, <2>2 DEF Inv, TypeOK
<1>7. mode # "plan"
  BY <1>3 DEF Inv, PlanNeverAsks
<1>8. Serial => \A j \in DOMAIN batch : j # i => Settled(j) \/ call[j] = "queued"
  BY <1>3, OthersAreIdle, PlacesAreOrdered DEF Inv
<1>9. BatchOnly' /\ PlanNeverAsks' /\ PlanReads'
  BY <1>2, <1>7 DEF Inv, BatchOnly, PlanNeverAsks, PlanReads
<1>10. CallsAndVerdicts'
  BY <1>1, <1>2, <1>4, <1>5 DEF Inv, CallsAndVerdicts
<1>11. SerialOrder'
  <2> SUFFICES ASSUME Serial, NEW a \in DOMAIN batch, NEW b \in DOMAIN batch,
                      a < b, call'[b] # "queued"
               PROVE  Settled(a)'
    BY <1>5 DEF SerialOrder
  <2>1. Settled(a)
    BY <1>3, <1>4 DEF Inv, SerialOrder
  <2> QED
    BY <2>1, <1>3, <1>5
<1>12. SerialStopped'
  <2> SUFFICES ASSUME Serial, NEW j \in DOMAIN batch
               PROVE  ~(j = 1 /\ call'[j] = "queued")
    BY <1>2, <1>5 DEF SerialStopped
  <2>1. CASE j = i
    BY <2>1, <1>4
  <2>2. CASE j # i
    <3>1. j < i \/ (i < j /\ j # 1)
      BY <2>2, PlacesAreOrdered DEF Inv
    <3>2. j < i => Settled(j)
      BY <1>3, OthersAreIdle
    <3> QED
      BY <2>2, <3>1, <3>2, <1>4 DEF Settled
  <2> QED
    BY <2>1, <2>2
<1>13. RefusalStopsBatch'
  <2> SUFFICES ASSUME Serial, NEW a \in DOMAIN batch, NEW b \in DOMAIN batch, a < b, Refused(a)'
               PROVE  call'[b] = "queued"
    BY <1>2, <1>5 DEF RefusalStopsBatch
  <2>1. a # i
    BY <1>4 DEF Refused
  <2>2. call[b] = "queued"
    BY <2>1, <1>5 DEF Inv, RefusalStopsBatch
  <2>3. b # i
    BY <2>2, <1>3
  <2> QED
    BY <2>2, <2>3, <1>4
<1>14. ShownIsPending'
  <2>1. CASE v = "pending"
    <3>1. \A j \in DOMAIN batch : Serial /\ verdict'[j] = "pending" => j = i
      BY <1>4, <1>8 DEF Inv, CallsAndVerdicts, Settled
    <3> QED
      BY <2>1, <3>1, <1>1, <1>4, <1>5 DEF ShownIsPending
  <2>2. CASE v = "cancelled"
    <3>1. \A j \in DOMAIN batch : verdict'[j] = "pending" <=> verdict[j] = "pending"
      BY <2>2, <1>3, <1>4 DEF Inv, CallsAndVerdicts
    <3> QED
      BY <2>2, <3>1, <1>1, <1>5 DEF Inv, ShownIsPending
  <2> QED
    BY <2>1, <2>2
<1> QED
  BY <1>6, <1>9, <1>10, <1>11, <1>12, <1>13, <1>14 DEF Inv

-----------------------------------------------------------------------------
(* The steps of the timer and of the operator keep Inv.                    *)

\* The timer settles a pending approval.
LEMMA ExpireInv == ASSUME Inv, NEW i \in DOMAIN batch, Expire(i) PROVE Inv'
<1>1. /\ verdict[i] = "pending" /\ verdict' = [verdict EXCEPT ![i] = "expired"]
      /\ current' = IF current = Id(i) THEN None ELSE current
      /\ UNCHANGED <<safety, selected, conn, mode, aborted, phase, rounds, repeated, failed,
                     batch, call, stopped, proposed, shown, granted>>
  BY DEF Expire, Settle, envVars, loopVars
<1>2. \A j \in DOMAIN batch : verdict'[j] = IF j = i THEN "expired" ELSE verdict[j]
  BY <1>1 DEF Inv, TypeOK
<1>3. TypeOK'
  BY <1>1 DEF Inv, TypeOK, Verdicts
<1>4. \A j \in DOMAIN batch : verdict[j] = "pending" => ~aborted
  BY DEF Inv, CallsAndVerdicts
<1>5. \A j \in DOMAIN batch : j # i => Id(j) # Id(i)
  BY IdsOfBatch DEF Inv
<1>6. \A j \in DOMAIN batch : current = Id(j) => verdict[j] = "pending"
  BY IdsOfBatch DEF Inv, ShownIsPending
<1> QED
  BY <1>1, <1>2, <1>3, <1>4, <1>5, <1>6, SettlesInv DEF Verdicts

\* A step that aborts the turn settles every approval and hides it.
LEMMA AbortsInv ==
    ASSUME Inv, safety' \in Modes, selected' \in BOOLEAN, conn' \in Conns \cup {None},
           aborted' = TRUE, current' = None,
           verdict' = [i \in DOMAIN verdict |->
                          IF verdict[i] = "pending" THEN "cancelled" ELSE verdict[i]],
           UNCHANGED <<mode, phase, rounds, repeated, failed, batch, call, stopped, proposed,
                       shown, granted>>
    PROVE  Inv'
<1>1. DOMAIN verdict = DOMAIN batch
  BY DEF Inv, TypeOK
<1>2. \A i \in DOMAIN batch :
        verdict'[i] = IF verdict[i] = "pending" THEN "cancelled" ELSE verdict[i]
  BY <1>1
<1>3. TypeOK'
  <2>1. verdict' \in [DOMAIN batch' -> Verdicts]
    BY <1>1 DEF Inv, TypeOK, Verdicts
  <2> QED
    BY <2>1 DEF Inv, TypeOK
<1>4. \A i \in DOMAIN batch : current = Id(i) => verdict[i] = "pending"
  BY IdsOfBatch DEF Inv, ShownIsPending
<1> QED
  BY <1>2, <1>3, <1>4, SettlesInv DEF Verdicts

\* A step of the operator that only changes the settings keeps Inv.
LEMMA SettingsInv ==
    ASSUME Inv, safety' \in Modes, selected' \in BOOLEAN, conn' \in Conns \cup {None},
           UNCHANGED <<mode, aborted, loopVars, call, stopped, approvalVars, granted>>
    PROVE  Inv'
<1>1. UNCHANGED <<mode, aborted, phase, rounds, repeated, failed, batch, call, stopped,
                  proposed, verdict, current, shown, granted>>
  BY DEF loopVars, approvalVars
<1>2. TypeOK'
  BY <1>1 DEF Inv, TypeOK
<1>3. \A i \in DOMAIN batch : verdict[i] = "pending" => ~aborted
  BY DEF Inv, CallsAndVerdicts
<1>4. \A j \in DOMAIN batch : current = Id(j) => verdict[j] = "pending"
  BY IdsOfBatch DEF Inv, ShownIsPending
<1> QED
  BY <1>1, <1>2, <1>3, <1>4, SettlesInv

\* A decision settles the approval the server shows, or nothing.
LEMMA DecideInv ==
    ASSUME Inv, NEW id \in shown, NEW approved \in BOOLEAN, Decide(id, approved) PROVE Inv'
<1>1. /\ UNCHANGED <<safety, selected, conn, mode, aborted, phase, rounds, repeated, failed,
                     batch, call, stopped, proposed, shown>>
      /\ granted' = IF approved /\ id[1] = rounds THEN granted \cup {id} ELSE granted
  BY DEF Decide, envVars, loopVars
<1>2. granted \subseteq granted' /\ granted' \subseteq shown
  BY <1>1 DEF Inv, TypeOK
<1>3. \A i \in DOMAIN batch : verdict[i] = "pending" => ~aborted
  BY DEF Inv, CallsAndVerdicts
<1>4. \A j \in DOMAIN batch : current = Id(j) => verdict[j] = "pending"
  BY IdsOfBatch DEF Inv, ShownIsPending
<1>5. CASE UNCHANGED <<verdict, current>>
  <2>1. TypeOK'
    BY <1>1, <1>2, <1>5 DEF Inv, TypeOK
  <2> QED
    BY <1>1, <1>2, <1>3, <1>4, <1>5, <2>1, SettlesInv
<1>6. CASE current = id /\ ~UNCHANGED <<verdict, current>>
  <2>1. PICK i \in DOMAIN batch : current = Id(i) /\ verdict[i] = "pending"
    <3>1. id \in (0..MaxRounds) \X (1..MaxBatch)
      BY DEF Inv, TypeOK, Ids
    <3>2. id # None
      BY <3>1, TurnAssumption
    <3> QED
      BY <1>6, <3>2 DEF Inv, ShownIsPending
  <2>2. id = Id(i) /\ id[1] = rounds /\ id[2] = i
    BY <2>1, <1>6 DEF Id
  <2>3. PICK v \in {"invalidated", "approved", "declined"} :
          /\ verdict' = [verdict EXCEPT ![i] = v] /\ current' = None
          /\ v = "approved" => approved
    BY <1>6, <2>2 DEF Decide, Settle
  <2>4. v = "approved" => Id(i) \in granted'
    BY <2>2, <2>3, <1>1
  <2>5. TypeOK'
    BY <1>1, <1>2, <2>3 DEF Inv, TypeOK, Verdicts
  <2>6. \A j \in DOMAIN batch : verdict'[j] = IF j = i THEN v ELSE verdict[j]
    BY <2>3 DEF Inv, TypeOK
  <2>7. \A j \in DOMAIN batch : j # i => Id(j) # Id(i)
    BY IdsOfBatch DEF Inv
  <2> QED
    BY <1>1, <1>2, <1>3, <1>4, <2>1, <2>3, <2>4, <2>5, <2>6, <2>7, SettlesInv DEF Verdicts
<1> QED
  BY <1>5, <1>6 DEF Decide

-----------------------------------------------------------------------------
(* The invariants of the specification.                                    *)

\* An edit of the profile aborts the turn or changes settings.
LEMMA EditProfileInv == ASSUME Inv, NEW c \in Conns \cup {None}, EditProfile(c) PROVE Inv'
<1>1. safety' \in Modes /\ selected' \in BOOLEAN /\ conn' \in Conns \cup {None}
  BY DEF Inv, TypeOK, EditProfile
<1>2. CASE selected /\ ~aborted
  BY <1>1, <1>2, AbortsInv DEF EditProfile, loopVars
<1>3. CASE ~(selected /\ ~aborted)
  BY <1>1, <1>3, SettingsInv DEF EditProfile, loopVars, approvalVars
<1> QED
  BY <1>2, <1>3

\* Every step keeps Inv.
LEMMA NextInv == ASSUME Inv, [Next]_vars PROVE Inv'
<1>1. CASE UNCHANGED vars
  BY <1>1, SettingsInv DEF Inv, TypeOK, vars, loopVars, approvalVars
<1>2. CASE EndTurn
  BY <1>2, EndTurnInv
<1>3. CASE EndBatch
  BY <1>3, EndBatchInv
<1>4. CASE \E b \in Batches : Respond(b)
  BY <1>4, RespondInv
<1>5. CASE \E i \in DOMAIN batch : Begin(i) \/ Complete(i) \/ Ask(i) \/ Resume(i)
  BY <1>5, BeginInv, CompleteInv, AskInv, ResumeInv
<1>6. CASE Timer
  BY <1>6, ExpireInv DEF Timer
<1>7. CASE \E id \in shown, approved \in BOOLEAN : Decide(id, approved)
  BY <1>7, DecideInv
<1>8. CASE Abort
  BY <1>8, AbortsInv DEF Abort, envVars, loopVars, Inv, TypeOK
<1>9. ASSUME NEW m \in Modes, SetSafety(m) \/ SelectProfile(m) PROVE Inv'
  <2>1. safety' \in Modes /\ selected' \in BOOLEAN /\ conn' \in Conns \cup {None}
    BY <1>9 DEF SetSafety, SelectProfile, Inv, TypeOK
  <2> QED
    BY <1>9, <2>1, SettingsInv DEF SetSafety, SelectProfile
<1>10. CASE \E c \in Conns \cup {None} : EditProfile(c)
  BY <1>10, EditProfileInv
<1> QED
  BY <1>1, <1>2, <1>3, <1>4, <1>5, <1>6, <1>7, <1>8, <1>9, <1>10 DEF Next, TurnStep, Operator

\* Inv holds in every reachable state of every turn.
THEOREM InductiveInvariant == Spec => []Inv
BY InitInv, NextInv, PTL DEF Spec

\* The variables keep their types: no more rounds than maxToolIterations, no
\* more failures or repetitions of a call than the loop counts.
THEOREM TypeCorrect == Spec => []TypeOK
<1>1. Inv => TypeOK
  BY DEF Inv
<1> QED
  BY <1>1, InductiveInvariant, PTL

\* A refused approval stops the rest of a batch with a mutation, and the turn.
THEOREM RefusalStops == Spec => []RefusalStopsBatch
<1>1. Inv => RefusalStopsBatch
  BY DEF Inv
<1> QED
  BY <1>1, InductiveInvariant, PTL

\* The server shows an approval that is pending, and in a batch with a
\* mutation the one that is.
THEOREM OperatorSeesPending == Spec => []ShownIsPending
<1>1. Inv => ShownIsPending
  BY DEF Inv
<1> QED
  BY <1>1, InductiveInvariant, PTL

\* A turn started in plan mode only reads, however long it lasts.
THEOREM PlanOnlyReads == Spec => []PlanReads
<1>1. Inv => PlanReads
  BY DEF Inv
<1> QED
  BY <1>1, InductiveInvariant, PTL

-----------------------------------------------------------------------------
(* What a single step may not do.                                          *)

\* A step other than those of call i, and of the loop that ends or begins a
\* batch, leaves call i where it is.
LEMMA CallChanges ==
    ASSUME Inv, [Next]_vars, NEW i \in DOMAIN call \cap DOMAIN call', call'[i] # call[i]
    PROVE  /\ i \in DOMAIN batch
           /\ \/ Begin(i) \/ Complete(i) \/ Ask(i) \/ Resume(i)
              \/ call'[i] = "queued"
<1>1. DOMAIN call = DOMAIN batch
  BY DEF Inv, TypeOK
<1>2. ~UNCHANGED call
  OBVIOUS
<1>3. CASE \E b \in Batches : Respond(b)
  BY <1>1, <1>3 DEF Respond
<1>4. CASE EndBatch
  <2>1. DOMAIN call' = {}
    BY <1>4, EmptySequence DEF EndBatch
  <2> QED
    BY <2>1
<1>5. ASSUME NEW j \in DOMAIN batch, Begin(j) \/ Complete(j) \/ Ask(j) \/ Resume(j)
      PROVE  j = i
  <2>1. \A k \in DOMAIN call : k # j => call'[k] = call[k]
    BY <1>5, <1>1 DEF Begin, Complete, Ask, Resume, Fail
  <2> QED
    BY <2>1
<1>6. UNCHANGED vars \/ EndTurn \/ Timer \/ Operator => UNCHANGED call
  BY DEF vars, EndTurn, Timer, Expire, Operator, Decide, Abort, SetSafety, SelectProfile,
         EditProfile
<1> QED
  BY <1>1, <1>2, <1>3, <1>4, <1>5, <1>6 DEF Next, TurnStep

\* No call runs on the approval of another, of a profile that has changed, or
\* of a turn that was stopped.
THEOREM ApprovedRuns == Spec => RunsAsApproved
<1>1. ASSUME Inv, [Next]_vars, NEW i \in DOMAIN call \cap DOMAIN call',
             call[i] = "waiting", call'[i] = "running"
      PROVE  Id(i) \in granted /\ conn = proposed[i] /\ ~aborted
  <2>1. i \in DOMAIN batch /\ Resume(i)
    BY <1>1, CallChanges DEF Begin, Complete, Ask
  <2>2. ~aborted /\ conn = proposed[i] /\ verdict[i] = "approved"
    BY <2>1, <1>1 DEF Resume, Fail, Inv, TypeOK
  <2> QED
    BY <2>1, <2>2, <1>1 DEF Inv, CallsAndVerdicts
<1>2. Inv /\ [Next]_vars =>
        [\A i \in DOMAIN call \cap DOMAIN call' :
            call[i] = "waiting" /\ call'[i] = "running" =>
               Id(i) \in granted /\ conn = proposed[i] /\ ~aborted]_vars
  BY <1>1
<1> QED
  BY <1>2, InductiveInvariant, PTL DEF Spec, RunsAsApproved

\* Once aborted, a turn starts no D3 command.
THEOREM AbortStartsNothing == Spec => NothingStartsAfterAbort
<1>1. ASSUME Inv, [Next]_vars, aborted, NEW i \in DOMAIN call \cap DOMAIN call',
             call'[i] = "running"
      PROVE  call[i] = "running"
  <2> SUFFICES ASSUME call[i] # "running" PROVE FALSE
    OBVIOUS
  <2>1. i \in DOMAIN batch /\ (Begin(i) \/ Complete(i) \/ Ask(i) \/ Resume(i))
    BY <1>1, CallChanges
  <2> QED
    BY <2>1, <1>1 DEF Begin, Complete, Ask, Resume, Fail, Inv, TypeOK
<1>2. Inv /\ [Next]_vars =>
        [aborted => \A i \in DOMAIN call \cap DOMAIN call' :
                       call'[i] = "running" => call[i] = "running"]_vars
  BY <1>1
<1> QED
  BY <1>2, InductiveInvariant, PTL DEF Spec, NothingStartsAfterAbort

-----------------------------------------------------------------------------
(* A turn is what the operator was promised of it.                         *)

\* A batch under way has calls; one that has not begun shows no profile, and
\* one that asks shows one.
Shows ==
    /\ phase = "batch" => batch # <<>>
    /\ \A i \in DOMAIN batch :
          /\ call[i] = "queued" => proposed[i] = None
          /\ call[i] \in {"gated", "waiting"} => proposed[i] \in Conns

\* Every step keeps what the calls show: what is proposed is the profile of
\* the moment, and stays what it was.
LEMMA ShowsStep == ASSUME Inv, Shows, [Next]_vars PROVE Shows'
<1>1. DOMAIN call = DOMAIN batch
  BY DEF Inv, TypeOK
<1>2. CASE UNCHANGED <<batch, call, proposed>> /\ phase' \in {phase, "ended"}
  BY <1>2 DEF Shows
<1>3. ASSUME NEW b \in Batches, Respond(b) PROVE Shows'
  <2>1. PICK n \in 1..MaxBatch : b \in [1..n -> Tools]
    BY DEF Batches
  <2>2. DOMAIN b # {}
    <3>1. n \in Nat /\ n >= 1
      BY <2>1, TurnAssumption
    <3>2. DOMAIN b = 1..n /\ 1 \in 1..n
      BY <2>1, <3>1
    <3> QED
      BY <3>2
  <2>3. b # <<>>
    BY <2>2, EmptySequence
  <2> QED
    BY <1>3, <2>3 DEF Respond, Shows
<1>4. CASE EndBatch
  <2>1. DOMAIN batch' = {} /\ phase' # "batch"
    BY <1>4, EmptySequence DEF EndBatch
  <2> QED
    BY <2>1 DEF Shows
<1>5. ASSUME NEW i \in DOMAIN batch, Begin(i) \/ Complete(i) \/ Ask(i) \/ Resume(i)
      PROVE  Shows'
  <2>1. /\ batch' = batch /\ phase' = phase
        /\ \A j \in DOMAIN batch : j # i => call'[j] = call[j]
        /\ call[i] \in CallStates /\ call'[i] # "queued"
    BY <1>1, <1>5 DEF Begin, Complete, Ask, Resume, Fail, loopVars, Inv, TypeOK
  <2>2. CASE Begin(i)
    <3>1. call'[i] # "waiting" /\ (call'[i] = "gated" => conn # None)
      BY <1>1, <2>2 DEF Begin, Fail, Inv, TypeOK
    <3>2. proposed' = IF call'[i] = "gated" THEN [proposed EXCEPT ![i] = conn] ELSE proposed
      BY <2>2 DEF Begin
    <3>3. \A j \in DOMAIN batch : j # i => proposed'[j] = proposed[j]
      BY <3>2 DEF Inv, TypeOK
    <3>4. call'[i] = "gated" => proposed'[i] \in Conns
      BY <3>1, <3>2 DEF Inv, TypeOK
    <3> QED
      BY <2>1, <3>1, <3>3, <3>4 DEF Shows
  <2>3. CASE Complete(i) \/ Ask(i) \/ Resume(i)
    <3>1. proposed' = proposed /\ (call'[i] \in {"gated", "waiting"} => call[i] = "gated")
      BY <1>1, <2>3 DEF Complete, Ask, Resume, Fail, approvalVars, Inv, TypeOK
    <3> QED
      BY <2>1, <3>1 DEF Shows
  <2> QED
    BY <1>5, <2>2, <2>3
<1>6. UNCHANGED vars \/ EndTurn \/ Timer \/ Operator =>
        UNCHANGED <<batch, call, proposed>> /\ phase' \in {phase, "ended"}
  BY DEF vars, loopVars, approvalVars, EndTurn, Timer, Expire, Operator, Decide, Abort,
         SetSafety, SelectProfile, EditProfile
<1> QED
  BY <1>2, <1>3, <1>4, <1>5, <1>6 DEF Next, TurnStep

\* A step that moves no call, and settles only approvals that are waited for,
\* is none the operator sees of the calls.
LEMMA StagesKept ==
    ASSUME UNCHANGED <<batch, call, proposed>>,
           \A i \in DOMAIN batch : verdict'[i] # verdict[i] => call[i] = "waiting"
    PROVE  Stage' = Stage /\ Seen' = Seen
<1>1. \A i \in DOMAIN batch : call[i] # "waiting" => (Refused(i)' <=> Refused(i))
  BY DEF Refused
<1>2. Stage' = Stage
  BY <1>1 DEF Stage
<1>3. Seen' = Seen
  BY DEF Seen
<1> QED
  BY <1>2, <1>3

\* A step that moves one call changes what the operator sees of that one.
LEMMA StageMoves ==
    ASSUME TypeOK, NEW i \in DOMAIN batch, UNCHANGED batch,
           \A j \in DOMAIN batch : j # i =>
              call'[j] = call[j] /\ verdict'[j] = verdict[j] /\ proposed'[j] = proposed[j]
    PROVE  /\ Stage' = [Stage EXCEPT ![i] = Stage'[i]]
           /\ Seen' = [Seen EXCEPT ![i] = Seen'[i]]
<1>1. \A j \in DOMAIN batch : j # i => (Refused(j)' <=> Refused(j))
  BY DEF Refused
<1>2. DOMAIN Stage = DOMAIN batch /\ DOMAIN Stage' = DOMAIN batch
  BY DEF Stage
<1>3. \A j \in DOMAIN batch : j # i => Stage'[j] = Stage[j]
  BY <1>1 DEF Stage
<1>4. DOMAIN Seen = DOMAIN batch /\ DOMAIN Seen' = DOMAIN batch
  BY DEF Seen
<1>5. \A j \in DOMAIN batch : j # i => Seen'[j] = Seen[j]
  BY DEF Seen
<1>6. Stage' = [Stage EXCEPT ![i] = Stage'[i]]
  BY <1>2, <1>3 DEF Stage
<1>7. Seen' = [Seen EXCEPT ![i] = Seen'[i]]
  BY <1>4, <1>5 DEF Seen
<1> QED
  BY <1>6, <1>7

\* What a call looks like at each place executeOne can be.
LEMMA StageOf ==
    ASSUME TypeOK, NEW i \in DOMAIN batch
    PROVE  /\ call[i] \in {"queued", "gated"} => Stage[i] = "new" /\ Seen[i] = None
           /\ call[i] = "waiting" => Stage[i] = "asked"
           /\ call[i] = "running" => Stage[i] = "running"
           /\ call[i] \notin {"queued", "gated"} => Seen[i] = proposed[i]
           /\ Settled(i) => Stage[i] = IF Refused(i) THEN "refused" ELSE "over"
           /\ Stage[i] = "refused" <=> Refused(i)
BY DEF Stage, Seen, Settled, Refused

\* A call that begins or has begun has its turn: what is in front of it, in a
\* batch with a mutation, has settled without a refusal.
LEMMA HasItsTurn ==
    ASSUME Inv, NEW i \in DOMAIN batch, call[i] # "queued" \/ MayBegin(i)
    PROVE  Supervised!InOrder(i)
<1> SUFFICES ASSUME Serial, NEW j \in DOMAIN batch, j < i PROVE Stage[j] = "over"
  BY DEF Supervised!InOrder, Supervised!Changes, Serial
<1>1. Settled(j)
  BY DEF Inv, SerialOrder, MayBegin
<1>2. ~Refused(j)
  <2>1. CASE call[i] # "queued"
    BY <2>1 DEF Inv, RefusalStopsBatch
  <2>2. CASE MayBegin(i)
    <3>1. i > 1
      BY PlacesAreOrdered DEF Inv
    <3>2. stopped = "" /\ ~aborted
      BY <2>2, <3>1 DEF MayBegin
    <3> QED
      BY <3>2 DEF Inv, SerialStopped
  <2> QED
    BY <2>1, <2>2
<1> QED
  BY <1>1, <1>2, StageOf DEF Inv

\* Both specifications ask the same policy.
LEMMA SamePolicy ==
    ASSUME NEW i, NEW confirmed PROVE Supervised!Policy(i, confirmed) = Policy(i, confirmed)
BY DEF Supervised!Policy, Policy, Supervised!Verdict, Verdict, Supervised!Permission,
       Permission, Supervised!CommandRisk, CommandRisk, Supervised!AtLeast, AtLeast,
       Supervised!RiskOrder, RiskOrder

\* The beginning of a call: it starts if the policy lets it, fails, or has its
\* proposal made, which is not seen yet.
LEMMA BeginSupervised ==
    ASSUME Inv, Shows, NEW i \in DOMAIN batch, Begin(i)
    PROVE  Supervised!StartFree(i) \/ Supervised!Finish(i) \/ UNCHANGED Supervised!vars
<1>1. /\ UNCHANGED <<mode, conn, aborted, phase, rounds, batch, verdict, shown, granted>>
      /\ call[i] = "queued" /\ verdict[i] = "none" /\ proposed[i] = None
      /\ proposed' = IF call'[i] = "gated" THEN [proposed EXCEPT ![i] = conn] ELSE proposed
      /\ Supervised!InOrder(i)
  BY HasItsTurn DEF Begin, envVars, Inv, CallsAndVerdicts, Shows
<1>2. PICK c \in {"failed", "gated", "running"} :
        /\ call' = [call EXCEPT ![i] = c]
        /\ c = "running" => ~aborted /\ conn # None /\ Policy(i, FALSE) = "allowed"
  BY DEF Begin, Fail
<1>3. /\ call'[i] = c
      /\ \A j \in DOMAIN batch : j # i => call'[j] = call[j] /\ proposed'[j] = proposed[j]
      /\ TypeOK /\ TypeOK'
  BY <1>1, <1>2, BeginInv DEF Inv, TypeOK
<1>4. Stage' = [Stage EXCEPT ![i] = Stage'[i]] /\ Seen' = [Seen EXCEPT ![i] = Seen'[i]]
  BY <1>1, <1>3, StageMoves
<1>5. Stage[i] = "new" /\ Seen[i] = None
  BY <1>1, <1>3, StageOf
<1>6. Seen'[i] = None
  BY <1>1, <1>3 DEF Seen
<1>7. Seen' = Seen
  BY <1>4, <1>5, <1>6 DEF Seen
<1>8. Stage'[i] = IF c = "failed" THEN "over" ELSE IF c = "gated" THEN "new" ELSE "running"
  BY <1>1, <1>2, <1>3 DEF Stage, Refused
<1>9. CASE c = "failed"
  BY <1>1, <1>4, <1>5, <1>7, <1>8, <1>9 DEF Supervised!Finish, Supervised!Move
<1>10. CASE c = "gated"
  <2>1. Stage' = Stage
    BY <1>4, <1>5, <1>8, <1>10 DEF Stage
  <2> QED
    BY <1>1, <1>7, <2>1 DEF Supervised!vars
<1>11. CASE c = "running"
  BY <1>1, <1>2, <1>4, <1>5, <1>7, <1>8, <1>11, SamePolicy
  DEF Supervised!StartFree, Supervised!Move
<1> QED
  BY <1>9, <1>10, <1>11

\* The end of a D3 command is the end of its call.
LEMMA CompleteSupervised ==
    ASSUME Inv, NEW i \in DOMAIN batch, Complete(i) PROVE Supervised!Finish(i)
<1>1. /\ UNCHANGED <<mode, conn, aborted, phase, rounds, batch, proposed, verdict, shown, granted>>
      /\ call[i] = "running" /\ verdict[i] \in {"none", "approved"}
      /\ Supervised!InOrder(i) /\ TypeOK
  BY HasItsTurn DEF Complete, envVars, approvalVars, Inv, CallsAndVerdicts
<1>2. PICK c \in {"failed", "done"} : call' = [call EXCEPT ![i] = c]
  BY DEF Complete, Fail
<1>3. call'[i] = c /\ \A j \in DOMAIN batch : j # i => call'[j] = call[j]
  BY <1>2 DEF Inv, TypeOK
<1>4. Stage' = [Stage EXCEPT ![i] = Stage'[i]] /\ Seen' = [Seen EXCEPT ![i] = Seen'[i]]
  BY <1>1, <1>3, StageMoves
<1>5. Stage[i] = "running" /\ Seen[i] = proposed[i]
  BY <1>1, StageOf
<1>6. Stage'[i] = "over" /\ Seen'[i] = proposed[i]
  BY <1>1, <1>2, <1>3 DEF Stage, Seen, Refused
<1>7. Seen' = Seen
  BY <1>4, <1>5, <1>6 DEF Seen
<1> QED
  BY <1>1, <1>4, <1>5, <1>6, <1>7 DEF Supervised!Finish, Supervised!Move

\* A proposal that is published is one of the profile it was made for.
LEMMA AskSupervised ==
    ASSUME Inv, Shows, NEW i \in DOMAIN batch, Ask(i) PROVE Supervised!Propose(i)
<1>1. /\ UNCHANGED <<mode, conn, aborted, phase, rounds, batch, proposed, granted>>
      /\ call[i] = "gated" /\ proposed[i] \in Conns /\ mode # "plan"
      /\ call' = [call EXCEPT ![i] = "waiting"] /\ shown' = shown \cup {<<rounds, i>>}
      /\ Supervised!InOrder(i) /\ TypeOK
  BY HasItsTurn DEF Ask, envVars, loopVars, Id, Inv, Shows, PlanNeverAsks
<1>2. PICK v : verdict' = [verdict EXCEPT ![i] = v]
  BY DEF Ask
<1>3. /\ call'[i] = "waiting"
      /\ \A j \in DOMAIN batch : j # i => call'[j] = call[j] /\ verdict'[j] = verdict[j]
  BY <1>1, <1>2 DEF TypeOK
<1>4. Stage' = [Stage EXCEPT ![i] = Stage'[i]] /\ Seen' = [Seen EXCEPT ![i] = Seen'[i]]
  BY <1>1, <1>3, StageMoves
<1>5. Stage[i] = "new" /\ Stage'[i] = "asked" /\ Seen'[i] = proposed[i]
  BY <1>1, <1>3 DEF Stage, Seen
<1> QED
  BY <1>1, <1>4, <1>5 DEF Supervised!Propose, Supervised!Move

\* The return from an approval: a call starts that was granted, for the
\* profile it was shown with; a call fails that was granted and may not; any
\* other is refused.
LEMMA ResumeSupervised ==
    ASSUME Inv, NEW i \in DOMAIN batch, Resume(i)
    PROVE  Supervised!StartGranted(i) \/ Supervised!Refuse(i) \/ Supervised!Finish(i)
<1>1. /\ UNCHANGED <<mode, conn, aborted, phase, rounds, batch, proposed, verdict, shown, granted>>
      /\ call[i] = "waiting" /\ verdict[i] \in Verdicts \ {"none", "pending"}
      /\ verdict[i] = "approved" => <<rounds, i>> \in granted
      /\ Supervised!InOrder(i) /\ TypeOK
  BY HasItsTurn DEF Resume, envVars, approvalVars, Id, Inv, TypeOK, CallsAndVerdicts
<1>2. PICK c \in {"failed", "running"} :
        /\ call' = [call EXCEPT ![i] = c]
        /\ c = "running" => /\ ~aborted /\ verdict[i] = "approved" /\ conn = proposed[i]
                            /\ Policy(i, batch[i].accepts) = "allowed"
  BY <1>1 DEF Resume, Fail
<1>3. call'[i] = c /\ \A j \in DOMAIN batch : j # i => call'[j] = call[j]
  BY <1>2 DEF Inv, TypeOK
<1>4. Stage' = [Stage EXCEPT ![i] = Stage'[i]] /\ Seen' = [Seen EXCEPT ![i] = Seen'[i]]
  BY <1>1, <1>3, StageMoves
<1>5. Stage[i] = "asked" /\ Seen[i] = proposed[i]
  BY <1>1, StageOf
<1>6. /\ Seen'[i] = proposed[i]
      /\ Stage'[i] = IF c = "running" THEN "running"
                     ELSE IF verdict[i] = "approved" THEN "over" ELSE "refused"
  BY <1>1, <1>2, <1>3 DEF Stage, Seen, Refused, Verdicts
<1>7. Seen' = Seen
  BY <1>4, <1>5, <1>6 DEF Seen
<1>8. CASE c = "running"
  BY <1>1, <1>2, <1>4, <1>5, <1>6, <1>7, <1>8, SamePolicy
  DEF Supervised!StartGranted, Supervised!Move
<1>9. CASE c = "failed"
  BY <1>1, <1>4, <1>5, <1>6, <1>7, <1>9
  DEF Supervised!Refuse, Supervised!Finish, Supervised!Move
<1> QED
  BY <1>8, <1>9

\* Without a batch nothing is seen of calls.
LEMMA NoStages == ASSUME DOMAIN batch = {} PROVE Stage = <<>> /\ Seen = <<>>
BY DEF Stage, Seen

\* The calls of a response are new.
LEMMA RespondSupervised ==
    ASSUME Inv, NEW b \in Batches, Respond(b) PROVE Supervised!Request(b)
<1>1. /\ UNCHANGED <<mode, conn, aborted, rounds, shown, granted>>
      /\ phase = "model" /\ phase' = "batch" /\ batch = <<>> /\ batch' = b
      /\ call' = [i \in DOMAIN b |-> "queued"]
  BY DEF Respond, envVars, Inv, BatchOnly
<1>2. Stage' = [i \in DOMAIN b |-> "new"] /\ Seen' = [i \in DOMAIN b |-> None]
  BY <1>1 DEF Stage, Seen
<1> QED
  BY <1>1, <1>2 DEF Supervised!Request

\* The end of the loop around the model is the end of the turn.
LEMMA EndTurnSupervised == ASSUME Inv, EndTurn PROVE Supervised!EndTurn
<1>1. /\ UNCHANGED <<mode, conn, aborted, rounds, batch, call, proposed, verdict, shown, granted>>
      /\ phase = "model" /\ phase' = "ended" /\ batch = <<>>
  BY DEF EndTurn, envVars, Inv, BatchOnly
<1>2. Stage' = Stage /\ Seen' = Seen
  BY <1>1, StagesKept
<1> QED
  BY <1>1, <1>2 DEF Supervised!EndTurn

\* A batch ends when no call of it goes on; a refusal of a batch with a
\* mutation, and an abort, end the turn.
LEMMA EndBatchSupervised == ASSUME Inv, Shows, EndBatch PROVE Supervised!EndRound
<1>1. /\ UNCHANGED <<mode, conn, aborted, shown>>
      /\ phase = "batch" /\ rounds' = rounds + 1 /\ batch' = <<>> /\ granted' = {}
      /\ phase' \in {"model", "ended"} /\ (stopped # "" \/ aborted => phase' = "ended")
      /\ batch # <<>> /\ TypeOK
  BY DEF EndBatch, envVars, Inv, Shows
<1>2. DOMAIN batch' = {}
  BY <1>1, EmptySequence
<1>3. Stage' = <<>> /\ Seen' = <<>>
  BY <1>2 DEF Stage, Seen
<1>4. \A i \in DOMAIN batch : Stage[i] \notin {"asked", "running"}
  <2> SUFFICES ASSUME NEW i \in DOMAIN batch PROVE Stage[i] \notin {"asked", "running"}
    OBVIOUS
  <2>1. Settled(i) \/ call[i] = "queued"
    BY DEF EndBatch
  <2> QED
    BY <1>1, <2>1, StageOf
<1>5. aborted \/ (Supervised!Changes /\ \E i \in DOMAIN batch : Stage[i] = "refused") =>
        phase' = "ended"
  <2> SUFFICES ASSUME Serial, NEW i \in DOMAIN batch, Stage[i] = "refused"
               PROVE  stopped # "" \/ aborted
    BY <1>1 DEF Supervised!Changes, Serial
  <2>1. Refused(i)
    BY <1>1, StageOf
  <2> QED
    BY <2>1 DEF Inv, SerialStopped
<1> QED
  BY <1>1, <1>3, <1>4, <1>5 DEF Supervised!EndRound

\* A decision grants a call of this round, or is not seen.
LEMMA DecideSupervised ==
    ASSUME Inv, NEW id \in shown, NEW approved \in BOOLEAN, Decide(id, approved)
    PROVE  Supervised!Grant(id) \/ UNCHANGED Supervised!vars
<1>1. /\ UNCHANGED <<mode, conn, aborted, phase, rounds, batch, call, proposed, shown>>
      /\ phase # "ended"
      /\ granted' = IF approved /\ id[1] = rounds THEN granted \cup {id} ELSE granted
  BY DEF Decide, envVars, loopVars
<1>2. \A i \in DOMAIN batch : verdict'[i] # verdict[i] => call[i] = "waiting"
  <2>1. CASE UNCHANGED verdict
    BY <2>1
  <2>2. CASE current = id /\ ~UNCHANGED verdict
    <3>1. id # None
      <4>1. id \in (0..MaxRounds) \X (1..MaxBatch)
        BY DEF Inv, TypeOK, Ids
      <4> QED
        BY <4>1, TurnAssumption
    <3>2. PICK k \in DOMAIN batch : current = Id(k) /\ verdict[k] = "pending"
      BY <2>2, <3>1 DEF Inv, ShownIsPending
    <3>3. id[2] = k
      BY <2>2, <3>2 DEF Id
    <3>4. \A i \in DOMAIN batch : i # k => verdict'[i] = verdict[i]
      BY <2>2, <3>3 DEF Decide, Settle, Inv, TypeOK
    <3>5. call[k] = "waiting"
      BY <3>2 DEF Inv, CallsAndVerdicts
    <3> QED
      BY <3>4, <3>5
  <2> QED
    BY <2>1, <2>2 DEF Decide
<1>3. Stage' = Stage /\ Seen' = Seen
  BY <1>1, <1>2, StagesKept
<1>4. CASE approved /\ id[1] = rounds
  BY <1>1, <1>3, <1>4 DEF Supervised!Grant
<1>5. CASE ~(approved /\ id[1] = rounds)
  BY <1>1, <1>3, <1>5 DEF Supervised!vars
<1> QED
  BY <1>4, <1>5

\* What the timer and the settings do is not seen.
LEMMA UnseenSteps ==
    ASSUME Inv,
           \/ UNCHANGED vars \/ Timer
           \/ \E m \in Modes : SetSafety(m) \/ SelectProfile(m)
    PROVE  UNCHANGED Supervised!vars
<1>1. UNCHANGED <<mode, conn, aborted, phase, rounds, batch, call, proposed, shown, granted>>
  BY DEF vars, loopVars, approvalVars, Timer, Expire, SetSafety, SelectProfile, envVars
<1>2. \A i \in DOMAIN batch : verdict'[i] # verdict[i] => call[i] = "waiting"
  <2>1. CASE UNCHANGED verdict
    BY <2>1
  <2>2. ASSUME NEW k \in DOMAIN batch, Expire(k)
        PROVE  \A i \in DOMAIN batch : verdict'[i] # verdict[i] => call[i] = "waiting"
    BY <2>2 DEF Expire, Settle, Inv, TypeOK, CallsAndVerdicts
  <2>3. ~Timer => UNCHANGED verdict
    BY DEF vars, approvalVars, SetSafety, SelectProfile
  <2> QED
    BY <2>1, <2>2, <2>3 DEF Timer
<1>3. Stage' = Stage /\ Seen' = Seen
  BY <1>1, <1>2, StagesKept
<1> QED
  BY <1>1, <1>3 DEF Supervised!vars

\* An abort halts the turn, an edit of the profile changes it and may.
LEMMA AbortSupervised ==
    ASSUME Inv
    PROVE  /\ Abort => Supervised!Halt
           /\ \A c \in Conns \cup {None} : EditProfile(c) => Supervised!Edit(c)
<1>1. ASSUME \/ UNCHANGED verdict
             \/ verdict' = [i \in DOMAIN verdict |->
                              IF verdict[i] = "pending" THEN "cancelled" ELSE verdict[i]]
      PROVE  \A i \in DOMAIN batch : verdict'[i] # verdict[i] => call[i] = "waiting"
  BY <1>1 DEF Inv, TypeOK, CallsAndVerdicts
<1>2. ASSUME Abort PROVE Supervised!Halt
  <2>1. /\ UNCHANGED <<mode, conn, phase, rounds, batch, call, proposed, shown, granted>>
        /\ phase # "ended" /\ aborted' = TRUE
    BY <1>2 DEF Abort, envVars, loopVars
  <2>2. Stage' = Stage /\ Seen' = Seen
    BY <1>1, <1>2, <2>1, StagesKept DEF Abort
  <2> QED
    BY <2>1, <2>2 DEF Supervised!Halt
<1>3. ASSUME NEW c \in Conns \cup {None}, EditProfile(c) PROVE Supervised!Edit(c)
  <2>1. /\ UNCHANGED <<mode, phase, rounds, batch, call, proposed, shown, granted>>
        /\ phase # "ended" /\ conn' = c /\ aborted' \in {aborted, TRUE}
    BY <1>3 DEF EditProfile, loopVars
  <2>2. Stage' = Stage /\ Seen' = Seen
    BY <1>1, <1>3, <2>1, StagesKept DEF EditProfile
  <2> QED
    BY <2>1, <2>2 DEF Supervised!Edit
<1> QED
  BY <1>2, <1>3

\* A turn begins with nothing asked for.
LEMMA InitSupervised == Init => Shows /\ Supervised!Init
<1> SUFFICES ASSUME Init PROVE Shows /\ Supervised!Init
  OBVIOUS
<1>1. /\ safety \in Modes /\ mode = safety /\ conn \in Conns /\ aborted = FALSE
      /\ phase = "model" /\ rounds = 0 /\ batch = <<>> /\ shown = {} /\ granted = {}
  BY DEF Init
<1>2. DOMAIN batch = {}
  BY <1>1, EmptySequence
<1>3. Stage = <<>> /\ Seen = <<>>
  BY <1>2, NoStages
<1> QED
  BY <1>1, <1>2, <1>3 DEF Shows, Supervised!Init, Supervised!Modes, Modes

\* Every step of the turn is one the operator was promised, or is not seen.
LEMMA NextSupervised == ASSUME Inv, Shows, [Next]_vars PROVE [Supervised!Next]_Supervised!vars
<1>1. CASE EndTurn
  BY <1>1, EndTurnSupervised DEF Supervised!Next
<1>2. CASE EndBatch
  BY <1>2, EndBatchSupervised DEF Supervised!Next
<1>3. ASSUME NEW b \in Batches, Respond(b) PROVE [Supervised!Next]_Supervised!vars
  BY <1>3, RespondSupervised DEF Supervised!Next
<1>4. ASSUME NEW i \in DOMAIN batch, Begin(i) \/ Complete(i) \/ Ask(i) \/ Resume(i)
      PROVE  [Supervised!Next]_Supervised!vars
  BY <1>4, BeginSupervised, CompleteSupervised, AskSupervised, ResumeSupervised
  DEF Supervised!Next
<1>5. ASSUME NEW id \in shown, NEW approved \in BOOLEAN, Decide(id, approved)
      PROVE  [Supervised!Next]_Supervised!vars
  BY <1>5, DecideSupervised DEF Supervised!Next
<1>6. CASE Abort \/ \E c \in Conns \cup {None} : EditProfile(c)
  BY <1>6, AbortSupervised DEF Supervised!Next
<1>7. CASE \/ UNCHANGED vars \/ Timer
           \/ \E m \in Modes : SetSafety(m) \/ SelectProfile(m)
  BY <1>7, UnseenSteps
<1> QED
  BY <1>1, <1>2, <1>3, <1>4, <1>5, <1>6, <1>7 DEF Next, TurnStep, Operator

\* A turn of the agent keeps what was promised to the operator.
THEOREM TurnIsSupervised == Spec => ImplementsSupervision
<1>1. Init => Shows /\ Supervised!Init
  BY InitSupervised
<1>2. Inv /\ Shows /\ [Next]_vars => Shows' /\ [Supervised!Next]_Supervised!vars
  BY ShowsStep, NextSupervised
<1> QED
  BY <1>1, <1>2, InductiveInvariant, PTL DEF Spec, ImplementsSupervision, Supervised!Spec

-----------------------------------------------------------------------------
(* What there is to the end of a turn besides fairness: a turn can always  *)
(* go on, and every step of its own brings it nearer to its end.           *)

\* How far a call is; its approval is settled on the way.
Rank(i) ==
    CASE call[i] = "queued" -> 0
      [] call[i] = "gated" -> 1
      [] call[i] = "waiting" /\ verdict[i] = "pending" -> 2
      [] call[i] = "waiting" /\ verdict[i] # "pending" -> 3
      [] call[i] = "running" -> 4
      [] OTHER -> 5

CallsGoOn == UNCHANGED <<phase, rounds, batch>> /\ \A i \in DOMAIN batch : Rank(i) <= Rank(i)'

\* The turn ends, a round is over (there are MaxRounds), a response has come,
\* or a call gets further (there are six ranks).
Advances ==
    \/ phase' = "ended"
    \/ rounds' = rounds + 1
    \/ phase = "model" /\ phase' = "batch" /\ rounds' = rounds
    \/ CallsGoOn /\ \E i \in DOMAIN batch : Rank(i) < Rank(i)'

\* A step of the turn or of its timers advances it, and no step of the
\* operator or of others takes it back: whatever they do, they cannot keep a
\* turn from its end that takes its steps.
StepsAdvance ==
    [][(TurnStep \/ Timer => Advances) /\ (Operator => CallsGoOn)]_vars

\* A batch goes on as long as a call is under way or may begin; a pending
\* approval has its timer.  Otherwise the batch is over.
CanGoOn ==
    phase = "batch" =>
        \/ \E i \in DOMAIN batch : ~Settled(i) /\ (call[i] = "queued" => MayBegin(i))
        \/ \A i \in DOMAIN batch :
              Settled(i) \/ (call[i] = "queued" /\ Serial /\ i > 1 /\ (stopped # "" \/ aborted))

\* A set of natural numbers that is not empty has a least element.
LEMMA LeastNatural ==
    ASSUME NEW S, S \subseteq Nat, S # {}
    PROVE  \E least \in S : \A other \in S : least <= other
<1> DEFINE less == OpToRel(<, Nat)
<1>1. IsWellFoundedOn(less, Nat)
  BY NatLessThanWellFounded
<1>2. \A m, n \in Nat : <<m, n>> \in less <=> m < n
  BY DEF OpToRel
<1> HIDE DEF less
<1>3. PICK least \in S : \A other \in S : ~(<<other, least>> \in less)
  BY <1>1, WFMin
<1>4. least \in Nat /\ \A other \in S : other \in Nat /\ ~(other < least)
  BY <1>2, <1>3
<1> QED
  BY <1>3, <1>4

\* The first call that has not begun may begin, unless the batch is cut short
\* there; then so are all behind it.
LEMMA InvCanGoOn == ASSUME Inv PROVE CanGoOn
<1> SUFFICES ASSUME NEW i \in DOMAIN batch, ~Settled(i),
                    \A j \in DOMAIN batch : ~Settled(j) => call[j] = "queued" /\ ~MayBegin(j)
             PROVE  \A j \in DOMAIN batch :
                       Settled(j) \/ (call[j] = "queued" /\ Serial /\ j > 1 /\ (stopped # "" \/ aborted))
  BY DEF CanGoOn
<1> DEFINE Open == {j \in DOMAIN batch : ~Settled(j)}
<1>1. /\ \A j \in DOMAIN batch : j \in Nat /\ j >= 1
      /\ \A j, k \in DOMAIN batch : j < k => k > 1
  BY PlacesAreOrdered DEF Inv
<1>2. PICK first \in Open : \A j \in Open : first <= j
  <2>1. Open \subseteq Nat /\ Open # {}
    BY <1>1
  <2> HIDE DEF Open
  <2> QED
    BY <2>1, LeastNatural
<1>3. Serial /\ first > 1 /\ (stopped # "" \/ aborted)
  <2>1. \A j \in DOMAIN batch : j < first => Settled(j)
    BY <1>1, <1>2
  <2>2. ~MayBegin(first)
    BY <1>2
  <2> QED
    BY <2>1, <2>2 DEF MayBegin
<1>4. ASSUME NEW j \in Open PROVE j > 1
  <2>1. j \in Nat /\ first \in Nat /\ first <= j /\ first > 1
    BY <1>1, <1>2, <1>3
  <2> QED
    BY <2>1
<1> QED
  BY <1>3, <1>4

\* A batch under way is never stuck, whoever is not answering.
THEOREM TurnCanGoOn == Spec => []CanGoOn
<1>1. Inv => CanGoOn
  BY InvCanGoOn
<1> QED
  BY <1>1, InductiveInvariant, PTL

\* A step of one call brings that call further and no other back.
LEMMA CallAdvances ==
    ASSUME Inv, NEW i \in DOMAIN batch, Begin(i) \/ Complete(i) \/ Ask(i) \/ Resume(i) \/ Expire(i)
    PROVE  Advances
<1>1. /\ UNCHANGED <<phase, rounds, batch>>
      /\ \A j \in DOMAIN batch : j # i => call'[j] = call[j] /\ verdict'[j] = verdict[j]
  BY DEF Begin, Complete, Ask, Resume, Expire, Settle, Fail, loopVars, approvalVars, Inv, TypeOK
<1>2. \A j \in DOMAIN batch : Rank(j) \in 0..5 /\ (j # i => Rank(j)' = Rank(j))
  BY <1>1 DEF Rank
<1>3. Rank(i) < Rank(i)'
  <2>1. CASE Begin(i)
    <3>1. call[i] = "queued" /\ call'[i] \in {"gated", "running", "failed"}
      BY <2>1 DEF Begin, Fail, Inv, TypeOK
    <3> QED
      BY <3>1 DEF Rank
  <2>2. CASE Complete(i)
    <3>1. call[i] = "running" /\ call'[i] \in {"done", "failed"}
      BY <2>2 DEF Complete, Fail, Inv, TypeOK
    <3> QED
      BY <3>1 DEF Rank
  <2>3. CASE Ask(i)
    <3>1. call[i] = "gated" /\ call'[i] = "waiting"
      BY <2>3 DEF Ask, Inv, TypeOK
    <3> QED
      BY <3>1 DEF Rank
  <2>4. CASE Resume(i)
    <3>1. call[i] = "waiting" /\ call'[i] \in {"running", "failed"}
      BY <2>4 DEF Resume, Fail, Inv, TypeOK
    <3> QED
      BY <3>1 DEF Rank
  <2>5. CASE Expire(i)
    <3>1. /\ call[i] = "waiting" /\ call' = call
          /\ verdict[i] = "pending" /\ verdict'[i] = "expired"
      BY <2>5 DEF Expire, Settle, Inv, TypeOK, CallsAndVerdicts
    <3> QED
      BY <3>1 DEF Rank
  <2> QED
    BY <2>1, <2>2, <2>3, <2>4, <2>5
<1>4. ASSUME NEW j \in DOMAIN batch PROVE Rank(j) <= Rank(j)'
  <2>1. CASE j = i
    <3>1. Rank(i) \in 0..5 /\ Rank(i)' \in 0..5
      BY <1>2 DEF Rank
    <3> QED
      BY <2>1, <3>1, <1>3
  <2>2. CASE j # i
    BY <2>2, <1>2
  <2> QED
    BY <2>1, <2>2
<1> QED
  BY <1>1, <1>3, <1>4 DEF Advances, CallsGoOn

\* The operator and the others settle approvals at most.
LEMMA OperatorKeepsCalls == ASSUME Inv, Operator PROVE CallsGoOn
<1>1. UNCHANGED <<phase, rounds, batch, call>>
  BY DEF Operator, Decide, Abort, SetSafety, SelectProfile, EditProfile, loopVars
<1>2. \A i \in DOMAIN batch : verdict'[i] = "pending" => verdict[i] = "pending"
  <2>1. CASE UNCHANGED verdict
    BY <2>1
  <2>2. CASE verdict' = [i \in DOMAIN verdict |->
                           IF verdict[i] = "pending" THEN "cancelled" ELSE verdict[i]]
    BY <2>2 DEF Inv, TypeOK
  <2>3. ASSUME NEW k, NEW v \in {"invalidated", "approved", "declined"},
               verdict' = [verdict EXCEPT ![k] = v]
        PROVE  \A i \in DOMAIN batch : verdict'[i] = "pending" => verdict[i] = "pending"
    BY <2>3 DEF Inv, TypeOK
  <2> QED
    BY <2>1, <2>2, <2>3
    DEF Operator, Decide, Settle, Abort, SetSafety, SelectProfile, EditProfile, approvalVars
<1>3. \A i \in DOMAIN batch : Rank(i) <= Rank(i)'
  BY <1>1, <1>2 DEF Rank
<1> QED
  BY <1>1, <1>3 DEF CallsGoOn

\* Every step of a turn brings it nearer to its end, and nobody can take it
\* back.  With TurnCanGoOn this is all there is to its end but fairness.
THEOREM TurnAdvances == Spec => StepsAdvance
<1>1. ASSUME Inv, TurnStep \/ Timer PROVE Advances
  <2>1. CASE EndTurn \/ EndBatch
    BY <2>1 DEF EndTurn, EndBatch, Advances
  <2>2. CASE \E b \in Batches : Respond(b)
    BY <2>2 DEF Respond, Advances
  <2> QED
    BY <1>1, <2>1, <2>2, CallAdvances DEF TurnStep, Timer
<1>2. Inv /\ [Next]_vars => [(TurnStep \/ Timer => Advances) /\ (Operator => CallsGoOn)]_vars
  BY <1>1, OperatorKeepsCalls
<1> QED
  BY <1>2, InductiveInvariant, PTL DEF Spec, StepsAdvance
=============================================================================
