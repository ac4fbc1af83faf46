--------------------------- MODULE AgentJobsProofs ---------------------------
(***************************************************************************)
(* Proofs about AgentJobs, for any number of users, chats, jobs and        *)
(* profiles and any limit: the types, that every turn not told to stop can *)
(* be reached through its user's list, the limit on such turns, and the    *)
(* isolation of the users' histories; and about JobEvents, for any jobs,   *)
(* events, streams, boots and reloads: that a page handles each event.     *)
(***************************************************************************)
EXTENDS AgentJobs, JobEvents, Integers, Sequences, FiniteSetTheorems, TLAPS

\* What the histories hold, stated without HistoryFor: the reason for
\* UsersIsolated that is inductive.
Isolated ==
    /\ \A j \in Jobs : owner[j] # None => base[j] \subseteq Own(owner[j][1])
    /\ \A k \in Slots : history[k] \subseteq Own(k[1])
    /\ \A u \in Users : latest[u] \subseteq Own(u)

\* The lists only hold jobs that were started, under their owners.
ListedOwned == \A k \in Slots : listed[k] # None => owner[listed[k]] = k

\* The inductive invariant.
Inv == TypeOK /\ ListedOwned /\ LiveJobsListed /\ LimitHolds /\ Isolated

\* The slots are finitely many, and so are the active jobs.
LEMMA SlotsFinite == IsFiniteSet(Slots) /\ IsFiniteSet(ActiveJobs)
<1>1. IsFiniteSet(Slots)
  BY JobsAssumption, FS_Product DEF Slots
<1>2. ActiveJobs \in SUBSET Slots
  BY DEF ActiveJobs
<1> QED
  BY <1>1, <1>2, FS_Subset

\* None stands for no slot and for no job.
LEMMA NoneIsNothing == None \notin Slots /\ None \notin Jobs
BY JobsAssumption DEF Slots

\* Live turns are in the list under their owners, so there are at most as
\* many of them as startAgentJob counts.
LEMMA LiveCounted ==
    ASSUME TypeOK, LiveJobsListed
    PROVE  IsFiniteSet(Live) /\ Cardinality(Live) <= Cardinality(ActiveJobs)
<1> DEFINE f == [j \in Live |-> owner[j]]
<1>1. ASSUME NEW j \in Live PROVE owner[j] \in ActiveJobs
  BY JobsAssumption DEF Live, LiveJobsListed, ActiveJobs, Running, TypeOK, Slots
<1>2. ASSUME NEW i \in Live, NEW j \in Live, owner[i] = owner[j] PROVE i = j
  BY <1>2 DEF LiveJobsListed
<1>3. f \in Injection(Live, ActiveJobs)
  BY <1>1, <1>2 DEF Injection, IsInjective
<1> HIDE DEF f
<1> QED
  BY <1>3, SlotsFinite, FS_Injection

\* A step after which no other turn is live keeps the limit.
LEMMA FewerLive ==
    ASSUME TypeOK, LiveJobsListed, LimitHolds, Live' \subseteq Live
    PROVE  LimitHolds'
<1>1. IsFiniteSet(Live) /\ Cardinality(Live) <= Limit
  BY LiveCounted DEF LimitHolds
<1>2. Live' \in SUBSET Live
  OBVIOUS
<1>3. IsFiniteSet(Live') /\ Cardinality(Live') <= Cardinality(Live)
  BY <1>1, <1>2, FS_Subset
<1>4. Cardinality(Live') \in Nat /\ Cardinality(Live) \in Nat
  BY <1>1, <1>3, FS_CardinalityType
<1>5. Cardinality(Live') <= Limit
  BY <1>1, <1>3, <1>4, JobsAssumption
<1> QED
  BY <1>5 DEF LimitHolds

\* A step that starts no job and only drops histories keeps them isolated.
LEMMA DropsHistory ==
    ASSUME Isolated, UNCHANGED <<owner, base>>,
           \A k \in Slots : history'[k] \in {history[k], {}},
           \A u \in Users : latest'[u] \in {latest[u], {}}
    PROVE  Isolated'
BY DEF Isolated, Own

\* Initially nothing runs and nothing is remembered.
LEMMA InitInv == Init => Inv
<1> SUFFICES ASSUME Init PROVE Inv
  OBVIOUS
<1>1. TypeOK
  BY JobsAssumption DEF Init, TypeOK, Slots
<1>2. Live = {}
  BY DEF Init, Live
<1>3. LiveJobsListed /\ LimitHolds
  BY <1>2, FS_EmptySet, JobsAssumption DEF LiveJobsListed, LimitHolds
<1>4. Isolated /\ ListedOwned
  BY DEF Init, Isolated, ListedOwned
<1> QED
  BY <1>1, <1>3, <1>4 DEF Inv

-----------------------------------------------------------------------------
(* Jobs.                                                                   *)

\* Starting a job keeps Inv: the limit was not reached, and the job starts
\* from what its own user's jobs left.
LEMMA StartJobInv ==
    ASSUME Inv, NEW k \in Slots, NEW j \in Jobs, StartJob(k, j) PROVE Inv'
<1>1. PICK old \in SUBSET {h \in Slots : h[1] = k[1] /\ listed[h] # None /\ ~Running(listed[h])} :
        listed' = [h \in Slots |-> IF h = k THEN j ELSE IF h \in old THEN None ELSE listed[h]]
  BY DEF StartJob
<1>2. PICK messages \in {{}, HistoryFor(k)} : base' = [base EXCEPT ![j] = messages]
  BY DEF StartJob
<1>3. k[1] \in Users /\ k # None /\ j # None /\ status[j] = "unused" /\ owner[j] = None
  BY JobsAssumption DEF Slots, StartJob, Inv, TypeOK
<1>4. messages \subseteq Own(k[1]) /\ messages \subseteq Jobs
  BY <1>3 DEF Inv, Isolated, HistoryFor, Own
<1>5. TypeOK'
  <2>1. listed' \in [Slots -> Jobs \cup {None}]
    BY <1>1 DEF Inv, TypeOK
  <2>2. base' \in [Jobs -> SUBSET Jobs]
    BY <1>2, <1>4 DEF Inv, TypeOK
  <2>3. \A i \in Jobs : owner'[i] = None <=> status'[i] = "unused"
    BY <1>3 DEF Inv, TypeOK, StartJob
  <2>4. \A i \in Jobs : aborted'[i] => owner'[i] # None
    BY <1>3 DEF Inv, TypeOK, StartJob
  <2> QED
    BY <2>1, <2>2, <2>3, <2>4 DEF Inv, TypeOK, StartJob, profileVars, historyVars
<1>6. Live' \subseteq Live \cup {j}
  BY DEF Inv, TypeOK, StartJob, Live
<1>7. LiveJobsListed'
  <2> SUFFICES ASSUME NEW i \in Live' PROVE listed'[owner'[i]] = i
    BY DEF LiveJobsListed
  <2>1. CASE i = j
    BY <2>1, <1>1 DEF Inv, TypeOK, StartJob
  <2>2. CASE i # j
    <3>1. i \in Live /\ owner'[i] = owner[i] /\ Running(i)
      BY <2>2, <1>6, JobsAssumption DEF Inv, TypeOK, StartJob, Live, Running
    <3>2. listed[owner[i]] = i /\ owner[i] \in Slots
      BY <3>1 DEF Inv, LiveJobsListed, TypeOK, Live
    <3>3. owner[i] # k /\ owner[i] \notin old
      BY <3>1, <3>2 DEF StartJob
    <3> QED
      BY <3>1, <3>2, <3>3, <1>1
  <2> QED
    BY <2>1, <2>2
<1>8. LimitHolds'
  <2>1. IsFiniteSet(Live) /\ Cardinality(Live) <= Cardinality(ActiveJobs)
    BY LiveCounted DEF Inv
  <2>2. Cardinality(ActiveJobs) < Limit /\ Cardinality(ActiveJobs) \in Nat /\ Cardinality(Live) \in Nat
    BY <2>1, SlotsFinite, FS_CardinalityType DEF StartJob
  <2>3. IsFiniteSet(Live \cup {j}) /\ Cardinality(Live \cup {j}) <= Cardinality(Live) + 1
    <3>1. IsFiniteSet(Live \cup {j})
      BY <2>1, FS_AddElement
    <3>2. Cardinality(Live \cup {j}) = IF j \in Live THEN Cardinality(Live) ELSE Cardinality(Live) + 1
      BY <2>1, FS_AddElement
    <3> QED
      BY <3>1, <3>2, <2>2
  <2>4. Live' \in SUBSET (Live \cup {j})
    BY <1>6
  <2>5. IsFiniteSet(Live') /\ Cardinality(Live') <= Cardinality(Live \cup {j})
    BY <2>3, <2>4, FS_Subset
  <2>6. Cardinality(Live') \in Nat /\ Cardinality(Live \cup {j}) \in Nat
    BY <2>3, <2>5, FS_CardinalityType
  <2>7. Cardinality(Live') <= Limit
    BY <2>1, <2>2, <2>3, <2>5, <2>6, JobsAssumption
  <2> QED
    BY <2>7 DEF LimitHolds
<1>9. Isolated'
  <2>1. ASSUME NEW u PROVE Own(u) \subseteq Own(u)'
    BY <1>3 DEF Own, StartJob, Inv, TypeOK
  <2>2. ASSUME NEW i \in Jobs, owner'[i] # None PROVE (base[i] \subseteq Own(owner[i][1]))'
    <3>1. CASE i = j
      <4>1. owner'[i] = k /\ base'[i] = messages
        BY <3>1, <1>2 DEF StartJob, Inv, TypeOK
      <4> QED
        BY <4>1, <1>4, <2>1 DEF Own
    <3>2. CASE i # j
      <4>1. owner'[i] = owner[i] /\ base'[i] = base[i]
        BY <3>2, <1>2 DEF StartJob, Inv, TypeOK
      <4>2. base[i] \subseteq Own(owner[i][1])
        BY <4>1, <2>2 DEF Inv, Isolated
      <4> QED
        BY <4>1, <4>2, <2>1 DEF Own
    <3> QED
      BY <3>1, <3>2
  <2>3. \A h \in Slots : history'[h] \subseteq Own(h[1])'
    BY <2>1 DEF StartJob, Inv, Isolated, historyVars
  <2>4. \A u \in Users : latest'[u] \subseteq Own(u)'
    BY <2>1 DEF StartJob, Inv, Isolated, historyVars
  <2> QED
    BY <2>2, <2>3, <2>4 DEF Isolated
<1>10. ListedOwned'
  <2> SUFFICES ASSUME NEW h \in Slots, listed'[h] # None PROVE owner'[listed'[h]] = h
    BY DEF ListedOwned
  <2>1. CASE h = k
    BY <2>1, <1>1 DEF StartJob, Inv, TypeOK
  <2>2. CASE h # k
    <3>1. listed'[h] = listed[h] /\ listed[h] \in Jobs /\ owner[listed[h]] = h
      BY <2>2, <1>1 DEF Inv, TypeOK, ListedOwned
    <3>2. listed[h] # j
      BY <3>1, <1>3, NoneIsNothing
    <3> QED
      BY <3>1, <3>2 DEF StartJob, Inv, TypeOK
  <2> QED
    BY <2>1, <2>2
<1> QED
  BY <1>5, <1>7, <1>8, <1>9, <1>10 DEF Inv

\* A returning turn leaves the live ones and stores what it saw: messages of
\* its own user's jobs.
LEMMA ReturnInv ==
    ASSUME Inv, NEW j \in Jobs, Return(j) PROVE Inv'
<1>1. owner[j] \in Slots /\ owner[j] # None
  BY DEF Inv, TypeOK, Return
<1>2. owner[j][1] \in Users
  BY <1>1 DEF Slots
<1>3. base[j] \cup {j} \subseteq Own(owner[j][1])
  BY <1>1 DEF Inv, Isolated, Own
<1>4. TypeOK'
  <2>1. history' \in [Slots -> SUBSET Jobs] /\ latest' \in [Users -> SUBSET Jobs]
    BY <1>3 DEF Inv, TypeOK, Return, Own
  <2> QED
    BY <2>1 DEF Inv, TypeOK, Return, profileVars
<1>5. Live' \subseteq Live /\ UNCHANGED <<listed, owner>>
  BY DEF Inv, TypeOK, Return, Live
<1>6. LimitHolds'
  BY <1>5, FewerLive DEF Inv
<1>7. LiveJobsListed' /\ ListedOwned'
  BY <1>5 DEF Inv, LiveJobsListed, ListedOwned
<1>8. Isolated'
  <2>1. ASSUME NEW u PROVE Own(u)' = Own(u)
    BY <1>5 DEF Own
  <2>2. UNCHANGED <<owner, base>>
    BY DEF Return
  <2>3. \A i \in Jobs : (owner[i] # None => base[i] \subseteq Own(owner[i][1]))'
    BY <2>2 DEF Inv, Isolated, Own
  <2>4. \A k \in Slots : history'[k] \subseteq Own(k[1])'
    BY <1>1, <1>3, <2>1 DEF Inv, TypeOK, Isolated, Return
  <2>5. \A u \in Users : latest'[u] \subseteq Own(u)'
    BY <1>2, <1>3, <2>1 DEF Inv, TypeOK, Isolated, Return
  <2> QED
    BY <2>3, <2>4, <2>5 DEF Isolated
<1> QED
  BY <1>4, <1>6, <1>7, <1>8 DEF Inv

\* So does a failing one, which stores nothing.
LEMMA FailInv ==
    ASSUME Inv, NEW j \in Jobs, Fail(j) PROVE Inv'
<1>1. TypeOK'
  BY DEF Inv, TypeOK, Fail, profileVars, historyVars
<1>2. Live' \subseteq Live /\ UNCHANGED <<listed, owner, base, history, latest>>
  BY DEF Inv, TypeOK, Fail, Live, historyVars
<1>3. LimitHolds'
  BY <1>2, FewerLive DEF Inv
<1> QED
  BY <1>1, <1>2, <1>3, DropsHistory DEF Inv, LiveJobsListed, ListedOwned

\* Cancelling aborts a job that the list knows, and thus one that was started.
LEMMA CancelInv ==
    ASSUME Inv, NEW k \in Slots, Cancel(k) PROVE Inv'
<1>1. listed[k] \in Jobs /\ owner[listed[k]] # None
  BY DEF Inv, TypeOK, Cancel, Running
<1>2. TypeOK'
  BY <1>1 DEF Inv, TypeOK, Cancel, profileVars, historyVars
<1>3. Live' \subseteq Live /\ UNCHANGED <<listed, owner, base, history, latest>>
  BY DEF Inv, TypeOK, Cancel, Live, historyVars
<1>4. LimitHolds'
  BY <1>3, FewerLive DEF Inv
<1> QED
  BY <1>2, <1>3, <1>4, DropsHistory DEF Inv, LiveJobsListed, ListedOwned

\* What a reset takes off the list it has aborted.
LEMMA ResetChatInv ==
    ASSUME Inv, NEW k \in Slots, ResetChat(k) PROVE Inv'
<1>1. k[1] \in Users
  BY DEF Slots
<1>2. TypeOK'
  <2>1. \A j \in Jobs : aborted'[j] => owner'[j] # None
    BY NoneIsNothing DEF Inv, TypeOK, ListedOwned, ResetChat
  <2>2. history' \in [Slots -> SUBSET Jobs] /\ latest' \in [Users -> SUBSET Jobs]
    BY <1>1 DEF Inv, TypeOK, ResetChat
  <2>3. aborted' \in [Jobs -> BOOLEAN] /\ listed' \in [Slots -> Jobs \cup {None}]
    BY DEF Inv, TypeOK, ResetChat
  <2> QED
    BY <2>1, <2>2, <2>3 DEF Inv, TypeOK, ResetChat, profileVars
<1>3. Live' \subseteq Live
  BY DEF Inv, TypeOK, ResetChat, Live
<1>4. LimitHolds'
  BY <1>3, FewerLive DEF Inv
<1>5. LiveJobsListed'
  <2> SUFFICES ASSUME NEW j \in Live' PROVE listed'[owner'[j]] = j
    BY DEF LiveJobsListed
  <2>1. j \in Live /\ j # listed[k] /\ owner'[j] = owner[j]
    BY <1>3 DEF ResetChat, Live
  <2>2. listed[owner[j]] = j
    BY <2>1 DEF Inv, LiveJobsListed
  <2>3. owner[j] \in Slots /\ owner[j] # k
    BY <2>1, <2>2 DEF Inv, TypeOK, Live
  <2> QED
    BY <2>1, <2>2, <2>3 DEF ResetChat, Inv, TypeOK
<1>6. ListedOwned'
  BY DEF Inv, TypeOK, ListedOwned, ResetChat
<1>7. Isolated'
  BY <1>1, DropsHistory DEF Inv, TypeOK, ResetChat
<1> QED
  BY <1>2, <1>4, <1>5, <1>6, <1>7 DEF Inv

-----------------------------------------------------------------------------
(* Resets of whole runtimes, and profiles.                                 *)

\* Every reset of a set of users keeps the parts of Inv that are about jobs
\* and histories.
LEMMA ResetRuntimesInv ==
    ASSUME Inv, NEW us, ResetRuntimes(us), UNCHANGED <<status, owner, base>>
    PROVE  /\ aborted' \in [Jobs -> BOOLEAN] /\ listed' \in [Slots -> Jobs \cup {None}]
           /\ history' \in [Slots -> SUBSET Jobs] /\ latest' \in [Users -> SUBSET Jobs]
           /\ \A j \in Jobs : aborted'[j] => owner'[j] # None
           /\ ListedOwned' /\ LiveJobsListed' /\ LimitHolds' /\ Isolated'
<1>1. aborted' \in [Jobs -> BOOLEAN] /\ listed' \in [Slots -> Jobs \cup {None}]
  BY DEF Inv, TypeOK, ResetRuntimes
<1>2. history' \in [Slots -> SUBSET Jobs] /\ latest' \in [Users -> SUBSET Jobs]
  BY DEF Inv, TypeOK, ResetRuntimes
<1>3. \A j \in Jobs : aborted'[j] => owner'[j] # None
  BY NoneIsNothing DEF Inv, TypeOK, ListedOwned, ResetRuntimes
<1>4. Live' \subseteq Live
  BY DEF Inv, TypeOK, ResetRuntimes, Live
<1>5. LimitHolds'
  BY <1>4, FewerLive DEF Inv
<1>6. LiveJobsListed'
  <2> SUFFICES ASSUME NEW j \in Live' PROVE listed'[owner'[j]] = j
    BY DEF LiveJobsListed
  <2>1. j \in Live /\ owner'[j] = owner[j] /\ ~aborted'[j] /\ j \in Jobs
    BY <1>4 DEF Live
  <2>2. listed[owner[j]] = j /\ owner[j] \in Slots
    BY <2>1 DEF Inv, LiveJobsListed, TypeOK, Live
  <2>3. owner[j][1] \notin us
    BY <2>1, <2>2 DEF ResetRuntimes
  <2> QED
    BY <2>1, <2>2, <2>3 DEF ResetRuntimes
<1>7. ListedOwned'
  BY DEF Inv, ListedOwned, ResetRuntimes
<1>8. Isolated'
  <2>1. \A k \in Slots : history'[k] \in {history[k], {}}
    BY DEF ResetRuntimes
  <2>2. \A u \in Users : latest'[u] \in {latest[u], {}}
    BY DEF ResetRuntimes
  <2> QED
    BY <2>1, <2>2, DropsHistory DEF Inv
<1> QED
  BY <1>1, <1>2, <1>3, <1>5, <1>6, <1>7, <1>8

\* A user's reset of all chats.
LEMMA ResetAllInv ==
    ASSUME Inv, NEW u \in Users, ResetAll(u) PROVE Inv'
<1>1. ResetRuntimes({u}) /\ UNCHANGED <<profileVars, status, owner, base>>
  BY DEF ResetAll
<1> QED
  BY <1>1, ResetRuntimesInv DEF Inv, TypeOK, profileVars

\* Selecting a profile leaves jobs and histories alone.
LEMMA SelectInv ==
    ASSUME Inv, NEW u \in Users,
           (\E p \in Profiles : BeginSelect(u, p)) \/ FinishSelect(u)
    PROVE  Inv'
<1>1. UNCHANGED <<configured, fallback, status, owner, base, aborted, listed, history,
                  latest>>
  BY DEF BeginSelect, FinishSelect, turnVars, historyVars
<1>2. profile' \in [Users -> Profiles \cup {None}] /\ switching' \in [Users -> Profiles \cup {None}]
  BY DEF BeginSelect, FinishSelect, Inv, TypeOK
<1> QED
  BY <1>1, <1>2 DEF Inv, TypeOK, ListedOwned, LiveJobsListed, LimitHolds, Live, Isolated, Own

\* An edit or a removal resets the users who have the profile selected.
LEMMA InvalidateInv ==
    ASSUME Inv, NEW names, NEW replacement \in Profiles \cup {None},
           Invalidate(names, replacement), configured' \subseteq Profiles,
           fallback' \in Profiles \cup {None},
           UNCHANGED <<switching, status, owner, base>>
    PROVE  Inv'
<1> DEFINE us == {u \in Users : profile[u] \in names}
<1>1. ResetRuntimes(us)
  BY DEF Invalidate
<1>2. profile' \in [Users -> Profiles \cup {None}]
  BY DEF Invalidate, Inv, TypeOK
<1> HIDE DEF us
<1> QED
  BY <1>1, <1>2, ResetRuntimesInv DEF Inv, TypeOK

\* Edits, renamings and removals keep Inv.
LEMMA ProfilesInv ==
    ASSUME Inv, NEW p \in Profiles,
           RemoveProfile(p) \/ (\E q \in Profiles : EditProfile(p, q))
    PROVE  Inv'
<1>1. CASE RemoveProfile(p)
  <2>1. configured' \subseteq Profiles /\ fallback' \in Profiles \cup {None}
    BY <1>1 DEF RemoveProfile, Inv, TypeOK
  <2> QED
    BY <1>1, <2>1, InvalidateInv DEF RemoveProfile
<1>2. CASE \E q \in Profiles : EditProfile(p, q)
  <2>1. PICK q \in Profiles : EditProfile(p, q)
    BY <1>2
  <2>2. configured' \subseteq Profiles /\ fallback' \in Profiles \cup {None}
    BY <2>1 DEF EditProfile, Inv, TypeOK
  <2> QED
    BY <2>1, <2>2, InvalidateInv DEF EditProfile
<1> QED
  BY <1>1, <1>2

-----------------------------------------------------------------------------
(* The theorems.                                                           *)

\* Every step of the server keeps the invariant.
THEOREM InductiveInvariant == Inv /\ [Next]_vars => Inv'
<1> SUFFICES ASSUME Inv, [Next]_vars PROVE Inv'
  OBVIOUS
<1>1. ASSUME NEW k \in Slots, (\E j \in Jobs : StartJob(k, j)) \/ Cancel(k) \/ ResetChat(k)
      PROVE  Inv'
  BY <1>1, StartJobInv, CancelInv, ResetChatInv
<1>2. ASSUME NEW j \in Jobs, Return(j) \/ Fail(j) PROVE Inv'
  BY <1>2, ReturnInv, FailInv
<1>3. ASSUME NEW u \in Users, ResetAll(u) \/ FinishSelect(u) \/ \E p \in Profiles : BeginSelect(u, p)
      PROVE  Inv'
  BY <1>3, ResetAllInv, SelectInv
<1>4. ASSUME NEW p \in Profiles, RemoveProfile(p) \/ \E q \in Profiles : EditProfile(p, q)
      PROVE  Inv'
  BY <1>4, ProfilesInv
<1>5. CASE UNCHANGED vars
  BY <1>5 DEF vars, Inv, TypeOK, ListedOwned, LiveJobsListed, LimitHolds, Live, Isolated, Own
<1> QED
  BY <1>1, <1>2, <1>3, <1>4, <1>5 DEF Next

\* The inductive invariant holds in every reachable state.
THEOREM Invariance == Spec => []Inv
BY InitInv, InductiveInvariant, PTL DEF Spec

\* Every variable keeps its type.
THEOREM TypeCorrect == Spec => []TypeOK
<1>1. Inv => TypeOK
  BY DEF Inv
<1> QED
  BY <1>1, Invariance, PTL

\* Every turn that has not been told to stop can be reached through its
\* user's list, whatever resets, edits and purges happen (startAgentJob,
\* resetAgentHistory).
THEOREM LiveTurnsListed == Spec => []LiveJobsListed
<1>1. Inv => LiveJobsListed
  BY DEF Inv
<1> QED
  BY <1>1, Invariance, PTL

\* The limit of startAgentJob holds across users for such turns.
THEOREM LimitAcrossUsers == Spec => []LimitHolds
<1>1. Inv => LimitHolds
  BY DEF Inv
<1> QED
  BY <1>1, Invariance, PTL

\* What a user's jobs saw stays in that user's runtime (agentHistoryFor and
\* setAgentHistoryFor work on the runtime of the request).
THEOREM Isolation == Spec => []UsersIsolated
<1>1. Inv => UsersIsolated
  BY DEF Inv, Isolated, UsersIsolated, HistoryFor, Slots
<1> QED
  BY <1>1, Invariance, PTL

-----------------------------------------------------------------------------
(* The events of a chat's jobs and its page (JobEvents), for any number of  *)
(* jobs, events, boots and streams.                                         *)

\* The server keeps a job's last event, and room is left for it until it ends.
ServerKeeps ==
    \A j \in ChatJobs :
       /\ first[j] <= next[j]
       /\ next[j] > 0 => first[j] < next[j]
       /\ jobStatus[j] = "ended" => next[j] > 0
       /\ jobStatus[j] # "ended" => next[j] < MaxEvents

\* The page has handled what the server still has of the events before c.
Reached(j, c) == \A q \in Seqs : first[j] <= q /\ q < c => q \in Handled(j)

Ordered(j) ==
    /\ \A p \in order[j] : p[1] < p[2] \/ (p[1] # p[2] /\ Dropped(j, p[2]))
    /\ \A s \in Handled(j) : Reached(j, s)

\* A job that is over has ended, and its last event is handled.
Finished(j) == j \in over => jobStatus[j] = "ended" /\ (next[j] - 1) \in Handled(j)

\* Of the events before c the page has what the server still has, or it is among
\* the first n of the wire.
Ahead(r, c, n) ==
    \A q \in Seqs : first[stream[r].job] <= q /\ q < c =>
       q \in Handled(stream[r].job) \/ \E k \in 1..n : wire[r][k] = q

\* What a stream has written and will write leaves no gap, whatever the job's
\* other streams and polls did.
StreamSound(r) ==
    IF stream[r].job = 0 THEN ~stream[r].ended /\ wire[r] = <<>>
    ELSE /\ stream[r].cursor <= next[stream[r].job]
         /\ stream[r].ended => /\ jobStatus[stream[r].job] = "ended"
                               /\ stream[r].cursor = next[stream[r].job]
         /\ \A i \in 1..Len(wire[r]) : /\ wire[r][i] < next[stream[r].job]
                                       /\ Ahead(r, wire[r][i], i - 1)
         /\ Ahead(r, stream[r].cursor, Len(wire[r]))

\* A cursor is a place to resume from in the job it counts, unless that job was
\* itself polled from another's.
Resumable(cursor, of) ==
    cursor > 0 => of \in ChatJobs /\ (of \notin misled => Reached(of, cursor))

\* What an answer said is so, but for events dropped or pushed since.
AnswerSound(answer) ==
    IF answer.job = 0 THEN ~answer.ended /\ answer.to = 0
    ELSE /\ answer.from <= first[answer.job] /\ answer.to <= next[answer.job]
         /\ answer.ended => /\ jobStatus[answer.job] = "ended"
                            /\ answer.to = next[answer.job]

PageSound ==
    /\ \A j \in ChatJobs \ misled : Ordered(j) /\ Finished(j)
    /\ \A r \in Streams : StreamSound(r)
    /\ Resumable(stored.cursor, stored.of) /\ Resumable(poll.cursor, poll.of)
    /\ AnswerSound(poll.answer)

\* The inductive invariant.
EventsInv == EventsTypeOK /\ ServerKeeps /\ PageSound

-----------------------------------------------------------------------------
\* What no step takes back.
Forward ==
    /\ processed \subseteq processed' /\ misled \subseteq misled'
    /\ \A j \in ChatJobs :
          /\ first[j] <= first'[j] /\ next[j] <= next'[j]
          /\ jobStatus[j] = "ended" => jobStatus'[j] = "ended" /\ next'[j] = next[j]

\* Handled events stay handled.
LEMMA StillHandled ==
    ASSUME Forward, NEW j PROVE Handled(j) \subseteq Handled(j)'
BY DEF Forward, Handled, Seqs

\* The numbers of a job.
LEMMA JobNumbers ==
    ASSUME EventsTypeOK, NEW j \in ChatJobs
    PROVE  first[j] \in Nat /\ next[j] \in Nat /\ next[j] <= MaxEvents
<1>1. MaxEvents \in Nat
  BY EventAssumption
<1>2. first[j] \in 0..MaxEvents /\ next[j] \in 0..MaxEvents
  BY DEF EventsTypeOK, Seqs
<1> QED
  BY <1>1, <1>2

\* The numbers of a stream.
LEMMA StreamNumbers ==
    ASSUME EventsTypeOK, NEW r \in Streams
    PROVE  /\ stream[r].job = 0 \/ stream[r].job \in ChatJobs
           /\ stream[r].cursor \in Nat /\ stream[r].cursor <= MaxEvents
           /\ stream[r].ended \in BOOLEAN
           /\ wire[r] \in Seq(Seqs) /\ Len(wire[r]) \in Nat
           /\ \A i \in 1..Len(wire[r]) : wire[r][i] \in Nat
<1>1. MaxEvents \in Nat /\ MaxJobs \in Nat
  BY EventAssumption
<1>2. stream[r] \in [job : 0..MaxJobs, cursor : 0..MaxEvents, ended : BOOLEAN]
  BY DEF EventsTypeOK, Seqs
<1>3. stream[r].job \in 0..MaxJobs /\ stream[r].cursor \in 0..MaxEvents /\ stream[r].ended \in BOOLEAN
  BY <1>2
<1>4. wire[r] \in Seq(Seqs)
  BY DEF EventsTypeOK
<1>5. Seqs \subseteq Nat
  BY <1>1 DEF Seqs
<1>6. Len(wire[r]) \in Nat /\ \A i \in 1..Len(wire[r]) : wire[r][i] \in Nat
  <2>1. PICK w \in Seq(Seqs) : w = wire[r]
    BY <1>4
  <2>2. Len(w) \in Nat /\ \A i \in 1..Len(w) : w[i] \in Seqs
    OBVIOUS
  <2> QED
    BY <1>5, <2>1, <2>2
<1> QED
  BY <1>1, <1>3, <1>4, <1>6 DEF ChatJobs

\* The numbers of a poll and its answer.
LEMMA PollNumbers ==
    ASSUME EventsTypeOK
    PROVE  /\ poll.cursor \in Nat /\ poll.cursor \in Seqs /\ poll.of \in 0..MaxJobs
           /\ poll.answer.job = 0 \/ poll.answer.job \in ChatJobs
           /\ poll.answer.from \in Nat /\ poll.answer.to \in Nat
           /\ poll.answer.to \in Seqs
           /\ poll.answer.ended \in BOOLEAN /\ poll.answer.came \in BOOLEAN
<1>1. MaxEvents \in Nat /\ MaxJobs \in Nat
  BY EventAssumption
<1> DEFINE Replies == [job : 0..MaxJobs, from : Seqs, to : Seqs, ended : BOOLEAN,
                      came : BOOLEAN]
<1>2. /\ poll.cursor \in Seqs /\ poll.of \in 0..MaxJobs /\ poll.answer \in Replies
  BY DEF EventsTypeOK
<1>3. /\ poll.answer.job \in 0..MaxJobs /\ poll.answer.from \in Seqs
      /\ poll.answer.to \in Seqs
      /\ poll.answer.ended \in BOOLEAN /\ poll.answer.came \in BOOLEAN
  BY <1>2
<1> HIDE DEF Replies
<1> QED
  BY <1>1, <1>2, <1>3 DEF Seqs, ChatJobs

\* The numbers of a job before and after a step.
LEMMA JobMoves ==
    ASSUME EventsTypeOK, EventsTypeOK', Forward, NEW j \in ChatJobs
    PROVE  /\ first[j] \in Nat /\ first'[j] \in Nat /\ first[j] <= first'[j]
           /\ next[j] \in Nat /\ next'[j] \in Nat /\ next[j] <= next'[j]
           /\ jobStatus[j] = "ended" => jobStatus'[j] = "ended" /\ next'[j] = next[j]
<1>1. first'[j] \in Nat /\ next'[j] \in Nat
  <2>1. MaxEvents \in Nat
    BY EventAssumption
  <2>2. first'[j] \in 0..MaxEvents /\ next'[j] \in 0..MaxEvents
    BY DEF EventsTypeOK, Seqs
  <2> QED
    BY <2>1, <2>2
<1> QED
  BY <1>1, JobNumbers DEF Forward

\* What was reached stays reached.
LEMMA StillReached ==
    ASSUME EventsTypeOK, EventsTypeOK', Forward, NEW j \in ChatJobs, NEW c \in Nat,
           Reached(j, c)
    PROVE  Reached(j, c)'
<1> SUFFICES ASSUME NEW q \in Seqs, first'[j] <= q, q < c PROVE q \in Handled(j)'
  BY DEF Reached, Seqs
<1>1. first[j] <= q
  <2>1. first[j] \in Nat /\ first'[j] \in Nat /\ first[j] <= first'[j] /\ q \in Nat
    BY JobMoves, EventAssumption DEF Seqs
  <2> QED
    BY <2>1
<1> QED
  BY <1>1, StillHandled DEF Reached

\* What is ahead in the wire of a stream that is left alone stays there or is handled.
LEMMA StillAhead ==
    ASSUME EventsTypeOK, EventsTypeOK', Forward,
           NEW r \in Streams, stream'[r] = stream[r], wire'[r] = wire[r],
           stream[r].job \in ChatJobs,
           NEW c \in Int, NEW n \in Int, Ahead(r, c, n)
    PROVE  Ahead(r, c, n)'
<1> SUFFICES ASSUME NEW q \in Seqs, first'[stream[r].job] <= q, q < c
             PROVE  \/ q \in Handled(stream[r].job)'
                    \/ \E k \in 1..n : wire[r][k] = q
  BY DEF Ahead, Handled, Seqs
<1>1. first[stream[r].job] <= q
  <2>1. /\ first[stream[r].job] \in Nat /\ first'[stream[r].job] \in Nat
        /\ first[stream[r].job] <= first'[stream[r].job] /\ q \in Nat
    BY JobMoves, EventAssumption DEF Seqs
  <2> QED
    BY <2>1
<1> QED
  BY <1>1, StillHandled DEF Ahead

\* A stream that is left alone stays sound.
LEMMA StillStreamed ==
    ASSUME EventsTypeOK, EventsTypeOK', Forward,
           NEW r \in Streams, stream'[r] = stream[r], wire'[r] = wire[r], StreamSound(r)
    PROVE  StreamSound(r)'
<1>1. CASE stream[r].job = 0
  BY <1>1 DEF StreamSound
<1>2. CASE stream[r].job # 0
  <2> DEFINE j == stream[r].job
  <2>1. /\ j \in ChatJobs /\ stream[r].cursor \in Int /\ wire[r] \in Seq(Seqs)
        /\ next[j] \in Int /\ next'[j] \in Int
    BY <1>2, StreamNumbers, JobMoves
  <2>2. next[j] <= next'[j] /\ (jobStatus[j] = "ended" => jobStatus'[j] = "ended" /\ next'[j] = next[j])
    BY <2>1, JobMoves
  <2>3. ASSUME NEW i \in 1..Len(wire[r])
        PROVE  wire[r][i] < next'[j] /\ Ahead(r, wire[r][i], i - 1)'
    <3>1. wire[r][i] < next[j] /\ Ahead(r, wire[r][i], i - 1)
      BY <1>2 DEF StreamSound
    <3>2. wire[r][i] \in Int /\ i - 1 \in Int
      BY StreamNumbers
    <3>3. PICK c \in Int, n \in Int : c = wire[r][i] /\ n = i - 1
      BY <3>2
    <3>4. Ahead(r, c, n)'
      BY <2>1, <3>1, <3>3, StillAhead
    <3> QED
      BY <2>1, <2>2, <3>1, <3>2, <3>3, <3>4 DEF Ahead
  <2>4. Ahead(r, stream[r].cursor, Len(wire[r]))'
    <3>1. PICK c \in Int, n \in Int : c = stream[r].cursor /\ n = Len(wire[r])
      BY <2>1
    <3>2. Ahead(r, c, n)
      BY <1>2, <3>1 DEF StreamSound
    <3>3. Ahead(r, c, n)'
      BY <2>1, <3>2, StillAhead
    <3> QED
      BY <3>1, <3>3 DEF Ahead
  <2>5. stream[r].cursor <= next'[j]
    BY <1>2, <2>1, <2>2 DEF StreamSound
  <2>6. stream[r].ended => jobStatus'[j] = "ended" /\ stream[r].cursor = next'[j]
    BY <1>2, <2>2 DEF StreamSound
  <2> QED
    BY <1>2, <2>3, <2>4, <2>5, <2>6 DEF StreamSound
<1> QED
  BY <1>1, <1>2

\* A place to resume from remains one.
LEMMA StillResumable ==
    ASSUME EventsTypeOK, EventsTypeOK', Forward,
           NEW c \in Seqs, NEW of, Resumable(c, of)
    PROVE  Resumable(c, of)'
<1> SUFFICES ASSUME c > 0, of \notin misled' PROVE of \in ChatJobs /\ Reached(of, c)'
  BY DEF Resumable, ChatJobs
<1>1. of \in ChatJobs /\ Reached(of, c)
  BY DEF Resumable, Forward
<1>2. c \in Nat
  BY EventAssumption DEF Seqs
<1> QED
  BY <1>1, <1>2, StillReached

\* An answer remains true.
LEMMA StillAnswered ==
    ASSUME EventsTypeOK, EventsTypeOK', Forward, AnswerSound(poll.answer),
           poll'.answer = poll.answer
    PROVE  AnswerSound(poll.answer)'
<1>1. CASE poll.answer.job = 0
  BY <1>1 DEF AnswerSound
<1>2. CASE poll.answer.job # 0
  <2> DEFINE a == poll.answer
  <2>1. a.job \in ChatJobs /\ a.from \in Int /\ a.to \in Int
    BY <1>2, PollNumbers
  <2>2. /\ first[a.job] \in Int /\ first'[a.job] \in Int /\ first[a.job] <= first'[a.job]
        /\ next[a.job] \in Int /\ next'[a.job] \in Int /\ next[a.job] <= next'[a.job]
        /\ jobStatus[a.job] = "ended" => jobStatus'[a.job] = "ended" /\ next'[a.job] = next[a.job]
    BY <2>1, JobMoves
  <2> QED
    BY <1>2, <2>1, <2>2 DEF AnswerSound
<1> QED
  BY <1>1, <1>2

\* A job's order and end remain as they are while nothing of it is handled.
LEMMA StillOrdered ==
    ASSUME EventsTypeOK, EventsTypeOK', Forward, NEW j \in ChatJobs,
           Ordered(j), order'[j] = order[j], Handled(j)' = Handled(j)
    PROVE  Ordered(j)'
<1>1. ASSUME NEW p \in order[j]
      PROVE  p[1] < p[2] \/ (p[1] # p[2] /\ Dropped(j, p[2])')
  <2>1. p \in Seqs \X Seqs
    BY DEF EventsTypeOK
  <2>2. /\ p[2] \in Int /\ first[j] \in Int /\ first'[j] \in Int /\ first[j] <= first'[j]
    BY <2>1, EventAssumption DEF EventsTypeOK, Seqs, Forward
  <2> QED
    BY <2>2 DEF Ordered, Dropped
<1>2. ASSUME NEW s \in Handled(j) PROVE Reached(j, s)'
  <2>1. s \in Nat /\ Reached(j, s)
    BY EventAssumption DEF Handled, Seqs, Ordered
  <2> QED
    BY <2>1, StillReached
<1> QED
  BY <1>1, <1>2 DEF Ordered

\* A job that is over remains over.
LEMMA StillFinished ==
    ASSUME Forward, NEW j \in ChatJobs, Finished(j), j \in over' => j \in over
    PROVE  Finished(j)'
BY StillHandled DEF Finished, Forward

-----------------------------------------------------------------------------
\* A pushed event has a number that was kept free, and the last one stays.
LEMMA Pushed ==
    ASSUME EventsTypeOK, ServerKeeps, NEW j \in ChatJobs,
           jobStatus[j] = "running", PushEvent(j)
    PROVE  /\ next' \in [ChatJobs -> Seqs] /\ first' \in [ChatJobs -> Seqs]
           /\ next'[j] = next[j] + 1 /\ first[j] <= first'[j] /\ first'[j] < next'[j]
           /\ \A i \in ChatJobs \ {j} : next'[i] = next[i] /\ first'[i] = first[i]
<1>1. /\ next \in [ChatJobs -> Seqs] /\ first \in [ChatJobs -> Seqs]
  BY DEF EventsTypeOK
<1>2. /\ first[j] \in Nat /\ next[j] \in Nat /\ MaxEvents \in Nat /\ Cap \in Nat \ {0}
      /\ first[j] <= next[j] /\ next[j] < MaxEvents
  BY JobNumbers, EventAssumption DEF ServerKeeps
<1>3. next' = [next EXCEPT ![j] = next[j] + 1]
  BY DEF PushEvent
<1> DEFINE f == IF next[j] + 1 - first[j] > Cap THEN next[j] + 1 - Cap ELSE first[j]
<1>4. first' = [first EXCEPT ![j] = f]
  BY DEF PushEvent
<1>5. f \in Nat /\ first[j] <= f /\ f < next[j] + 1 /\ f <= MaxEvents /\ next[j] + 1 <= MaxEvents
  BY <1>2
<1> HIDE DEF f
<1>6. f \in Seqs /\ next[j] + 1 \in Seqs
  BY <1>2, <1>5 DEF Seqs
<1> QED
  BY <1>1, <1>3, <1>4, <1>5, <1>6

\* The steps of the server's jobs.
LEMMA ServerSteps ==
    ASSUME EventsTypeOK, ServerKeeps,
           (\E j \in ChatJobs : Progress(j) \/ EndJob(j)) \/ Start
    PROVE  /\ next' \in [ChatJobs -> Seqs] /\ first' \in [ChatJobs -> Seqs]
           /\ jobStatus' \in [ChatJobs -> {"unused", "running", "ended"}]
           /\ job' \in 0..MaxJobs
           /\ ServerKeeps'
           /\ \A j \in ChatJobs :
                 /\ first[j] <= first'[j] /\ next[j] <= next'[j]
                 /\ jobStatus[j] = "ended" => jobStatus'[j] = "ended" /\ next'[j] = next[j]
<1>1. \A i \in ChatJobs : /\ first[i] \in Nat /\ next[i] \in Nat /\ next[i] <= MaxEvents
                            /\ MaxEvents \in Nat
  BY JobNumbers, EventAssumption
<1>2. CASE \E j \in ChatJobs : Progress(j) \/ EndJob(j)
  <2>1. PICK j \in ChatJobs : Progress(j) \/ EndJob(j)
    BY <1>2
  <2>2. jobStatus[j] = "running" /\ PushEvent(j) /\ job' = job
    BY <2>1 DEF Progress, EndJob
  <2>3. /\ next' \in [ChatJobs -> Seqs] /\ first' \in [ChatJobs -> Seqs]
        /\ next'[j] = next[j] + 1 /\ first[j] <= first'[j] /\ first'[j] < next'[j]
        /\ \A i \in ChatJobs \ {j} : next'[i] = next[i] /\ first'[i] = first[i]
    BY <2>2, Pushed
  <2>4. \/ jobStatus' = jobStatus /\ next[j] + 1 < MaxEvents
        \/ jobStatus' = [jobStatus EXCEPT ![j] = "ended"]
    BY <2>1 DEF Progress, EndJob
  <2>5. jobStatus \in [ChatJobs -> {"unused", "running", "ended"}] /\ job \in 0..MaxJobs
    BY DEF EventsTypeOK
  <2>6. /\ jobStatus' \in [ChatJobs -> {"unused", "running", "ended"}]
        /\ \A i \in ChatJobs \ {j} : jobStatus'[i] = jobStatus[i]
        /\ jobStatus'[j] # "ended" => next[j] + 1 < MaxEvents
    BY <2>2, <2>4, <2>5
  <2>7. ASSUME NEW i \in ChatJobs
        PROVE  /\ first'[i] <= next'[i] /\ (next'[i] > 0 => first'[i] < next'[i])
               /\ (jobStatus'[i] = "ended" => next'[i] > 0)
               /\ (jobStatus'[i] # "ended" => next'[i] < MaxEvents)
               /\ first[i] <= first'[i] /\ next[i] <= next'[i]
               /\ (jobStatus[i] = "ended" => jobStatus'[i] = "ended" /\ next'[i] = next[i])
    <3>1. CASE i = j
      <4>1. first'[j] \in Seqs /\ first'[j] \in Nat
        BY <2>3, EventAssumption DEF Seqs
      <4> QED
        BY <1>1, <2>2, <2>3, <2>6, <3>1, <4>1
    <3>2. CASE i # j
      BY <1>1, <2>3, <2>6, <3>2 DEF ServerKeeps
    <3> QED
      BY <3>1, <3>2
  <2> QED
    BY <2>2, <2>3, <2>5, <2>6, <2>7 DEF ServerKeeps
<1>3. CASE Start
  <2>1. PICK j \in ChatJobs : /\ jobStatus[j] = "unused" /\ job' = j
                              /\ jobStatus' = [jobStatus EXCEPT ![j] = "running"]
    BY <1>3 DEF Start
  <2>2. next' = next /\ first' = first
    BY <1>3 DEF Start
  <2>3. /\ next \in [ChatJobs -> Seqs] /\ first \in [ChatJobs -> Seqs]
        /\ jobStatus \in [ChatJobs -> {"unused", "running", "ended"}]
    BY DEF EventsTypeOK
  <2>4. /\ jobStatus' \in [ChatJobs -> {"unused", "running", "ended"}]
        /\ \A i \in ChatJobs : /\ jobStatus'[i] = "ended" => jobStatus[i] = "ended"
                               /\ jobStatus[i] = "ended" => jobStatus'[i] = "ended"
    BY <2>1, <2>3
  <2>5. job' \in 0..MaxJobs
    BY <2>1, EventAssumption DEF ChatJobs
  <2> QED
    BY <1>1, <2>2, <2>3, <2>4, <2>5 DEF ServerKeeps
<1> QED
  BY <1>2, <1>3

\* What a stream is written: the events from its cursor on that are kept.
LEMMA SinceCursor ==
    ASSUME EventsTypeOK, ServerKeeps, NEW j \in ChatJobs,
           NEW c \in Nat, c <= next[j]
    PROVE  \E from \in Nat :
              /\ from <= next[j] /\ first[j] <= from /\ c <= from /\ (from = c \/ from = first[j])
              /\ Since(j, c) \in Seq(Seqs)
              /\ Len(Since(j, c)) = next[j] - from
              /\ \A k \in 1..(next[j] - from) : Since(j, c)[k] = from + k - 1
<1>1. /\ first[j] \in Nat /\ next[j] \in Nat /\ first[j] <= next[j] /\ next[j] <= MaxEvents
      /\ MaxEvents \in Nat
  BY JobNumbers, EventAssumption DEF ServerKeeps
<1> DEFINE from == IF c > first[j] THEN c ELSE first[j]
           events == [k \in 1..(next[j] - from) |-> from + k - 1]
<1>2. from \in Nat /\ from <= next[j] /\ first[j] <= from /\ c <= from /\ (from = c \/ from = first[j])
  BY <1>1
<1>3. Since(j, c) = events
  BY DEF Since
<1> HIDE DEF from
<1>4. next[j] - from \in Nat
  BY <1>1, <1>2
<1>5. \A k \in 1..(next[j] - from) : from + k - 1 \in Seqs
  BY <1>1, <1>2 DEF Seqs
<1>6. events \in Seq(Seqs) /\ Len(events) = next[j] - from
  BY <1>4, <1>5
<1>7. \A k \in 1..(next[j] - from) : events[k] = from + k - 1
  OBVIOUS
<1> HIDE DEF events
<1> QED
  BY <1>2, <1>3, <1>6, <1>7

\* The page handles numbers of the job.
LEMMA ProcessTypes ==
    ASSUME EventsTypeOK, NEW j \in ChatJobs, NEW events \in SUBSET Seqs,
           Process(j, events)
    PROVE  /\ processed' \subseteq ChatJobs \X Seqs
           /\ order' \in [ChatJobs -> SUBSET (Seqs \X Seqs)]
<1>1. processed' = processed \cup {<<j, s>> : s \in events}
  BY DEF Process
<1> DEFINE more == {p \in Seqs \X events :
                      p[1] \in Handled(j) \/ (p[1] \in events /\ p[1] < p[2])}
<1>2. order' = [order EXCEPT ![j] = order[j] \cup more]
  BY DEF Process
<1>3. more \subseteq Seqs \X Seqs
  OBVIOUS
<1> HIDE DEF more
<1> QED
  BY <1>1, <1>2, <1>3 DEF EventsTypeOK

\* A step of the server leaves the page alone, a step of the page the server.
LEMMA StepMoves ==
    ASSUME EventsTypeOK, ServerKeeps, [EventsNext]_eventVars
    PROVE  /\ next' \in [ChatJobs -> Seqs] /\ first' \in [ChatJobs -> Seqs]
           /\ jobStatus' \in [ChatJobs -> {"unused", "running", "ended"}]
           /\ job' \in 0..MaxJobs
           /\ ServerKeeps'
           /\ \A j \in ChatJobs :
                 /\ first[j] <= first'[j] /\ next[j] <= next'[j]
                 /\ jobStatus[j] = "ended" => jobStatus'[j] = "ended" /\ next'[j] = next[j]
<1>1. CASE (\E j \in ChatJobs : Progress(j) \/ EndJob(j)) \/ Start
  BY <1>1, ServerSteps
<1>2. CASE UNCHANGED <<jobStatus, next, first>> /\ job' \in {job, 0}
  <2>1. \A j \in ChatJobs : first[j] \in Nat /\ next[j] \in Nat
    BY JobNumbers
  <2>2. job \in 0..MaxJobs /\ 0 \in 0..MaxJobs
    BY EventAssumption DEF EventsTypeOK
  <2> QED
    BY <1>2, <2>1, <2>2 DEF EventsTypeOK, ServerKeeps
<1> USE DEF serverVars
<1>3. CASE OtherStarts
  BY <1>1, <1>3 DEF OtherStarts
<1>4. CASE RemoveJob
  BY <1>2, <1>4 DEF RemoveJob
<1>5. CASE Send \/ PostFails
  BY <1>2, <1>5 DEF Send, PostFails
<1>6. CASE PostArrives
  BY <1>1, <1>2, <1>6 DEF PostArrives
<1>7. CASE \E r \in Streams : \/ SseTick(r) \/ ReadEvent(r)
                              \/ StreamEnds(r) \/ StreamBreaks(r)
  BY <1>2, <1>7 DEF SseTick, ReadEvent, StreamEnds, StreamBreaks
<1>8. CASE PollServed \/ PollTaken \/ PollFails
  BY <1>2, <1>8 DEF PollServed, PollTaken, PollFails
<1>9. CASE BootServed \/ BootEnds \/ Reboot \/ Reload
  BY <1>2, <1>9 DEF BootServed, BootEnds, Reboot, Reload
<1>10. CASE UNCHANGED eventVars
  BY <1>2, <1>10 DEF eventVars
<1> QED
  BY <1>1, <1>3, <1>4, <1>5, <1>6, <1>7, <1>8, <1>9, <1>10 DEF EventsNext, Answers

\* The numbers of the first event on a wire.
LEMMA WireHead ==
    ASSUME EventsTypeOK, NEW r \in Streams, StreamSound(r), wire[r] # <<>>
    PROVE  /\ stream[r].job \in ChatJobs
           /\ Head(wire[r]) \in Seqs /\ Head(wire[r]) + 1 \in Seqs
           /\ Head(wire[r]) = wire[r][1] /\ 1 \in 1..Len(wire[r])
           /\ Tail(wire[r]) \in Seq(Seqs)
           /\ Len(Tail(wire[r])) = Len(wire[r]) - 1
           /\ \A i \in 1..(Len(wire[r]) - 1) : Tail(wire[r])[i] = wire[r][i + 1]
<1>1. stream[r].job \in ChatJobs
  BY StreamNumbers DEF StreamSound
<1>2. PICK w \in Seq(Seqs) : w = wire[r]
  BY StreamNumbers
<1>3. /\ w # <<>> /\ Len(w) \in Nat /\ Len(w) > 0 /\ Head(w) = w[1] /\ w[1] \in Seqs
      /\ Tail(w) \in Seq(Seqs) /\ Len(Tail(w)) = Len(w) - 1
  BY <1>2
<1>4. \A i \in 1..(Len(w) - 1) : Tail(w)[i] = w[i + 1]
  BY <1>3
<1>5. w[1] < next[stream[r].job] /\ 1 \in 1..Len(w)
  BY <1>1, <1>2, <1>3, EventAssumption DEF StreamSound, ChatJobs
<1>6. w[1] + 1 \in Seqs
  <2>1. /\ next[stream[r].job] \in Nat /\ next[stream[r].job] <= MaxEvents /\ MaxEvents \in Nat
        /\ w[1] \in Nat
    BY <1>1, <1>3, JobNumbers, EventAssumption DEF Seqs
  <2> QED
    BY <1>5, <2>1 DEF Seqs
<1> QED
  BY <1>1, <1>2, <1>3, <1>4, <1>5, <1>6

PollType == [on : BOOLEAN, cursor : Seqs, of : 0..MaxJobs,
             answer : [job : 0..MaxJobs, from : Seqs, to : Seqs, ended : BOOLEAN,
                       came : BOOLEAN]]
StreamType == [job : 0..MaxJobs, cursor : Seqs, ended : BOOLEAN]

\* What a page starts with has the types of polls and streams.
LEMMA NothingTyped ==
    NoPoll \in PollType /\ NoStream \in StreamType /\ 0 \in Seqs
<1>1. 0 \in 0..MaxEvents /\ 0 \in 0..MaxJobs
  BY EventAssumption
<1> QED
  BY <1>1 DEF PollType, StreamType, NoPoll, NoAnswer, NoStream, Seqs

\* Streams and polls keep their types.
LEMMA ReadersTyped ==
    ASSUME EventsInv, [EventsNext]_eventVars
    PROVE  /\ stream' \in [Streams -> StreamType] /\ wire' \in [Streams -> Seq(Seqs)]
           /\ poll' \in PollType
<1>1. /\ stream \in [Streams -> StreamType] /\ wire \in [Streams -> Seq(Seqs)]
      /\ poll \in PollType
      /\ job \in 0..MaxJobs /\ stored \in [cursor : Seqs, of : 0..MaxJobs]
  BY DEF EventsInv, EventsTypeOK, PollType, StreamType
<1>2. CASE eventVars' = eventVars
  BY <1>1, <1>2 DEF eventVars
<1>3. ASSUME NEW r \in Streams, SseTick(r)
      PROVE  stream' \in [Streams -> StreamType] /\ wire' \in [Streams -> Seq(Seqs)] /\ poll' = poll
  <2> DEFINE j == stream[r].job
             events == Since(j, stream[r].cursor)
  <2>1. j \in ChatJobs
    BY <1>3, StreamNumbers DEF SseTick, EventsInv
  <2>2. stream[r].cursor <= next[j]
    BY <1>3 DEF SseTick, EventsInv, PageSound, StreamSound
  <2>3. events \in Seq(Seqs)
    BY <2>1, <2>2, SinceCursor, StreamNumbers DEF EventsInv
  <2>4. wire' = [wire EXCEPT ![r] = wire[r] \o events] /\ poll' = poll
    BY <1>3 DEF SseTick
  <2>5. PICK c \in Seqs, e \in BOOLEAN :
           stream' = [stream EXCEPT ![r].cursor = c, ![r].ended = e]
    <3>1. next[j] \in Seqs /\ stream[r].cursor \in Seqs
      BY <1>1, <2>1 DEF EventsInv, EventsTypeOK, StreamType
    <3>2. stream' = [stream EXCEPT ![r].cursor = IF events = <<>> THEN stream[r].cursor ELSE next[j],
                                   ![r].ended = jobStatus[j] = "ended"]
      BY <1>3 DEF SseTick
    <3> QED
      BY <3>1, <3>2
  <2> HIDE DEF events
  <2>6. wire[r] \o events \in Seq(Seqs)
    BY <1>1, <2>3
  <2> QED
    BY <1>1, <2>4, <2>5, <2>6 DEF StreamType
<1>4. ASSUME NEW r \in Streams, ReadEvent(r)
      PROVE  stream' = stream /\ wire' \in [Streams -> Seq(Seqs)] /\ poll' = poll
  <2>1. Tail(wire[r]) \in Seq(Seqs)
    BY <1>4, WireHead DEF ReadEvent, EventsInv, PageSound
  <2> QED
    BY <1>1, <1>4, <2>1 DEF ReadEvent
<1>5. ASSUME NEW r \in Streams, StreamEnds(r) \/ StreamBreaks(r)
      PROVE  stream' \in [Streams -> StreamType] /\ wire' \in [Streams -> Seq(Seqs)] /\ poll' = poll
  <2>1. <<>> \in Seq(Seqs)
    OBVIOUS
  <2>2. /\ stream' = [stream EXCEPT ![r] = NoStream] /\ poll' = poll
        /\ wire' = wire \/ wire' = [wire EXCEPT ![r] = <<>>]
    BY <1>5 DEF StreamEnds, StreamBreaks
  <2>3. stream' \in [Streams -> StreamType]
    BY <1>1, <2>2, NothingTyped
  <2> QED
    BY <1>1, <2>1, <2>2, <2>3
<1>6. CASE PostArrives
  <2>1. ASSUME NEW r \in Streams,
               stream' = [stream EXCEPT ![r] = [job |-> job', cursor |-> 0, ended |-> FALSE]]
        PROVE  stream' \in [Streams -> StreamType]
    <3>1. job' \in 0..MaxJobs
      BY StepMoves DEF EventsInv
    <3> QED
      BY <1>1, <2>1, <3>1, NothingTyped DEF StreamType
  <2> QED
    BY <1>1, <1>6, <2>1 DEF PostArrives, Idle
<1>7. CASE PollServed
  <2>1. CASE job = 0
    BY <1>1, <1>7, <2>1, NothingTyped DEF PollServed, PollType, NoPoll, NoAnswer
  <2>2. CASE job # 0
    <3>1. job \in ChatJobs
      BY <1>1, <2>2, EventAssumption DEF ChatJobs
    <3>2. first[job] \in Seqs /\ next[job] \in Seqs
      BY <3>1 DEF EventsInv, EventsTypeOK
    <3> QED
      BY <1>1, <1>7, <2>2, <3>2 DEF PollServed, PollType
  <2> QED
    BY <1>7, <2>1, <2>2 DEF PollServed
<1>8. CASE PollTaken
  <2>1. ASSUME NEW c \in Seqs, NEW of \in 0..MaxJobs, PollGoesOn(c, of)
        PROVE  poll' \in PollType
    BY <1>1, <2>1, NothingTyped DEF PollGoesOn, PollType, NoPoll
  <2>2. /\ poll.cursor \in Seqs /\ poll.of \in 0..MaxJobs
        /\ poll.answer.to \in Seqs /\ poll.answer.job \in 0..MaxJobs
    BY <1>1 DEF PollType
  <2>3. \/ PollGoesOn(poll.cursor, poll.of)
        \/ PollGoesOn(poll.answer.to, poll.answer.job)
    BY <1>8 DEF PollTaken
  <2>4. stream' = stream /\ wire' = wire
    BY <1>8 DEF PollTaken
  <2> QED
    BY <1>1, <2>1, <2>2, <2>3, <2>4
<1>9. CASE PollFails
  BY <1>1, <1>9, NothingTyped DEF PollFails
<1>10. CASE BootEnds
  <2>1. NoAnswer \in [job : 0..MaxJobs, from : Seqs, to : Seqs, ended : BOOLEAN,
                             came : BOOLEAN]
    BY NothingTyped DEF PollType, NoPoll
  <2>2. stored.cursor \in Seqs /\ stored.of \in 0..MaxJobs
    BY <1>1
  <2>3. \/ poll' = poll
        \/ poll' = [on |-> TRUE, cursor |-> stored.cursor, of |-> stored.of,
                    answer |-> NoAnswer]
    BY <1>10 DEF BootEnds
  <2>4. stream' = stream /\ wire' = wire
    BY <1>10 DEF BootEnds
  <2>5. PICK answer \in [job : 0..MaxJobs, from : Seqs, to : Seqs,
                         ended : BOOLEAN, came : BOOLEAN] : answer = NoAnswer
    BY <2>1
  <2>6. [on |-> TRUE, cursor |-> stored.cursor, of |-> stored.of, answer |-> answer] \in PollType
    BY <2>2 DEF PollType
  <2> QED
    BY <1>1, <2>3, <2>4, <2>5, <2>6
<1>11. CASE Reload
  <2>1. <<>> \in Seq(Seqs)
    OBVIOUS
  <2> QED
    BY <1>1, <1>11, <2>1, NothingTyped DEF Reload
<1>12. CASE \/ \E j \in ChatJobs : Progress(j) \/ EndJob(j)
            \/ OtherStarts \/ RemoveJob \/ Send \/ PostFails
            \/ BootServed \/ Reboot
  BY <1>1, <1>12 DEF Progress, EndJob, OtherStarts, RemoveJob,
                     Send, PostFails, BootServed, Reboot
<1> QED
  BY <1>1, <1>2, <1>3, <1>4, <1>5, <1>6, <1>7, <1>8, <1>9, <1>10, <1>11, <1>12
     DEF EventsNext, Answers

\* What the page remembers keeps its type.
LEMMA PageTyped ==
    ASSUME EventsInv, [EventsNext]_eventVars
    PROVE  /\ post' \in {"none", "sent", "orphan"} /\ boot' \in {"ready", "asked", "answered"}
           /\ resumes' \in 0..MaxJobs /\ busy' \in BOOLEAN /\ boots' \in 0..MaxBoots
           /\ processed \subseteq processed' /\ processed' \subseteq ChatJobs \X Seqs
           /\ stored' \in [cursor : Seqs, of : 0..MaxJobs]
           /\ order' \in [ChatJobs -> SUBSET (Seqs \X Seqs)]
           /\ over \subseteq over' /\ over' \subseteq ChatJobs
           /\ misled \subseteq misled' /\ misled' \subseteq ChatJobs
<1> DEFINE Small == /\ post' \in {"none", "sent", "orphan"} /\ boot' \in {"ready", "asked", "answered"}
                    /\ resumes' \in 0..MaxJobs /\ busy' \in BOOLEAN /\ boots' \in 0..MaxBoots
           Large == /\ processed \subseteq processed' /\ processed' \subseteq ChatJobs \X Seqs
                    /\ stored' \in [cursor : Seqs, of : 0..MaxJobs]
                    /\ order' \in [ChatJobs -> SUBSET (Seqs \X Seqs)]
                    /\ misled \subseteq misled' /\ misled' \subseteq ChatJobs
                    /\ over \subseteq over' /\ over' \subseteq ChatJobs
<1>1. /\ post \in {"none", "sent", "orphan"} /\ boot \in {"ready", "asked", "answered"}
      /\ resumes \in 0..MaxJobs /\ busy \in BOOLEAN /\ boots \in 0..MaxBoots
      /\ processed \subseteq ChatJobs \X Seqs
      /\ stored \in [cursor : Seqs, of : 0..MaxJobs]
      /\ order \in [ChatJobs -> SUBSET (Seqs \X Seqs)]
      /\ over \subseteq ChatJobs /\ misled \subseteq ChatJobs
      /\ job \in 0..MaxJobs /\ 0 \in 0..MaxJobs /\ MaxBoots \in Nat
  BY EventAssumption DEF EventsInv, EventsTypeOK
<1> DEFINE Same == UNCHANGED <<processed, stored, order, over, misled>>
<1>2. Same => Large
  BY <1>1
<1>3. ASSUME NEW r \in Streams, ReadEvent(r) PROVE Small /\ Large
  <2>1. /\ stream[r].job \in ChatJobs /\ Head(wire[r]) \in Seqs
        /\ Head(wire[r]) + 1 \in Seqs
    BY <1>3, WireHead DEF ReadEvent, EventsInv, PageSound
  <2>2. stream[r].job \in 0..MaxJobs
    BY <2>1, EventAssumption DEF ChatJobs
  <2>3. CASE Fresh(stream[r].job, Head(wire[r]))
    <3>1. /\ Process(stream[r].job, {Head(wire[r])})
          /\ stored' = [cursor |-> Head(wire[r]) + 1, of |-> stream[r].job]
          /\ over' = over /\ misled' = misled
      BY <1>3, <2>3 DEF ReadEvent
    <3>2. /\ processed' \subseteq ChatJobs \X Seqs
          /\ order' \in [ChatJobs -> SUBSET (Seqs \X Seqs)]
      BY <2>1, <3>1, ProcessTypes DEF EventsInv
    <3>3. processed \subseteq processed'
      BY <3>1 DEF Process
    <3>4. stored' \in [cursor : Seqs, of : 0..MaxJobs]
      BY <2>1, <2>2, <3>1
    <3> QED
      BY <1>1, <1>3, <3>1, <3>2, <3>3, <3>4 DEF ReadEvent
  <2>4. CASE ~Fresh(stream[r].job, Head(wire[r]))
    BY <1>1, <1>3, <2>4 DEF ReadEvent
  <2> QED
    BY <2>3, <2>4
<1>4. CASE PollTaken
  <2> DEFINE events == {s \in poll.answer.from..(poll.answer.to - 1) : s >= poll.cursor}
             fresh == {s \in events : Fresh(poll.answer.job, s)}
  <2>1. /\ misled' = misled \cup (IF poll.cursor > 0 /\ poll.of # poll.answer.job
                                  THEN {poll.answer.job} \ {0} ELSE {})
        /\ over' = over \cup (IF poll.answer.ended THEN {poll.answer.job} ELSE {})
        /\ UNCHANGED <<post, boot, resumes, boots>>
    BY <1>4 DEF PollTaken
  <2>2. /\ poll.answer.job = 0 \/ poll.answer.job \in ChatJobs
        /\ poll.answer.to \in Seqs /\ poll.answer.to \in Nat /\ poll.answer.from \in Nat
    BY PollNumbers DEF EventsInv
  <2>3. poll.answer.ended => poll.answer.job # 0
    BY DEF EventsInv, PageSound, AnswerSound
  <2>4. /\ misled \subseteq misled' /\ misled' \subseteq ChatJobs
        /\ over \subseteq over' /\ over' \subseteq ChatJobs
    BY <1>1, <2>1, <2>2, <2>3
  <2>5. busy' \in BOOLEAN
    <3>1. busy' = FALSE \/ busy' = busy
      BY <1>4 DEF PollTaken, PollGoesOn
    <3> QED
      BY <1>1, <3>1
  <2>6. CASE events = {}
    <3>1. UNCHANGED <<processed, stored, order>>
      BY <1>4, <2>6 DEF PollTaken
    <3> QED
      BY <1>1, <2>1, <2>4, <2>5, <3>1
  <2>7. CASE events # {}
    <3>1. /\ Process(poll.answer.job, fresh)
          /\ stored' = [cursor |-> poll.answer.to, of |-> poll.answer.job]
      BY <1>4, <2>7 DEF PollTaken
    <3>2. poll.answer.job \in ChatJobs
      <4>1. poll.answer.job = 0 => poll.answer.to = 0
        BY DEF EventsInv, PageSound, AnswerSound
      <4>2. poll.answer.to = 0 => events = {}
        BY <2>2
      <4> QED
        BY <2>2, <2>7, <4>1, <4>2
    <3>3. fresh \in SUBSET Seqs
      BY <2>2, EventAssumption DEF Seqs
    <3>4. /\ processed' \subseteq ChatJobs \X Seqs
          /\ order' \in [ChatJobs -> SUBSET (Seqs \X Seqs)]
      BY <3>1, <3>2, <3>3, ProcessTypes DEF EventsInv
    <3>5. processed \subseteq processed'
      BY <3>1 DEF Process
    <3>6. stored' \in [cursor : Seqs, of : 0..MaxJobs]
      BY <2>2, <3>1, <3>2, EventAssumption DEF ChatJobs
    <3> QED
      BY <1>1, <2>1, <2>4, <2>5, <3>4, <3>5, <3>6
  <2> QED
    BY <2>6, <2>7
<1>5. CASE BootServed
  <2>1. resumes' = job \/ resumes' = 0
    BY <1>5 DEF BootServed
  <2> QED
    BY <1>1, <1>5, <2>1 DEF BootServed, eventHistory
<1>6. CASE BootEnds \/ Reboot \/ Reload
  <2>1. boots' = boots \/ (boots < MaxBoots /\ boots' = boots + 1)
    BY <1>6 DEF BootEnds, Reboot, Reload
  <2>2. boots' \in 0..MaxBoots
    BY <1>1, <2>1
  <2>3. busy' = busy \/ busy' = TRUE \/ busy' = FALSE
    BY <1>6 DEF BootEnds, Reboot, Reload
  <2>4. resumes' = resumes \/ resumes' = 0
    BY <1>6 DEF BootEnds, Reboot, Reload
  <2>5. /\ post' \in {"none", "sent", "orphan"} /\ boot' \in {"ready", "asked", "answered"}
        /\ Same
    BY <1>1, <1>6 DEF BootEnds, Reboot, Reload, eventHistory
  <2> QED
    BY <1>1, <1>2, <2>2, <2>3, <2>4, <2>5
<1>7. CASE \E r \in Streams : StreamEnds(r)
  <2>1. PICK r \in Streams : StreamEnds(r)
    BY <1>7
  <2>2. stream[r].job \in ChatJobs
    BY <2>1, StreamNumbers DEF StreamEnds, EventsInv, PageSound, StreamSound
  <2> QED
    BY <1>1, <2>1, <2>2 DEF StreamEnds
<1>8. CASE \/ \E j \in ChatJobs : Progress(j) \/ EndJob(j)
           \/ OtherStarts \/ RemoveJob
           \/ \E r \in Streams : SseTick(r) \/ StreamBreaks(r)
           \/ PollServed \/ PollFails
  BY <1>1, <1>8 DEF Progress, EndJob, OtherStarts, RemoveJob,
                    SseTick, StreamBreaks, PollServed, PollFails,
                    eventHistory
<1>9. CASE Send \/ Answers
  <2>1. busy' = busy \/ busy' = TRUE \/ busy' = FALSE
    BY <1>9 DEF Send, Answers, PostArrives, PostFails
  <2> QED
    BY <1>1, <1>9, <2>1 DEF Send, Answers, PostArrives, PostFails,
                            eventHistory
<1>10. CASE UNCHANGED eventVars
  BY <1>1, <1>10 DEF eventVars
<1> QED
  BY <1>3, <1>4, <1>5, <1>6, <1>7, <1>8, <1>9, <1>10 DEF EventsNext

\* Every variable keeps its type, and no step takes back what Forward names.
LEMMA StepTyped ==
    ASSUME EventsInv, [EventsNext]_eventVars
    PROVE  EventsTypeOK' /\ ServerKeeps' /\ Forward
<1>1. /\ next' \in [ChatJobs -> Seqs] /\ first' \in [ChatJobs -> Seqs]
      /\ jobStatus' \in [ChatJobs -> {"unused", "running", "ended"}]
      /\ job' \in 0..MaxJobs /\ ServerKeeps'
      /\ \A j \in ChatJobs :
            /\ first[j] <= first'[j] /\ next[j] <= next'[j]
            /\ jobStatus[j] = "ended" => jobStatus'[j] = "ended" /\ next'[j] = next[j]
  BY StepMoves DEF EventsInv
<1>2. /\ stream' \in [Streams -> StreamType] /\ wire' \in [Streams -> Seq(Seqs)]
      /\ poll' \in PollType
  BY ReadersTyped
<1>3. /\ post' \in {"none", "sent", "orphan"} /\ boot' \in {"ready", "asked", "answered"}
      /\ resumes' \in 0..MaxJobs /\ busy' \in BOOLEAN /\ boots' \in 0..MaxBoots
      /\ processed \subseteq processed' /\ processed' \subseteq ChatJobs \X Seqs
      /\ stored' \in [cursor : Seqs, of : 0..MaxJobs]
      /\ order' \in [ChatJobs -> SUBSET (Seqs \X Seqs)]
      /\ over' \subseteq ChatJobs
      /\ misled \subseteq misled' /\ misled' \subseteq ChatJobs
  BY PageTyped
<1> QED
  BY <1>1, <1>2, <1>3 DEF EventsTypeOK, ChatJobs, Seqs, PollType, StreamType, Forward

-----------------------------------------------------------------------------
\* What the page remembers after it has processed events of a job.
LEMMA Remembered ==
    ASSUME EventsTypeOK, NEW j \in ChatJobs, NEW events \in SUBSET Seqs,
           Process(j, events)
    PROVE  /\ Handled(j)' = Handled(j) \cup events
           /\ \A i \in ChatJobs \ {j} : /\ Handled(i)' = Handled(i)
                                          /\ order'[i] = order[i]
           /\ \A p \in order'[j] :
                 \/ p \in order[j]
                 \/ /\ p[2] \in events /\ p[1] \in Seqs
                    /\ p[1] \in Handled(j) \/ (p[1] \in events /\ p[1] < p[2])
<1>1. processed' = processed \cup {<<j, s>> : s \in events}
  BY DEF Process
<1> DEFINE more == {p \in Seqs \X events :
                      p[1] \in Handled(j) \/ (p[1] \in events /\ p[1] < p[2])}
<1>2. order' = [order EXCEPT ![j] = order[j] \cup more]
  BY DEF Process
<1>3. Seqs' = Seqs
  BY DEF Seqs
<1>4. \A i \in ChatJobs : Handled(i)' = {s \in Seqs : <<i, s>> \in processed'}
  BY <1>3 DEF Handled
<1>5. \A i \in ChatJobs : Handled(i) = {s \in Seqs : <<i, s>> \in processed}
  BY DEF Handled
<1>6. ASSUME NEW i \in ChatJobs \ {j} PROVE Handled(i)' = Handled(i)
  <2>1. \A s : <<i, s>> \in processed' <=> <<i, s>> \in processed
    BY <1>1
  <2> QED
    BY <1>4, <1>5, <2>1
<1>7. Handled(j)' = Handled(j) \cup events
  <2>1. \A s : <<j, s>> \in processed' <=> <<j, s>> \in processed \/ s \in events
    BY <1>1
  <2> QED
    BY <1>4, <1>5, <2>1
<1>8. order \in [ChatJobs -> SUBSET (Seqs \X Seqs)]
  BY DEF EventsTypeOK
<1>9. \A p \in more : /\ p[2] \in events /\ p[1] \in Seqs
                      /\ p[1] \in Handled(j) \/ (p[1] \in events /\ p[1] < p[2])
  OBVIOUS
<1> HIDE DEF more
<1>10. order'[j] = order[j] \cup more /\ \A i \in ChatJobs \ {j} : order'[i] = order[i]
  BY <1>2, <1>8
<1> QED
  BY <1>6, <1>7, <1>9, <1>10

\* New events without a gap keep a job in order: what is handled behind a later
\* event was dropped by the server.
LEMMA InOrderAfter ==
    ASSUME EventsTypeOK, EventsTypeOK', Forward, UNCHANGED first,
           NEW j \in ChatJobs, NEW events \in SUBSET Seqs,
           Process(j, events), Ordered(j),
           \A s \in events : s \notin Handled(j),
           \A s \in events, q \in Seqs :
              first[j] <= q /\ q < s => q \in Handled(j) \cup events
    PROVE  Ordered(j)'
<1>1. Handled(j)' = Handled(j) \cup events
  BY Remembered
<1>2. first[j] \in Nat /\ first' = first /\ \A s \in Seqs : s \in Nat
  BY JobNumbers, EventAssumption DEF Seqs
<1>3. ASSUME NEW p \in order'[j]
      PROVE  p[1] < p[2] \/ (p[1] # p[2] /\ Dropped(j, p[2])')
  <2>1. CASE p \in order[j]
    BY <1>2, <2>1 DEF Ordered, Dropped
  <2>2. CASE p[2] \in events /\ p[1] \in Handled(j)
    <3>1. p[1] # p[2] /\ p[1] \in Nat /\ p[2] \in Seqs /\ p[2] \in Nat
      BY <1>2, <2>2 DEF Handled
    <3>2. Reached(j, p[1])
      BY <2>2 DEF Ordered
    <3>3. p[2] < p[1] => p[2] < first[j]
      BY <1>2, <2>2, <3>1, <3>2 DEF Reached
    <3> QED
      BY <1>2, <3>1, <3>3 DEF Dropped
  <2> QED
    BY <2>1, <2>2, Remembered
<1>4. ASSUME NEW s \in Handled(j)' PROVE Reached(j, s)'
  <2>1. s \in Nat
    BY <1>2 DEF Handled, Seqs
  <2>2. CASE s \in Handled(j)
    BY <2>1, <2>2, StillReached DEF Ordered
  <2>3. CASE s \in events
    <3> SUFFICES ASSUME NEW q \in Seqs, first'[j] <= q, q < s
                 PROVE  q \in Handled(j)'
      BY DEF Reached, Seqs
    <3> QED
      BY <1>1, <1>2, <2>3
  <2> QED
    BY <1>1, <2>2, <2>3
<1> QED
  BY <1>3, <1>4 DEF Ordered

\* While nothing is processed and no job gets over, the order stays.
LEMMA OrderStays ==
    ASSUME EventsInv, EventsTypeOK', Forward, UNCHANGED <<order, processed>>
    PROVE  /\ \A j \in ChatJobs \ misled' : Ordered(j)'
           /\ \A j \in ChatJobs \ misled' : (j \in over' => j \in over) => Finished(j)'
<1>1. \A j \in ChatJobs \ misled' : Ordered(j) /\ Finished(j)
  BY DEF EventsInv, PageSound, Forward
<1>2. ASSUME NEW j \in ChatJobs \ misled' PROVE Ordered(j)'
  <2>1. Handled(j)' = Handled(j) /\ order'[j] = order[j]
    BY DEF Handled, Seqs
  <2> QED
    BY <1>1, <2>1, StillOrdered DEF EventsInv
<1>3. ASSUME NEW j \in ChatJobs \ misled', j \in over' => j \in over PROVE Finished(j)'
  BY <1>1, <1>3, StillFinished
<1> QED
  BY <1>2, <1>3

\* What is left alone stays sound.
LEMMA StreamsStay ==
    ASSUME EventsInv, EventsTypeOK', Forward
    PROVE  \A r \in Streams : stream'[r] = stream[r] /\ wire'[r] = wire[r] => StreamSound(r)'
BY StillStreamed DEF EventsInv, PageSound

\* A place to resume from remains one, whoever keeps it.
LEMMA PlacesStay ==
    ASSUME EventsInv, EventsTypeOK', Forward
    PROVE  /\ Resumable(stored.cursor, stored.of)'
                 \/ stored'.cursor # stored.cursor \/ stored'.of # stored.of
           /\ Resumable(poll.cursor, poll.of)'
                 \/ poll'.cursor # poll.cursor \/ poll'.of # poll.of
           /\ poll'.cursor = stored.cursor /\ poll'.of = stored.of => Resumable(poll.cursor, poll.of)'
           /\ poll'.answer = poll.answer => AnswerSound(poll.answer)'
<1>1. stored.cursor \in Seqs /\ poll.cursor \in Seqs
  BY PollNumbers DEF EventsInv, EventsTypeOK
<1>2. PICK c, of : c \in Seqs /\ c = stored.cursor /\ of = stored.of
  BY <1>1
<1>3. Resumable(c, of)
  BY <1>2 DEF EventsInv, PageSound
<1>4. Resumable(c, of)'
  BY <1>2, <1>3, StillResumable DEF EventsInv
<1>5. PICK d, for : d \in Seqs /\ d = poll.cursor /\ for = poll.of
  BY <1>1
<1>6. Resumable(d, for)
  BY <1>5 DEF EventsInv, PageSound
<1>7. Resumable(d, for)'
  BY <1>5, <1>6, StillResumable DEF EventsInv
<1>8. poll'.answer = poll.answer => AnswerSound(poll.answer)'
  BY StillAnswered DEF EventsInv, PageSound
<1> QED
  BY <1>2, <1>4, <1>5, <1>7, <1>8 DEF Resumable

-----------------------------------------------------------------------------
\* A step that leaves the streams, the processed events and the resume point alone
\* and answers nothing.
LEMMA NothingRead ==
    ASSUME EventsInv, EventsTypeOK', Forward,
           UNCHANGED <<order, processed, over, stored, poll>>,
           \A r \in Streams : StreamSound(r)'
    PROVE  PageSound'
<1>1. \A j \in ChatJobs \ misled' : Ordered(j)' /\ Finished(j)'
  BY OrderStays
<1>2. Resumable(stored.cursor, stored.of)' /\ Resumable(poll.cursor, poll.of)' /\ AnswerSound(poll.answer)'
  BY PlacesStay
<1>3. ChatJobs' = ChatJobs
  BY DEF ChatJobs
<1> QED
  BY <1>1, <1>2, <1>3 DEF PageSound

\* The same for a step that changes the poll.
LEMMA OnlyPolled ==
    ASSUME EventsInv, EventsTypeOK', Forward,
           UNCHANGED <<order, processed, over, stored>>,
           \A r \in Streams : StreamSound(r)',
           Resumable(poll.cursor, poll.of)', AnswerSound(poll.answer)'
    PROVE  PageSound'
<1>1. \A j \in ChatJobs \ misled' : Ordered(j)' /\ Finished(j)'
  BY OrderStays
<1>2. Resumable(stored.cursor, stored.of)'
  BY PlacesStay
<1>3. ChatJobs' = ChatJobs
  BY DEF ChatJobs
<1> QED
  BY <1>1, <1>2, <1>3 DEF PageSound

\* A stream that is closed is sound, and so is one that begins.
LEMMA ClosedOrNew ==
    ASSUME NEW r \in Streams, EventsTypeOK', wire'[r] = <<>>,
           \/ stream'[r] = NoStream
           \/ stream'[r] = [job |-> job', cursor |-> 0, ended |-> FALSE]
    PROVE  StreamSound(r)'
<1>1. stream'[r].cursor = 0 /\ ~stream'[r].ended
  BY DEF NoStream
<1>2. Len(wire'[r]) = 0
  OBVIOUS
<1>3. CASE stream'[r].job = 0
  BY <1>1, <1>3 DEF StreamSound
<1>4. CASE stream'[r].job # 0
  <2>1. stream'[r].job \in ChatJobs
    <3>1. stream'[r] \in [job : 0..MaxJobs, cursor : Seqs, ended : BOOLEAN]
      BY DEF EventsTypeOK, Seqs
    <3>2. stream'[r].job \in 0..MaxJobs
      BY <3>1
    <3> QED
      BY <1>4, <3>2, EventAssumption DEF ChatJobs
  <2>2. next'[stream'[r].job] \in Nat /\ first'[stream'[r].job] \in Nat
    <3>1. next' \in [ChatJobs -> Seqs] /\ first' \in [ChatJobs -> Seqs]
      BY DEF EventsTypeOK, ChatJobs, Seqs
    <3>2. \A s \in Seqs : s \in Nat
      BY EventAssumption DEF Seqs
    <3> QED
      BY <2>1, <3>1, <3>2
  <2>3. Ahead(r, 0, 0)'
    BY <2>2, EventAssumption DEF Ahead, Seqs
  <2>4. \A i \in 1..Len(wire'[r]) : FALSE
    BY <1>2
  <2> QED
    BY <1>1, <1>2, <1>4, <2>2, <2>3, <2>4 DEF StreamSound, Ahead
<1> QED
  BY <1>3, <1>4

\* The stream of a tick has written all there is, without a gap.
LEMMA AheadOfTick ==
    ASSUME EventsInv, NEW r \in Streams, StreamSound(r),
           stream[r].job \in ChatJobs,
           UNCHANGED <<first, processed>>, stream'[r].job = stream[r].job,
           NEW from \in Nat,
           from = stream[r].cursor \/ from = first[stream[r].job],
           NEW e \in Seq(Seqs), \A k \in 1..Len(e) : e[k] = from + k - 1,
           wire'[r] = wire[r] \o e,
           NEW c \in Nat, NEW n \in Nat, n <= Len(wire[r]) + Len(e),
           Len(wire[r]) <= n, Len(wire[r]) + c - from <= n
    PROVE  Ahead(r, c, n)'
<1> DEFINE j == stream[r].job
<1>1. PICK w \in Seq(Seqs) : w = wire[r]
  BY StreamNumbers DEF EventsInv
<1>2. /\ stream[r].cursor \in Nat /\ first[j] \in Nat /\ Len(w) \in Nat /\ Len(e) \in Nat
  BY StreamNumbers, JobNumbers DEF EventsInv
<1>3. /\ \A k \in 1..Len(w) : (w \o e)[k] = w[k]
      /\ \A k \in 1..Len(e) : (w \o e)[Len(w) + k] = e[k]
  OBVIOUS
<1>4. Ahead(r, stream[r].cursor, Len(w))
  BY <1>1, EventAssumption DEF StreamSound, ChatJobs
<1> SUFFICES ASSUME NEW q \in Seqs, first[j] <= q, q < c
             PROVE  q \in Handled(j) \/ \E k \in 1..n : (w \o e)[k] = q
  BY <1>1 DEF Ahead, Handled, Seqs
<1>5. q \in Nat
  BY EventAssumption DEF Seqs
<1>6. CASE q < stream[r].cursor
  <2>1. q \in Handled(j) \/ \E k \in 1..Len(w) : w[k] = q
    BY <1>1, <1>4, <1>6 DEF Ahead
  <2>2. \A k \in 1..Len(w) : k \in 1..n
    BY <1>1, <1>2
  <2> QED
    BY <1>3, <2>1, <2>2
<1>7. CASE ~(q < stream[r].cursor)
  <2>1. q >= from
    BY <1>2, <1>5, <1>7
  <2>2. /\ q - from + 1 \in 1..Len(e) /\ Len(w) + (q - from + 1) \in 1..n
    <3>1. PICK lw \in Nat, le \in Nat : lw = Len(w) /\ le = Len(e)
      BY <1>2
    <3>2. n <= lw + le /\ lw + c - from <= n
      BY <1>1, <3>1
    <3>3. q - from + 1 >= 1 /\ q - from + 1 <= c - from
      BY <1>5, <2>1
    <3>4. /\ q - from + 1 \in 1..le /\ lw + (q - from + 1) \in 1..n
      BY <1>5, <2>1, <3>2, <3>3
    <3> QED
      BY <3>1, <3>4
  <2>3. e[q - from + 1] = q
    <3>1. e[q - from + 1] = from + (q - from + 1) - 1
      BY <2>2
    <3> QED
      BY <1>5, <3>1
  <2> QED
    BY <1>3, <2>2, <2>3
<1> QED
  BY <1>6, <1>7

\* One tick of a stream.
LEMMA TickKeeps ==
    ASSUME EventsInv, EventsTypeOK', Forward, NEW r \in Streams, SseTick(r)
    PROVE  PageSound'
<1> DEFINE j == stream[r].job
           events == Since(j, stream[r].cursor)
<1>1. StreamSound(r) /\ EventsTypeOK /\ ServerKeeps
  BY DEF EventsInv, PageSound
<1>2. /\ j # 0 /\ ~stream[r].ended
      /\ events # <<>> \/ jobStatus[j] = "ended"
      /\ wire' = [wire EXCEPT ![r] = wire[r] \o events]
      /\ stream' = [stream EXCEPT ![r].cursor = IF events = <<>> THEN stream[r].cursor ELSE next[j],
                                  ![r].ended = jobStatus[j] = "ended"]
      /\ UNCHANGED <<jobStatus, next, first, poll, processed, stored, order, over, misled>>
  BY DEF SseTick, serverVars, eventHistory
<1>3. j \in ChatJobs /\ stream[r].cursor \in Nat /\ stream[r].cursor <= next[j]
  BY <1>1, <1>2, StreamNumbers DEF StreamSound
<1>4. PICK from \in Nat :
         /\ from <= next[j] /\ first[j] <= from /\ stream[r].cursor <= from
         /\ from = stream[r].cursor \/ from = first[j]
         /\ events \in Seq(Seqs) /\ Len(events) = next[j] - from
         /\ \A k \in 1..(next[j] - from) : events[k] = from + k - 1
  BY <1>1, <1>3, SinceCursor
<1>5. /\ stream \in [Streams -> StreamType] /\ wire \in [Streams -> Seq(Seqs)]
  BY <1>1 DEF EventsTypeOK, StreamType
<1> DEFINE cursor == IF events = <<>> THEN stream[r].cursor ELSE next[j]
           ended == jobStatus[j] = "ended"
<1>6. PICK e \in Seq(Seqs) : e = events
  BY <1>4
<1>7. PICK w \in Seq(Seqs) : w = wire[r]
  BY <1>5
<1>8. /\ stream'[r].job = j /\ stream'[r].cursor = cursor /\ stream'[r].ended = ended
      /\ wire'[r] = w \o e
      /\ \A q \in Streams \ {r} : stream'[q] = stream[q] /\ wire'[q] = wire[q]
  <2> HIDE DEF events
  <2> QED
    BY <1>2, <1>5, <1>6, <1>7 DEF StreamType
<1> HIDE DEF events
<1>9. /\ first[j] \in Nat /\ next[j] \in Nat /\ Len(w) \in Nat /\ Len(e) \in Nat
      /\ Len(e) = next[j] - from /\ \A k \in 1..Len(e) : e[k] = from + k - 1
      /\ (e = <<>> <=> Len(e) = 0) /\ cursor \in Nat
  BY <1>1, <1>3, <1>4, <1>6, JobNumbers
<1>10. /\ Len(w \o e) = Len(w) + Len(e)
       /\ \A k \in 1..Len(w) : (w \o e)[k] = w[k]
       /\ \A k \in 1..Len(e) : (w \o e)[Len(w) + k] = e[k]
  OBVIOUS
<1>11. ASSUME NEW c \in Nat, NEW n \in Nat, n <= Len(w) + Len(e), Len(w) <= n, Len(w) + c - from <= n
       PROVE  Ahead(r, c, n)'
  BY <1>1, <1>2, <1>3, <1>4, <1>6, <1>7, <1>8, <1>9, <1>11, AheadOfTick
<1>12. /\ cursor <= next[j]
       /\ ended => cursor = next[j]
  <2>1. ASSUME e = <<>>, ended PROVE stream[r].cursor = next[j]
    <3>1. next[j] > 0 /\ first[j] < next[j]
      BY <1>1, <1>3, <2>1 DEF ServerKeeps
    <3> QED
      BY <1>3, <1>4, <1>9, <2>1, <3>1
  <2> QED
    BY <1>3, <1>6, <1>9, <2>1
<1>13. \A c, n : c = cursor /\ n = Len(w) + Len(e) => Ahead(r, c, n)'
  <2> HIDE DEF cursor
  <2>1. PICK c \in Nat, lw \in Nat, le \in Nat : c = cursor /\ lw = Len(w) /\ le = Len(e)
    BY <1>9
  <2>2. c <= next[j] /\ le = next[j] - from /\ next[j] \in Nat
    BY <1>9, <1>12, <2>1
  <2>3. lw + c - from <= lw + le /\ lw <= lw + le /\ lw + le \in Nat
    <3>1. PICK last \in Nat : last = next[j]
      BY <2>2
    <3>2. c <= last /\ le = last - from
      BY <2>2, <3>1
    <3> QED
      BY <3>2
  <2>4. Ahead(r, c, lw + le)'
    BY <1>11, <2>1, <2>3
  <2> QED
    BY <2>1, <2>4
<1>14. ASSUME NEW i \in 1..(Len(w) + Len(e))
       PROVE  (w \o e)[i] < next[j] /\ Ahead(r, (w \o e)[i], i - 1)'
  <2>1. CASE i <= Len(w)
    <3>1. i \in 1..Len(wire[r]) /\ (w \o e)[i] = wire[r][i]
      BY <1>7, <1>10, <2>1
    <3>2. wire[r][i] < next[j] /\ Ahead(r, wire[r][i], i - 1)
      BY <1>1, <1>2, <3>1 DEF StreamSound
    <3>3. \A k \in 1..(i - 1) : (w \o e)[k] = w[k]
      BY <1>9, <1>10, <2>1
    <3>0. PICK c : c = wire[r][i]
      OBVIOUS
    <3>4. Ahead(r, c, i - 1)'
      <4>1. wire'[r] = w \o e /\ stream'[r].job = stream[r].job /\ first' = first /\ processed' = processed
        BY <1>2, <1>8
      <4>2. \A k \in 1..(i - 1) : wire'[r][k] = wire[r][k]
        BY <1>7, <3>3, <4>1
      <4>3. Ahead(r, c, i - 1)
        BY <3>0, <3>2
      <4> QED
        BY <4>1, <4>2, <4>3 DEF Ahead, Handled, Seqs
    <3> QED
      BY <3>0, <3>1, <3>2, <3>4 DEF Ahead
  <2>2. CASE i > Len(w)
    <3>0. PICK lw \in Nat, le \in Nat : lw = Len(w) /\ le = Len(e)
      BY <1>9
    <3>1. i - Len(w) \in 1..Len(e) /\ Len(w) + (i - Len(w)) = i /\ i - 1 \in Nat
      <4>1. i \in 1..(lw + le) /\ i > lw
        BY <2>2, <3>0
      <4>2. i - lw \in 1..le /\ lw + (i - lw) = i /\ i - 1 \in Nat
        BY <4>1
      <4> QED
        BY <3>0, <4>2
    <3>2. (w \o e)[i] = from + (i - Len(w)) - 1
      BY <1>9, <1>10, <3>1
    <3>3. PICK c \in Nat : c = from + (i - Len(w)) - 1
      <4>1. i - lw \in Nat /\ i - lw >= 1
        BY <3>0, <3>1
      <4>2. from + (i - lw) - 1 \in Nat
        BY <4>1
      <4> QED
        BY <3>0, <4>2
    <3>4. c < next[j] /\ Len(w) <= i - 1 /\ i - 1 <= Len(w) + Len(e) /\ Len(w) + c - from <= i - 1
      <4>1. i \in 1..(lw + le) /\ i > lw /\ c = from + (i - lw) - 1 /\ le = next[j] - from
            /\ next[j] \in Nat
        BY <1>9, <2>2, <3>0, <3>3
      <4>2. PICK last \in Nat : last = next[j]
        BY <4>1
      <4>3. i \in Nat /\ i <= lw + le /\ lw < i /\ c = from + (i - lw) - 1 /\ le = last - from
        BY <4>1, <4>2
      <4>4. c < last /\ lw <= i - 1 /\ i - 1 <= lw + le /\ lw + c - from <= i - 1
        BY <4>3
      <4> QED
        BY <3>0, <4>2, <4>4
    <3>5. Ahead(r, c, i - 1)'
      BY <1>11, <3>1, <3>4
    <3> QED
      BY <3>2, <3>3, <3>4, <3>5 DEF Ahead
  <2> QED
    BY <1>9, <2>1, <2>2
<1> HIDE DEF cursor
<1>15. StreamSound(r)'
  <2>1. Len(wire'[r]) = Len(w) + Len(e)
    BY <1>8, <1>10
  <2>2. \A i \in 1..Len(wire'[r]) : /\ wire'[r][i] < next'[stream'[r].job]
                                    /\ Ahead(r, wire[r][i], i - 1)'
    BY <1>2, <1>8, <1>14, <2>1 DEF Ahead
  <2>3. Ahead(r, stream[r].cursor, Len(wire[r]))'
    <3>1. PICK c, n : c = cursor /\ n = Len(w) + Len(e)
      OBVIOUS
    <3>2. Ahead(r, c, n)'
      BY <1>13, <3>1
    <3> QED
      BY <1>8, <2>1, <3>1, <3>2 DEF Ahead
  <2>4. /\ stream'[r].cursor <= next'[stream'[r].job]
        /\ stream'[r].ended => /\ jobStatus'[stream'[r].job] = "ended"
                               /\ stream'[r].cursor = next'[stream'[r].job]
    BY <1>2, <1>8, <1>12
  <2> QED
    BY <1>2, <1>8, <2>2, <2>3, <2>4 DEF StreamSound
<1> QED
  BY <1>2, <1>8, <1>15, StreamsStay, NothingRead

\* What was ahead of the head of a wire is ahead of its tail, once the head is handled.
LEMMA AheadOfTail ==
    ASSUME EventsInv, EventsTypeOK', Forward, NEW r \in Streams,
           StreamSound(r), wire[r] # <<>>, stream'[r] = stream[r], wire'[r] = Tail(wire[r]),
           Head(wire[r]) \in Handled(stream[r].job)',
           NEW c \in Int, NEW n \in 1..Len(wire[r]), Ahead(r, c, n)
    PROVE  Ahead(r, c, n - 1)'
<1> DEFINE j == stream[r].job
<1>1. /\ j \in ChatJobs /\ Head(wire[r]) = wire[r][1]
      /\ \A i \in 1..(Len(wire[r]) - 1) : Tail(wire[r])[i] = wire[r][i + 1]
  BY WireHead DEF EventsInv
<1> SUFFICES ASSUME NEW q \in Seqs, first'[j] <= q, q < c
             PROVE  q \in Handled(j)' \/ \E k \in 1..(n - 1) : Tail(wire[r])[k] = q
  BY DEF Ahead, Handled, Seqs
<1>2. first[j] <= q
  <2>1. first[j] \in Nat /\ first'[j] \in Nat /\ first[j] <= first'[j] /\ q \in Nat
    BY <1>1, JobMoves, EventAssumption DEF EventsInv, Seqs
  <2> QED
    BY <2>1
<1>3. q \in Handled(j) \/ \E k \in 1..n : wire[r][k] = q
  BY <1>2 DEF Ahead
<1>4. Len(wire[r]) \in Nat
  BY StreamNumbers DEF EventsInv
<1>5. ASSUME NEW k \in 1..n, wire[r][k] = q, k # 1
      PROVE  \E i \in 1..(n - 1) : Tail(wire[r])[i] = q
  <2>1. k - 1 \in 1..(n - 1) /\ k - 1 \in 1..(Len(wire[r]) - 1) /\ (k - 1) + 1 = k
    BY <1>4, <1>5
  <2>2. Tail(wire[r])[k - 1] = wire[r][(k - 1) + 1]
    BY <1>1, <2>1
  <2> QED
    BY <1>5, <2>1, <2>2
<1> QED
  BY <1>1, <1>3, <1>5, StillHandled

\* Processing fresh events without a gap keeps the jobs in order.
LEMMA ProcessKeeps ==
    ASSUME EventsInv, EventsTypeOK', Forward, UNCHANGED first,
           NEW j \in ChatJobs, NEW events \in SUBSET Seqs,
           Process(j, events), \A s \in events : Fresh(j, s),
           j \notin misled' =>
              \A s \in events, q \in Seqs :
                 first[j] <= q /\ q < s => q \in Handled(j) \cup events
    PROVE  /\ Handled(j)' = Handled(j) \cup events
           /\ \A i \in ChatJobs \ misled' :
                 Ordered(i)' /\ ((i \in over' => i \in over) => Finished(i)')
<1>1. /\ EventsTypeOK /\ \A i \in ChatJobs \ misled' : Ordered(i) /\ Finished(i)
  BY DEF EventsInv, PageSound, Forward
<1>2. /\ Handled(j)' = Handled(j) \cup events
      /\ \A i \in ChatJobs \ {j} : /\ Handled(i)' = Handled(i)
                                   /\ order'[i] = order[i]
  BY <1>1, Remembered
<1>3. \A s \in events : s \notin Handled(j)
  BY DEF Fresh, Handled
<1>4. ASSUME NEW i \in ChatJobs \ misled'
      PROVE  Ordered(i)' /\ ((i \in over' => i \in over) => Finished(i)')
  <2>1. (i \in over' => i \in over) => Finished(i)'
    BY <1>1, StillFinished
  <2>2. CASE i = j
    <3>1. j \notin misled'
      BY <2>2
    <3>2. Ordered(j)
      BY <1>1, <2>2
    <3>3. Ordered(j)'
      BY <1>1, <1>3, <3>1, <3>2, InOrderAfter
    <3> QED
      BY <2>1, <2>2, <3>3
  <2>3. CASE i # j
    <3>1. Handled(i)' = Handled(i) /\ order'[i] = order[i]
      BY <1>2, <2>3
    <3> QED
      BY <1>1, <2>1, <3>1, StillOrdered
  <2> QED
    BY <2>2, <2>3
<1> QED
  BY <1>2, <1>4

\* One event is read from a stream.
LEMMA ReadKeeps ==
    ASSUME EventsInv, EventsTypeOK', Forward, NEW r \in Streams, ReadEvent(r)
    PROVE  PageSound'
<1>1. /\ StreamSound(r) /\ EventsTypeOK
  BY DEF EventsInv, PageSound
<1>2. /\ wire[r] # <<>> /\ wire' = [wire EXCEPT ![r] = Tail(wire[r])]
      /\ UNCHANGED <<jobStatus, next, first, stream, poll, over, misled>>
  BY DEF ReadEvent, serverVars
<1>3. PICK j \in ChatJobs, s \in Seqs : j = stream[r].job /\ s = Head(wire[r])
  BY <1>1, <1>2, WireHead
<1>4. /\ s + 1 \in Seqs
      /\ s = wire[r][1] /\ 1 \in 1..Len(wire[r])
      /\ Len(Tail(wire[r])) = Len(wire[r]) - 1
      /\ \A i \in 1..(Len(wire[r]) - 1) : Tail(wire[r])[i] = wire[r][i + 1]
  BY <1>1, <1>2, <1>3, WireHead
<1>5. j # 0 /\ s \in Nat /\ Len(wire[r]) \in Nat /\ first[j] \in Nat
  BY <1>1, <1>3, StreamNumbers, JobNumbers, EventAssumption DEF ChatJobs, Seqs
<1>6. Reached(j, s)
  <2>1. Ahead(r, s, 0)
    <3>1. Ahead(r, wire[r][1], 1 - 1)
      BY <1>1, <1>3, <1>4, <1>5 DEF StreamSound
    <3> QED
      BY <1>4, <3>1
  <2>2. \A k \in 1..0 : FALSE
    OBVIOUS
  <2>3. \A q \in Seqs : first[j] <= q /\ q < s => q \in Handled(j)
    BY <1>3, <2>1, <2>2 DEF Ahead
  <2> QED
    BY <2>3 DEF Reached
<1> DEFINE Goal == /\ \A i \in ChatJobs \ misled' : Ordered(i)' /\ Finished(i)'
                   /\ Resumable(stored.cursor, stored.of)'
                   /\ s \in Handled(j)'
<1>7. ASSUME Fresh(j, s) PROVE Goal
  <2>1. Process(j, {s}) /\ stored' = [cursor |-> s + 1, of |-> j]
    BY <1>3, <1>7 DEF ReadEvent
  <2>2. \A t \in {s}, q \in Seqs :
           first[j] <= q /\ q < t => q \in Handled(j) \cup {s}
    BY <1>6 DEF Reached
  <2>3. PICK events \in SUBSET Seqs : events = {s}
    OBVIOUS
  <2>4. /\ Handled(j)' = Handled(j) \cup {s}
        /\ \A i \in ChatJobs \ misled' :
              Ordered(i)' /\ ((i \in over' => i \in over) => Finished(i)')
    <3>1. Process(j, events) /\ \A t \in events : Fresh(j, t)
      BY <1>7, <2>1, <2>3
    <3>2. \A t \in events, q \in Seqs :
             first[j] <= q /\ q < t => q \in Handled(j) \cup events
      BY <2>2, <2>3
    <3>3. UNCHANGED first
      BY <1>2
    <3>4. /\ Handled(j)' = Handled(j) \cup events
          /\ \A i \in ChatJobs \ misled' :
                Ordered(i)' /\ ((i \in over' => i \in over) => Finished(i)')
      BY <3>1, <3>2, <3>3, ProcessKeeps
    <3> QED
      BY <2>3, <3>4
  <2>5. \A q \in Seqs : first'[j] <= q /\ q < s + 1 => q \in Handled(j)'
    <3> SUFFICES ASSUME NEW q \in Seqs, first'[j] <= q, q < s + 1
                 PROVE  q \in Handled(j)'
      OBVIOUS
    <3>1. q = s \/ q < s
      BY <1>5, EventAssumption DEF Seqs
    <3> QED
      BY <1>2, <1>6, <2>4, <3>1 DEF Reached
  <2>6. Resumable(stored.cursor, stored.of)'
    <3>1. stored'.cursor = s + 1 /\ stored'.of = j
      BY <2>1
    <3> QED
      BY <2>5, <3>1 DEF Resumable, Reached, ChatJobs, Seqs
  <2> QED
    BY <1>2, <2>4, <2>6
<1>8. ASSUME ~Fresh(j, s) PROVE Goal
  <2>1. UNCHANGED <<processed, stored, order>>
    BY <1>3, <1>8 DEF ReadEvent
  <2>2. s \in Handled(j)
    BY <1>8 DEF Fresh, Handled
  <2>3. \A i \in ChatJobs \ misled' : Ordered(i)' /\ Finished(i)'
    BY <1>2, <2>1, OrderStays
  <2>4. Resumable(stored.cursor, stored.of)'
    BY <2>1, PlacesStay
  <2>5. s \in Handled(j)'
    BY <2>2, StillHandled
  <2> QED
    BY <2>3, <2>4, <2>5
<1>9. Goal
  BY <1>7, <1>8
<1>10. StreamSound(r)'
  <2>1. /\ stream' = stream /\ wire'[r] = Tail(wire[r]) /\ next' = next /\ jobStatus' = jobStatus
        /\ Head(wire[r]) \in Handled(stream[r].job)'
    <3>1. wire \in [Streams -> Seq(Seqs)]
      BY <1>1 DEF EventsTypeOK
    <3> QED
      BY <1>2, <1>3, <1>9, <3>1
  <2>2. ASSUME NEW c \in Int, NEW n \in 1..Len(wire[r]), Ahead(r, c, n)
        PROVE  Ahead(r, c, n - 1)'
    BY <1>1, <1>2, <2>1, <2>2, AheadOfTail
  <2>3. PICK len \in Nat : len = Len(wire[r]) /\ len >= 1
    BY <1>4, <1>5
  <2>4. ASSUME NEW i \in 1..(len - 1)
        PROVE  Tail(wire[r])[i] < next[j] /\ \A c : c = Tail(wire[r])[i] => Ahead(r, c, i - 1)'
    <3>1. i \in 1..(Len(wire[r]) - 1) /\ i + 1 \in 1..Len(wire[r]) /\ (i + 1) - 1 = i /\ i \in 1..Len(wire[r])
      BY <2>3
    <3>2. PICK c : c = wire[r][i + 1]
      OBVIOUS
    <3>3. c < next[j] /\ Ahead(r, c, i) /\ c \in Int
      <4>1. c < next[j] /\ Ahead(r, c, (i + 1) - 1)
        BY <1>1, <1>3, <1>5, <3>1, <3>2 DEF StreamSound
      <4>2. c \in Nat
        BY <1>1, <3>1, <3>2, StreamNumbers
      <4> QED
        BY <3>1, <4>1, <4>2
    <3>4. Ahead(r, c, i - 1)'
      BY <2>2, <3>1, <3>3
    <3>5. Tail(wire[r])[i] = c
      BY <1>4, <3>1, <3>2
    <3> QED
      BY <3>3, <3>4, <3>5
  <2>5. \A c : c = stream[r].cursor => Ahead(r, c, len - 1)'
    <3>1. PICK c \in Int : c = stream[r].cursor
      BY <1>1, StreamNumbers
    <3>2. Ahead(r, c, len) /\ len \in 1..Len(wire[r])
      BY <1>1, <1>3, <1>5, <2>3, <3>1 DEF StreamSound
    <3> QED
      BY <2>2, <3>1, <3>2
  <2>6. /\ stream[r].cursor <= next[j]
        /\ stream[r].ended => jobStatus[j] = "ended" /\ stream[r].cursor = next[j]
    BY <1>1, <1>3, <1>5 DEF StreamSound
  <2>7. Len(wire'[r]) = len - 1
    BY <1>4, <2>1, <2>3
  <2>8. \A i \in 1..Len(wire'[r]) : /\ wire'[r][i] < next'[stream'[r].job]
                                    /\ Ahead(r, wire[r][i], i - 1)'
    BY <1>3, <2>1, <2>4, <2>7 DEF Ahead
  <2>9. Ahead(r, stream[r].cursor, Len(wire[r]))'
    BY <2>1, <2>5, <2>7 DEF Ahead
  <2> QED
    BY <1>3, <1>5, <2>1, <2>6, <2>8, <2>9 DEF StreamSound
<1>11. \A q \in Streams : StreamSound(q)'
  <2>1. \A q \in Streams \ {r} : stream'[q] = stream[q] /\ wire'[q] = wire[q]
    <3>1. wire \in [Streams -> Seq(Seqs)]
      BY <1>1 DEF EventsTypeOK
    <3> QED
      BY <1>2, <3>1
  <2> QED
    BY <1>10, <2>1, StreamsStay
<1>12. Resumable(poll.cursor, poll.of)' /\ AnswerSound(poll.answer)'
  BY <1>2, PlacesStay
<1> QED
  BY <1>9, <1>11, <1>12 DEF PageSound, ChatJobs

\* A stream ends or breaks.  One that ended had been read to its job's end.
LEMMA CloseKeeps ==
    ASSUME EventsInv, EventsTypeOK', Forward, NEW r \in Streams,
           StreamEnds(r) \/ StreamBreaks(r)
    PROVE  PageSound'
<1>1. /\ StreamSound(r) /\ EventsTypeOK /\ ServerKeeps
      /\ stream \in [Streams -> StreamType] /\ wire \in [Streams -> Seq(Seqs)]
  BY DEF EventsInv, PageSound, EventsTypeOK, StreamType
<1>2. /\ UNCHANGED <<jobStatus, next, first, poll, processed, stored, order, misled>>
      /\ stream' = [stream EXCEPT ![r] = NoStream]
  BY DEF StreamEnds, StreamBreaks, serverVars, eventHistory
<1>3. /\ wire'[r] = <<>> /\ \A q \in Streams \ {r} : wire'[q] = wire[q] /\ stream'[q] = stream[q]
      /\ stream'[r] = NoStream
  BY <1>1, <1>2 DEF StreamEnds, StreamBreaks
<1>4. \A q \in Streams : StreamSound(q)'
  BY <1>3, ClosedOrNew, StreamsStay
<1>5. CASE StreamBreaks(r)
  BY <1>2, <1>4, <1>5, NothingRead DEF StreamBreaks, eventHistory
<1>6. CASE StreamEnds(r)
  <2>1. stream[r].ended /\ wire[r] = <<>> /\ over' = over \cup {stream[r].job}
    BY <1>6 DEF StreamEnds
  <2>2. PICK j \in ChatJobs : j = stream[r].job
    BY <1>1, <2>1, StreamNumbers DEF StreamSound
  <2>3. /\ jobStatus[j] = "ended" /\ stream[r].cursor = next[j] /\ Ahead(r, stream[r].cursor, Len(wire[r]))
    BY <1>1, <2>1, <2>2, EventAssumption DEF StreamSound, ChatJobs
  <2>4. /\ first[j] \in Nat /\ next[j] \in Nat /\ next[j] <= MaxEvents /\ MaxEvents \in Nat
        /\ next[j] > 0 /\ first[j] < next[j]
    BY <1>1, <2>3, JobNumbers, EventAssumption DEF ServerKeeps
  <2>5. next[j] - 1 \in Handled(j)
    <3>1. next[j] - 1 \in Seqs /\ first[j] <= next[j] - 1 /\ next[j] - 1 < next[j]
      BY <2>4 DEF Seqs
    <3>2. Len(wire[r]) = 0
      BY <2>1
    <3> QED
      BY <2>2, <2>3, <3>1, <3>2 DEF Ahead
  <2>6. /\ \A i \in ChatJobs \ misled' : Ordered(i)'
        /\ \A i \in ChatJobs \ misled' : (i \in over' => i \in over) => Finished(i)'
    BY <1>2, OrderStays
  <2>7. Finished(j)'
    BY <1>2, <2>3, <2>5 DEF Finished, Handled, Seqs
  <2>8. \A i \in ChatJobs \ misled' : Finished(i)'
    BY <2>1, <2>2, <2>6, <2>7
  <2>9. /\ Resumable(stored.cursor, stored.of)' /\ Resumable(poll.cursor, poll.of)'
        /\ AnswerSound(poll.answer)'
    BY <1>2, PlacesStay
  <2> QED
    BY <1>4, <2>6, <2>8, <2>9 DEF PageSound, ChatJobs
<1> QED
  BY <1>5, <1>6

\* A prompt arrives and is answered by a stream.
LEMMA PostKeeps ==
    ASSUME EventsInv, EventsTypeOK', Forward, PostArrives
    PROVE  PageSound'
<1>1. UNCHANGED <<wire, poll, processed, stored, order, over, misled>>
  BY DEF PostArrives, eventHistory
<1>2. ASSUME NEW q \in Streams PROVE StreamSound(q)'
  <2>1. CASE stream'[q] = stream[q]
    BY <1>1, <2>1, StreamsStay
  <2>2. CASE stream'[q] # stream[q]
    <3>1. PICK r \in Idle :
             stream' = [stream EXCEPT ![r] = [job |-> job', cursor |-> 0, ended |-> FALSE]]
      BY <2>2 DEF PostArrives
    <3>2. q = r /\ stream[r].job = 0 /\ r \in Streams
      BY <2>2, <3>1 DEF Idle, EventsInv, EventsTypeOK
    <3>3. wire[r] = <<>>
      BY <3>2 DEF EventsInv, PageSound, StreamSound
    <3>4. stream'[r] = [job |-> job', cursor |-> 0, ended |-> FALSE]
      BY <3>1, <3>2 DEF EventsInv, EventsTypeOK
    <3>5. wire'[r] = <<>>
      BY <1>1, <3>3
    <3> QED
      BY <3>2, <3>4, <3>5, ClosedOrNew
  <2> QED
    BY <2>1, <2>2
<1> QED
  BY <1>1, <1>2, NothingRead

\* A poll is answered.
LEMMA ServeKeeps ==
    ASSUME EventsInv, EventsTypeOK', Forward, PollServed
    PROVE  PageSound'
<1>1. /\ UNCHANGED <<jobStatus, next, first, stream, wire, processed, stored, order, over, misled>>
      /\ poll'.cursor = poll.cursor /\ poll'.of = poll.of
      /\ poll'.answer = IF job = 0 THEN [NoAnswer EXCEPT !.came = TRUE]
                        ELSE [job |-> job, from |-> first[job], to |-> next[job],
                              ended |-> jobStatus[job] = "ended", came |-> TRUE]
  <2>1. poll \in PollType
    BY DEF EventsInv, EventsTypeOK, PollType
  <2> QED
    BY <2>1 DEF PollServed, serverVars, eventHistory, PollType
<1>2. AnswerSound(poll.answer)'
  <2>1. CASE job = 0
    BY <1>1, <2>1 DEF AnswerSound, NoAnswer
  <2>2. CASE job # 0
    <3>1. job \in ChatJobs
      BY <2>2, EventAssumption DEF EventsInv, EventsTypeOK, ChatJobs
    <3>2. first[job] \in Nat /\ next[job] \in Nat
      BY <3>1, JobNumbers DEF EventsInv
    <3>3. /\ poll'.answer.job = job /\ poll'.answer.from = first[job] /\ poll'.answer.to = next[job]
          /\ poll'.answer.ended = (jobStatus[job] = "ended")
      BY <1>1, <2>2
    <3> QED
      <4>1. first' = first /\ next' = next /\ jobStatus' = jobStatus
        BY <1>1
      <4>2. /\ poll'.answer.from <= first'[poll'.answer.job]
            /\ poll'.answer.to <= next'[poll'.answer.job]
        BY <3>2, <3>3, <4>1
      <4>3. poll'.answer.ended => /\ jobStatus'[poll'.answer.job] = "ended"
                                  /\ poll'.answer.to = next'[poll'.answer.job]
        BY <3>3, <4>1
      <4> QED
        BY <2>2, <3>3, <4>2, <4>3 DEF AnswerSound
  <2> QED
    BY <2>1, <2>2
<1>3. Resumable(poll.cursor, poll.of)'
  BY <1>1, PlacesStay
<1> QED
  BY <1>1, <1>2, <1>3, StreamsStay, OnlyPolled

\* The page forgets its poll, or begins one where the store says.
LEMMA PollStarts ==
    ASSUME EventsInv, EventsTypeOK', Forward,
           PollFails \/ BootEnds \/ Reload
    PROVE  PageSound'
<1>1. /\ UNCHANGED <<processed, stored, order, over, misled>>
      /\ \/ poll' = poll \/ poll' = NoPoll
         \/ poll' = [on |-> TRUE, cursor |-> stored.cursor, of |-> stored.of,
                     answer |-> NoAnswer]
  BY DEF PollFails, BootEnds, Reload, eventHistory
<1>2. \A r \in Streams : StreamSound(r)'
  <2>1. CASE Reload
    <3>1. \A r \in Streams : stream'[r] = NoStream /\ wire'[r] = <<>>
      BY <2>1 DEF Reload
    <3> QED
      BY <3>1, ClosedOrNew
  <2>2. CASE PollFails \/ BootEnds
    <3>1. stream' = stream /\ wire' = wire
      BY <2>2 DEF PollFails, BootEnds
    <3> QED
      BY <3>1, StreamsStay
  <2> QED
    BY <2>1, <2>2
<1>3. CASE poll' = poll
  BY <1>1, <1>2, <1>3, NothingRead
<1>4. CASE poll' = NoPoll
  <2>1. poll'.cursor = 0 /\ poll'.answer.job = 0 /\ poll'.answer.to = 0 /\ ~poll'.answer.ended
    BY <1>4 DEF NoPoll, NoAnswer
  <2>2. Resumable(poll.cursor, poll.of)' /\ AnswerSound(poll.answer)'
    BY <2>1 DEF Resumable, AnswerSound
  <2> QED
    BY <1>1, <1>2, <2>2, OnlyPolled
<1>5. CASE poll' = [on |-> TRUE, cursor |-> stored.cursor, of |-> stored.of,
                    answer |-> NoAnswer]
  <2>1. /\ poll'.cursor = stored.cursor /\ poll'.of = stored.of
        /\ poll'.answer.job = 0 /\ poll'.answer.to = 0 /\ ~poll'.answer.ended
    BY <1>5 DEF NoAnswer
  <2>2. Resumable(poll.cursor, poll.of)'
    BY <2>1, PlacesStay
  <2>3. AnswerSound(poll.answer)'
    BY <2>1 DEF AnswerSound
  <2> QED
    BY <1>1, <1>2, <2>2, <2>3, OnlyPolled
<1> QED
  BY <1>1, <1>3, <1>4, <1>5

\* The page takes the answer to a poll: what it handles of it closes up with what
\* it had, unless the poll's cursor counts another job.
LEMMA TakeKeeps ==
    ASSUME EventsInv, EventsTypeOK', Forward, PollTaken
    PROVE  PageSound'
<1>0. PICK j : j = poll.answer.job
  OBVIOUS
<1> DEFINE a == poll.answer
           events == {s \in a.from..(a.to - 1) : s >= poll.cursor}
           fresh == {s \in events : Fresh(j, s)}
<1>1. /\ EventsTypeOK /\ ServerKeeps /\ AnswerSound(a) /\ Resumable(poll.cursor, poll.of)
      /\ \A i \in ChatJobs \ misled : Ordered(i) /\ Finished(i)
  BY DEF EventsInv, PageSound
<1>2. /\ UNCHANGED <<jobStatus, next, first, stream, wire>>
      /\ over' = over \cup (IF a.ended THEN {j} ELSE {})
      /\ misled' = misled \cup (IF poll.cursor > 0 /\ poll.of # j THEN {j} \ {0} ELSE {})
  BY <1>0 DEF PollTaken, serverVars
<1>3. /\ j = 0 \/ j \in ChatJobs
      /\ poll.cursor \in Nat /\ a.from \in Nat /\ a.to \in Nat /\ a.to \in Seqs
      /\ a.ended \in BOOLEAN /\ (j = 0 => a.to = 0 /\ ~a.ended)
  BY <1>0, <1>1, PollNumbers DEF AnswerSound
<1>4. \A q \in Streams : StreamSound(q)'
  BY <1>2, StreamsStay
<1>5. \A i \in Seqs : i \in Nat
  BY EventAssumption DEF Seqs
<1>6. events \subseteq Seqs /\ \A s \in Seqs : s \in events <=> a.from <= s /\ s < a.to /\ poll.cursor <= s
  BY <1>3, <1>5, EventAssumption DEF Seqs
<1> DEFINE Goal == /\ \A i \in ChatJobs \ misled' :
                         Ordered(i)' /\ ((i \in over' => i \in over) => Finished(i)')
                   /\ Resumable(stored.cursor, stored.of)'
                   /\ j \in ChatJobs \ misled' =>
                         \A q \in Seqs :
                            first[j] <= q /\ q < a.to => q \in Handled(j)'
                   /\ poll' = NoPoll \/ /\ poll'.answer = NoAnswer
                                        /\ Resumable(poll.cursor, poll.of)'
\* Before the answer, the page has what the server still has below the cursor.
<1>7. ASSUME j \in ChatJobs \ misled', NEW q \in Seqs, first[j] <= q, q < poll.cursor
      PROVE  q \in Handled(j)
  <2>1. poll.cursor > 0
    BY <1>3, <1>5, <1>7
  <2>2. poll.of = j /\ poll.of \notin misled
    BY <1>2, <1>7, <2>1, EventAssumption DEF ChatJobs
  <2>3. Reached(poll.of, poll.cursor)
    BY <1>1, <2>1, <2>2 DEF Resumable
  <2> QED
    BY <1>7, <2>2, <2>3 DEF Reached
<1>8. ASSUME j \in ChatJobs, NEW q \in Seqs, first[j] <= q, q < a.to, q >= poll.cursor
      PROVE  q \in events
  <2>1. a.from <= first[j] /\ first[j] \in Nat
    BY <1>0, <1>1, <1>8, JobNumbers, EventAssumption DEF AnswerSound, ChatJobs
  <2> QED
    BY <1>3, <1>5, <1>6, <1>8, <2>1
<1>9. ASSUME NEW c, NEW of, PollGoesOn(c, of)
      PROVE  poll' = NoPoll \/ (poll'.answer = NoAnswer /\ poll'.cursor = c /\ poll'.of = of)
  <2>1. poll \in PollType
    BY <1>1 DEF EventsTypeOK, PollType
  <2> QED
    BY <1>9, <2>1 DEF PollGoesOn, PollType
<1> HIDE DEF events
<1>10. ASSUME events = {} PROVE Goal
  <2>1. UNCHANGED <<processed, stored, order>> /\ PollGoesOn(poll.cursor, poll.of)
    BY <1>10 DEF PollTaken, events
  <2>2. Resumable(stored.cursor, stored.of)'
    BY <2>1, PlacesStay
  <2>3. poll' = NoPoll \/ /\ poll'.answer = NoAnswer
                          /\ Resumable(poll.cursor, poll.of)'
    BY <1>9, <2>1, PlacesStay
  <2>4. \A i \in ChatJobs \ misled' :
           Ordered(i)' /\ ((i \in over' => i \in over) => Finished(i)')
    BY <2>1, OrderStays
  <2>5. ASSUME j \in ChatJobs \ misled', NEW q \in Seqs, first[j] <= q, q < a.to
        PROVE  q \in Handled(j)'
    <3>1. q < poll.cursor \/ q >= poll.cursor
      BY <1>3, <1>5
    <3> QED
      BY <1>7, <1>8, <1>10, <2>5, <3>1, StillHandled
  <2> QED
    BY <2>2, <2>3, <2>4, <2>5
<1>11. ASSUME events # {} PROVE Goal
  <2>1. /\ Process(j, fresh) /\ PollGoesOn(a.to, j)
        /\ stored' = [cursor |-> a.to, of |-> j]
    BY <1>0, <1>11 DEF PollTaken, events
  <2>2. PICK i \in ChatJobs : i = j
    <3>1. j # 0
      BY <1>3, <1>5, <1>6, <1>11
    <3> QED
      BY <1>3, <3>1
  <2>3. PICK new \in SUBSET Seqs : new = fresh
    BY <1>6
  <2>4. /\ \A s \in new : Fresh(i, s) /\ s \in events
        /\ \A s \in events : s \in new \/ s \in Handled(i)
    BY <1>6, <2>2, <2>3 DEF Fresh, Handled
  <2>5. ASSUME i \notin misled', NEW s \in new, NEW q \in Seqs, first[i] <= q, q < s
        PROVE  q \in Handled(i) \cup new
    <3>1. s \in Seqs /\ s < a.to
      BY <1>6, <2>4, <2>5
    <3>2. q < a.to /\ (q < poll.cursor \/ q >= poll.cursor)
      BY <1>3, <1>5, <2>5, <3>1
    <3> QED
      BY <1>7, <1>8, <2>2, <2>4, <2>5, <3>2
  <2>6. Process(i, new)
    BY <2>1, <2>2, <2>3
  <2>7. /\ Handled(i)' = Handled(i) \cup new
        /\ \A k \in ChatJobs \ misled' :
              Ordered(k)' /\ ((k \in over' => k \in over) => Finished(k)')
    <3> HIDE DEF fresh
    <3>1. \A s \in new : Fresh(i, s)
      BY <2>4
    <3>2. UNCHANGED first
      BY <1>2
    <3> QED
      BY <2>5, <2>6, <3>1, <3>2, ProcessKeeps
  <2>8. ASSUME i \notin misled', NEW q \in Seqs, first[i] <= q, q < a.to
        PROVE  q \in Handled(i)'
    <3>1. q < poll.cursor \/ q >= poll.cursor
      BY <1>3, <1>5
    <3> QED
      BY <1>7, <1>8, <2>2, <2>4, <2>7, <2>8, <3>1
  <2>9. PICK c : c = a.to
    OBVIOUS
  <2>10. i \notin misled' => Reached(i, c)'
    BY <1>2, <2>8, <2>9 DEF Reached, Seqs
  <2>11. stored'.cursor = c /\ stored'.of = i
    BY <2>1, <2>2, <2>9
  <2>12. Resumable(stored.cursor, stored.of)'
    BY <2>10, <2>11 DEF Resumable, Reached, ChatJobs
  <2>13. poll' = NoPoll \/ (poll'.answer = NoAnswer /\ poll'.cursor = c /\ poll'.of = i)
    BY <1>9, <2>1, <2>2, <2>9
  <2>14. poll' = NoPoll \/ (poll'.answer = NoAnswer /\ Resumable(poll.cursor, poll.of)')
    BY <2>10, <2>13 DEF Resumable, Reached, ChatJobs
  <2> QED
    BY <2>2, <2>7, <2>8, <2>12, <2>14
<1>12. Goal
  BY <1>10, <1>11
\* A job that gets over by this answer had been answered to its end.
<1>13. ASSUME a.ended, j \in ChatJobs \ misled' PROVE Finished(j)'
  <2>1. jobStatus[j] = "ended" /\ a.to = next[j]
    BY <1>0, <1>1, <1>3, <1>13 DEF AnswerSound
  <2>2. first[j] \in Nat /\ next[j] \in Nat /\ next[j] > 0 /\ first[j] < next[j]
    BY <1>1, <1>13, <2>1, JobNumbers DEF ServerKeeps
  <2>3. next[j] - 1 \in Seqs
    BY <1>1, <1>13, <2>2, JobNumbers, EventAssumption DEF Seqs
  <2>4. next[j] - 1 \in Handled(j)'
    BY <1>12, <1>13, <2>1, <2>2, <2>3
  <2>5. PICK i \in ChatJobs : i = j
    BY <1>13
  <2>6. Finished(i)'
    BY <1>2, <2>1, <2>4, <2>5 DEF Finished
  <2> QED
    BY <2>5, <2>6
<1>14. \A i \in ChatJobs \ misled' : Ordered(i)' /\ Finished(i)'
  BY <1>2, <1>12, <1>13
<1>15. Resumable(poll.cursor, poll.of)' /\ AnswerSound(poll.answer)'
  <2>1. poll'.answer = NoAnswer
    BY <1>12 DEF NoPoll
  <2>2. AnswerSound(poll.answer)'
    BY <2>1 DEF AnswerSound, NoAnswer
  <2>3. CASE poll' = NoPoll
    BY <2>2, <2>3 DEF Resumable, NoPoll
  <2> QED
    BY <1>12, <2>2, <2>3
<1> QED
  BY <1>4, <1>12, <1>14, <1>15 DEF PageSound, ChatJobs

\* Every step keeps the page sound.
LEMMA EventsStep ==
    ASSUME EventsInv, [EventsNext]_eventVars
    PROVE  EventsInv'
<1>1. EventsTypeOK' /\ ServerKeeps' /\ Forward
  BY StepTyped
<1> SUFFICES PageSound'
  BY <1>1 DEF EventsInv
<1>2. CASE \E r \in Streams : SseTick(r)
  BY <1>1, <1>2, TickKeeps
<1>3. CASE \E r \in Streams : ReadEvent(r)
  BY <1>1, <1>3, ReadKeeps
<1>4. CASE \E r \in Streams : StreamEnds(r) \/ StreamBreaks(r)
  BY <1>1, <1>4, CloseKeeps
<1>5. CASE PostArrives
  BY <1>1, <1>5, PostKeeps
<1>6. CASE PollServed
  BY <1>1, <1>6, ServeKeeps
<1>7. CASE PollTaken
  BY <1>1, <1>7, TakeKeeps
<1>8. CASE PollFails \/ BootEnds \/ Reload
  BY <1>1, <1>8, PollStarts
<1>9. CASE UNCHANGED <<order, processed, over, stored, poll, stream, wire>>
  <2>1. \A r \in Streams : StreamSound(r)'
    BY <1>1, <1>9, StreamsStay
  <2> QED
    BY <1>1, <1>9, <2>1, NothingRead
<1>10. CASE \/ \E j \in ChatJobs : Progress(j) \/ EndJob(j)
            \/ OtherStarts \/ RemoveJob \/ Send \/ PostFails
            \/ BootServed \/ Reboot \/ UNCHANGED eventVars
  BY <1>9, <1>10 DEF Progress, EndJob, OtherStarts, RemoveJob,
                     Send, PostFails, BootServed, Reboot,
                     eventHistory, eventVars
<1> QED
  BY <1>2, <1>3, <1>4, <1>5, <1>6, <1>7, <1>8, <1>10 DEF EventsNext, Answers

\* Nothing is handled, streamed or polled when the page boots first.
LEMMA EventsBegin ==
    ASSUME EventsInit
    PROVE  EventsInv
<1>1. /\ 0 \in Seqs /\ 0 \in 0..MaxJobs /\ 0 \in 0..MaxBoots /\ MaxEvents > 0
      /\ \A s \in Seqs : s \in Nat
      /\ NoPoll \in PollType /\ NoStream \in StreamType
  BY NothingTyped, EventAssumption DEF Seqs
<1>2. \A r \in Streams : wire[r] = <<>> /\ stream[r] = NoStream
  BY DEF EventsInit
<1>3. EventsTypeOK
  <2>1. wire \in [Streams -> Seq(Seqs)] /\ stream \in [Streams -> StreamType]
    BY <1>1 DEF EventsInit
  <2>2. poll \in PollType
    BY <1>1 DEF EventsInit
  <2>3. stored \in [cursor : Seqs, of : 0..MaxJobs]
    BY <1>1 DEF EventsInit
  <2> QED
    BY <1>1, <2>1, <2>2, <2>3 DEF EventsInit, EventsTypeOK, PollType, StreamType
<1>4. ServerKeeps
  BY <1>1, EventAssumption DEF EventsInit, ServerKeeps
<1>5. \A j \in ChatJobs : Ordered(j) /\ Finished(j)
  BY DEF EventsInit, Ordered, Finished, Handled
<1>6. \A r \in Streams : StreamSound(r)
  BY <1>2 DEF StreamSound, NoStream
<1>7. /\ Resumable(stored.cursor, stored.of) /\ Resumable(poll.cursor, poll.of)
      /\ AnswerSound(poll.answer)
  BY DEF EventsInit, Resumable, AnswerSound, NoPoll, NoAnswer
<1> QED
  BY <1>3, <1>4, <1>5, <1>6, <1>7 DEF EventsInv, PageSound

\* Between the server's list, the streams and the polls no event is lost: the
\* invariant is inductive, for any jobs, events, streams and boots.
THEOREM EventsInvariance == EventsSpec => []EventsInv
<1>1. EventsInit => EventsInv
  BY EventsBegin
<1>2. EventsInv /\ [EventsNext]_eventVars => EventsInv'
  BY EventsStep
<1> QED
  BY <1>1, <1>2, PTL DEF EventsSpec

\* A page handles the events of a job once, in the order they were pushed and
\* without gaps, and goes by the end of none without its last event, whatever
\* streams, polls, boots and reloads overlap.
THEOREM EventsHandled == EventsSpec => []HandledAsPushed
<1>1. EventsInv => HandledAsPushed
  <2> SUFFICES ASSUME EventsInv, NEW j \in ChatJobs \ misled
               PROVE  /\ \A p \in order[j] : p[1] < p[2] \/ (p[1] # p[2] /\ Dropped(j, p[2]))
                      /\ \A s \in Handled(j) :
                            \A r \in first[j]..(s - 1) : r \in Handled(j)
                      /\ j \in over => (next[j] - 1) \in Handled(j)
    BY DEF HandledAsPushed
  <2>1. Ordered(j) /\ Finished(j)
    BY DEF EventsInv, PageSound
  <2>2. ASSUME NEW s \in Handled(j), NEW r \in first[j]..(s - 1)
        PROVE  r \in Handled(j)
    <3>1. s \in 0..MaxEvents /\ MaxEvents \in Nat /\ first[j] \in Nat
      BY JobNumbers, EventAssumption DEF EventsInv, Handled, Seqs
    <3>2. r \in 0..MaxEvents /\ first[j] <= r /\ r < s
      BY <2>2, <3>1
    <3> QED
      BY <2>1, <2>2, <3>2 DEF Ordered, Reached, Seqs
  <2> QED
    BY <2>1, <2>2 DEF Ordered, Finished
<1> QED
  BY <1>1, EventsInvariance, PTL

-----------------------------------------------------------------------------
(* What there is to BusyEnds besides fairness.                             *)

\* A chat is busy only while its prompt is on its way, it is polled, or a
\* stream is read; and what is listed or streamed is a job that was started,
\* which runs or has ended.  So there is something that will free the chat.
BusyIsRead ==
    /\ busy => post = "sent" \/ poll.on \/ \E r \in Streams : stream[r].job # 0
    /\ job # 0 => jobStatus[job] # "unused"
    /\ \A r \in Streams : stream[r].job # 0 => jobStatus[stream[r].job] # "unused"

\* A step that leaves the page's readers alone keeps BusyIsRead, if a job that
\* is listed was started and none returns to where it was.
LEMMA ServerKeepsRead ==
    ASSUME EventsTypeOK, BusyIsRead, UNCHANGED stream,
           post = "sent" => post' = "sent" \/ ~busy',
           poll.on => poll'.on \/ ~busy',
           busy' => busy \/ post' = "sent" \/ poll'.on,
           \A j \in ChatJobs : jobStatus[j] # "unused" => jobStatus'[j] # "unused",
           job' = job \/ job' = 0 \/ jobStatus'[job'] # "unused"
    PROVE  BusyIsRead'
<1>1. busy' => post' = "sent" \/ poll'.on \/ \E r \in Streams : stream'[r].job # 0
  BY DEF BusyIsRead
<1>2. job' # 0 => jobStatus'[job'] # "unused"
  BY EventAssumption DEF BusyIsRead, EventsTypeOK, ChatJobs
<1>3. \A r \in Streams : stream'[r].job # 0 => jobStatus'[stream'[r].job] # "unused"
  BY StreamNumbers DEF BusyIsRead
<1> QED
  BY <1>1, <1>2, <1>3 DEF BusyIsRead

\* Every step keeps BusyIsRead.
LEMMA BusyStep ==
    ASSUME EventsTypeOK, BusyIsRead, [EventsNext]_eventVars PROVE BusyIsRead'
<1>1. /\ jobStatus \in [ChatJobs -> {"unused", "running", "ended"}]
      /\ job \in {0} \cup ChatJobs
      /\ post \in {"none", "sent", "orphan"}
      /\ \A r \in Streams : DOMAIN stream[r] = {"job", "cursor", "ended"}
      /\ DOMAIN stream = Streams
      /\ DOMAIN poll = {"on", "cursor", "of", "answer"}
  BY EventAssumption DEF EventsTypeOK, ChatJobs
<1>2. Start => /\ \A j \in ChatJobs : jobStatus[j] # "unused" => jobStatus'[j] # "unused"
               /\ job' \in ChatJobs /\ jobStatus'[job'] # "unused"
  BY <1>1 DEF Start
<1>3. CASE UNCHANGED eventVars
  BY <1>3, ServerKeepsRead DEF eventVars
<1>4. ASSUME NEW j \in ChatJobs, Progress(j) \/ EndJob(j) PROVE BusyIsRead'
  <2>1. \A i \in ChatJobs : jobStatus[i] # "unused" => jobStatus'[i] # "unused"
    BY <1>1, <1>4 DEF Progress, EndJob
  <2> QED
    BY <1>4, <2>1, ServerKeepsRead DEF Progress, EndJob
<1>5. CASE OtherStarts \/ RemoveJob
  BY <1>2, <1>5, ServerKeepsRead DEF OtherStarts, RemoveJob
<1>6. CASE Send \/ PostFails
  BY <1>1, <1>6, ServerKeepsRead DEF Send, PostFails, serverVars
<1>7. CASE PostArrives
  <2>1. /\ \A j \in ChatJobs : jobStatus[j] # "unused" => jobStatus'[j] # "unused"
        /\ job' \in ChatJobs /\ jobStatus'[job'] # "unused"
        /\ UNCHANGED <<poll, busy>>
    BY <1>1, <1>2, <1>7 DEF PostArrives, serverVars, ChatRuns
  <2>2. CASE post = "sent"
    <3>1. PICK q \in Idle :
            stream' = [stream EXCEPT ![q] = [job |-> job', cursor |-> 0, ended |-> FALSE]]
      BY <1>7, <2>2 DEF PostArrives
    <3>2. q \in Streams /\ stream'[q].job = job' /\ job' # 0
      BY <1>1, <2>1, <3>1, EventAssumption DEF Idle, ChatJobs
    <3>3. \A r \in Streams : r # q => stream'[r] = stream[r]
      BY <1>1, <3>1
    <3>4. \A r \in Streams : stream'[r].job # 0 => jobStatus'[stream'[r].job] # "unused"
      BY <2>1, <3>2, <3>3, StreamNumbers DEF BusyIsRead
    <3> QED
      BY <2>1, <3>2, <3>4 DEF BusyIsRead
  <2>3. CASE post = "orphan"
    BY <1>7, <2>1, <2>3, ServerKeepsRead DEF PostArrives
  <2> QED
    BY <1>1, <1>7, <2>2, <2>3 DEF PostArrives
<1>8. ASSUME NEW r \in Streams, SseTick(r) PROVE BusyIsRead'
  <2>1. \A q \in Streams : stream'[q].job = stream[q].job
    BY <1>1, <1>8 DEF SseTick
  <2> QED
    BY <1>8, <2>1 DEF SseTick, serverVars, BusyIsRead
<1>9. ASSUME NEW r \in Streams, ReadEvent(r) PROVE BusyIsRead'
  BY <1>9, ServerKeepsRead DEF ReadEvent, serverVars
<1>10. ASSUME NEW r \in Streams, StreamEnds(r) \/ StreamBreaks(r) PROVE BusyIsRead'
  <2>1. /\ ~busy' /\ UNCHANGED <<job, jobStatus>>
        /\ \A q \in Streams : stream'[q].job # 0 => stream'[q].job = stream[q].job
    BY <1>1, <1>10 DEF StreamEnds, StreamBreaks, serverVars, NoStream
  <2> QED
    BY <2>1 DEF BusyIsRead
<1>11. CASE PollServed
  <2>1. poll'.on = poll.on
    BY <1>1, <1>11 DEF PollServed
  <2> QED
    BY <1>11, <2>1, ServerKeepsRead DEF PollServed, serverVars
<1>12. CASE PollTaken
  <2>1. PICK cursor, of : PollGoesOn(cursor, of)
    BY <1>12 DEF PollTaken
  <2>2. (poll'.on = poll.on /\ busy' = busy) \/ ~busy'
    BY <1>1, <2>1 DEF PollGoesOn
  <2> QED
    BY <1>12, <2>2, ServerKeepsRead DEF PollTaken, serverVars
<1>13. CASE PollFails \/ BootServed \/ Reboot
  BY <1>13, ServerKeepsRead DEF PollFails, BootServed, Reboot, serverVars
<1>14. CASE BootEnds
  <2>1. (poll'.on /\ busy') \/ UNCHANGED <<poll, busy>>
    BY <1>14 DEF BootEnds
  <2> QED
    BY <1>14, <2>1, ServerKeepsRead DEF BootEnds, serverVars
<1>15. CASE Reload
  <2>1. /\ ~busy' /\ UNCHANGED <<job, jobStatus>>
        /\ \A q \in Streams : stream'[q].job = 0
    BY <1>15 DEF Reload, serverVars, NoStream
  <2> QED
    BY <2>1 DEF BusyIsRead
<1> QED
  BY <1>3, <1>4, <1>5, <1>6, <1>7, <1>8, <1>9, <1>10, <1>11, <1>12, <1>13, <1>14, <1>15
  DEF EventsNext, Answers

\* A chat the page shows as busy is never busy with nothing.
THEOREM BusyHasReader == EventsSpec => []BusyIsRead
<1>1. EventsInit => BusyIsRead
  BY DEF EventsInit, BusyIsRead, NoStream
<1>2. EventsInv => EventsTypeOK
  BY DEF EventsInv
<1> QED
  BY <1>1, <1>2, BusyStep, EventsInvariance, PTL DEF EventsSpec
=============================================================================
