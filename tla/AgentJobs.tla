----------------------------- MODULE AgentJobs -----------------------------
(***************************************************************************)
(* The agent jobs, chat histories and profile selections of an embedded    *)
(* workspace server: every trusted user has a runtime of its own (IdeRun-  *)
(* timeState), the connection profiles are shared.  What a job's turn does *)
(* is AgentTurn; here it runs until it returns, aborted or not.            *)
(*                                                                         *)
(* A history is the set of the jobs whose messages it holds; {} stands for *)
(* "no history".  A job's events, and what compaction drops from a         *)
(* history, are not modelled.                                              *)
(***************************************************************************)
EXTENDS Naturals, FiniteSets

CONSTANTS
    Users, Chats,
    DefaultChat,  \* the chat of a request that names none
    Jobs,         \* job ids; each is used once
    Profiles,     \* names of connection profiles
    Limit,        \* active jobs allowed on the server: 4
    None

ASSUME JobsAssumption ==
    /\ DefaultChat \in Chats
    /\ None \notin Jobs \cup Profiles \cup (Users \X Chats)
    /\ Limit \in Nat
    /\ Profiles # {}
    /\ IsFiniteSet(Users) /\ IsFiniteSet(Chats)

VARIABLES
    configured,   \* names in config.profiles
    fallback,     \* config.defaultProfile
    profile,      \* profile[u]: the profile the runtime of u has selected
    switching,    \* switching[u]: the profile a selection is about to set
    status,       \* status[j]: "unused", "running", "done" or "error"
    owner,        \* owner[j]: the user and the chat the job was started for
    base,         \* base[j]: the history its turn started from
    aborted,      \* aborted[j]: its controller has been aborted
    listed,       \* listed[u, c]: the job of agentJobs, or None
    history,      \* history[u, c]: agentHistories
    latest        \* latest[u]: agentHistory, the messages stored last

profileVars == <<configured, fallback, profile, switching>>
turnVars == <<status, owner, base, aborted>>
historyVars == <<history, latest>>
vars == <<configured, fallback, profile, switching, status, owner, base, aborted,
          listed, history, latest>>

Slots == Users \X Chats

TypeOK ==
    /\ configured \subseteq Profiles
    /\ fallback \in Profiles \cup {None}
    /\ profile \in [Users -> Profiles \cup {None}]
    /\ switching \in [Users -> Profiles \cup {None}]
    /\ status \in [Jobs -> {"unused", "running", "done", "error"}]
    /\ owner \in [Jobs -> Slots \cup {None}]
    /\ \A j \in Jobs : owner[j] = None <=> status[j] = "unused"
    /\ \A j \in Jobs : aborted[j] => owner[j] # None
    /\ base \in [Jobs -> SUBSET Jobs]
    /\ aborted \in [Jobs -> BOOLEAN]
    /\ listed \in [Slots -> Jobs \cup {None}]
    /\ history \in [Slots -> SUBSET Jobs]
    /\ latest \in [Users -> SUBSET Jobs]

Init ==
    /\ configured = Profiles
    /\ fallback \in Profiles
    /\ \E p \in Profiles : profile = [u \in Users |-> p]
    /\ switching = [u \in Users |-> None]
    /\ status = [j \in Jobs |-> "unused"]
    /\ owner = [j \in Jobs |-> None]
    /\ base = [j \in Jobs |-> {}]
    /\ aborted = [j \in Jobs |-> FALSE]
    /\ listed = [k \in Slots |-> None]
    /\ history = [k \in Slots |-> {}]
    /\ latest = [u \in Users |-> {}]

Running(j) == j # None /\ status[j] = "running"

-----------------------------------------------------------------------------
(* Jobs.                                                                   *)

\* Mutant: the history stored last is the server's, not the user's.
HistoryForShared(k) ==
    IF history[k] = {} /\ k[2] = DefaultChat THEN UNION {latest[u] : u \in Users}
    ELSE history[k]

\* agentHistoryFor: a request without a chat id falls back on whatever the
\* runtime stored last.
HistoryFor(k) ==
    IF history[k] = {} /\ k[2] = DefaultChat THEN latest[k[1]] ELSE history[k]

\* The jobs startAgentJob counts: the active ones in the lists of all users.
ActiveJobs == {k \in Slots : Running(listed[k])}

\* Mutant: every user has a limit of their own.
StartJobPerUser(k, j) ==
    /\ status[j] = "unused"
    /\ ~Running(listed[k])
    /\ Cardinality({h \in ActiveJobs : h[1] = k[1]}) < Limit
    /\ listed' = [listed EXCEPT ![k] = j]
    /\ status' = [status EXCEPT ![j] = "running"]
    /\ owner' = [owner EXCEPT ![j] = k]
    /\ base' = [base EXCEPT ![j] = HistoryFor(k)]
    /\ UNCHANGED <<profileVars, aborted, historyVars>>

\* POST /api/agent.  Jobs finished more than 15 minutes ago leave the list; a
\* chat has one job at a time and the server at most Limit.  The turn starts
\* at once, from the messages the browser sent, which are the user's own and
\* stand for no job, or else from the server's history.
StartJob(k, j) ==
    /\ status[j] = "unused"
    /\ ~Running(listed[k])
    /\ Cardinality(ActiveJobs) < Limit
    /\ \E old \in SUBSET {h \in Slots : h[1] = k[1] /\ listed[h] # None /\ ~Running(listed[h])} :
          listed' = [h \in Slots |-> IF h = k THEN j ELSE IF h \in old THEN None ELSE listed[h]]
    /\ status' = [status EXCEPT ![j] = "running"]
    /\ owner' = [owner EXCEPT ![j] = k]
    /\ \E messages \in {{}, HistoryFor(k)} : base' = [base EXCEPT ![j] = messages]
    /\ UNCHANGED <<profileVars, aborted, historyVars>>

\* The turn returns, whether it was stopped or not, and its messages become
\* the history of the chat.
Return(j) ==
    /\ status[j] = "running"
    /\ status' = [status EXCEPT ![j] = "done"]
    /\ history' = [history EXCEPT ![owner[j]] = base[j] \cup {j}]
    /\ latest' = [latest EXCEPT ![owner[j][1]] = base[j] \cup {j}]
    /\ UNCHANGED <<profileVars, owner, base, aborted, listed>>

\* The turn throws: no history is stored.
Fail(j) ==
    /\ status[j] = "running"
    /\ status' = [status EXCEPT ![j] = "error"]
    /\ UNCHANGED <<profileVars, owner, base, aborted, listed, historyVars>>

\* POST /api/agent/cancel.
Cancel(k) ==
    /\ Running(listed[k])
    /\ aborted' = [aborted EXCEPT ![listed[k]] = TRUE]
    /\ UNCHANGED <<profileVars, status, owner, base, listed, historyVars>>

\* Mutant: the job leaves the list but is not aborted.
ResetChatRunning(k) ==
    /\ history' = [history EXCEPT ![k] = {}]
    /\ latest' = IF \A h \in Slots : h[1] = k[1] => history'[h] = {}
                 THEN [latest EXCEPT ![k[1]] = {}] ELSE latest
    /\ listed' = [listed EXCEPT ![k] = None]
    /\ UNCHANGED <<profileVars, status, owner, base, aborted>>

\* POST /api/agent/reset for one chat.
ResetChat(k) ==
    /\ aborted' = [j \in Jobs |-> aborted[j] \/ j = listed[k]]
    /\ history' = [history EXCEPT ![k] = {}]
    /\ latest' = IF \A h \in Slots : h[1] = k[1] => history'[h] = {}
                 THEN [latest EXCEPT ![k[1]] = {}] ELSE latest
    /\ listed' = [listed EXCEPT ![k] = None]
    /\ UNCHANGED <<profileVars, status, owner, base>>

\* resetAgentHistory without a chat, for a set of users.
ResetRuntimes(us) ==
    /\ aborted' = [j \in Jobs |-> aborted[j] \/ \E k \in Slots : k[1] \in us /\ listed[k] = j]
    /\ listed' = [k \in Slots |-> IF k[1] \in us THEN None ELSE listed[k]]
    /\ history' = [k \in Slots |-> IF k[1] \in us THEN {} ELSE history[k]]
    /\ latest' = [u \in Users |-> IF u \in us THEN {} ELSE latest[u]]

\* POST /api/agent/reset without a chat id.
ResetAll(u) ==
    /\ ResetRuntimes({u})
    /\ UNCHANGED <<profileVars, status, owner, base>>

-----------------------------------------------------------------------------
(* Profiles.                                                               *)

\* POST /api/profile looks the profile up and selects it.  When another one
\* was selected, it waits in between for the terminal session of that one to
\* close (one such request per user at a time is a bound of the model), ...
BeginSelect(u, p) ==
    /\ switching[u] = None
    /\ p \in configured
    /\ IF profile[u] \in {None, p}
       THEN profile' = [profile EXCEPT ![u] = p] /\ UNCHANGED switching
       ELSE switching' = [switching EXCEPT ![u] = p] /\ UNCHANGED profile
    /\ UNCHANGED <<configured, fallback, turnVars, listed, historyVars>>

\* ... and then it is selected.
FinishSelect(u) ==
    /\ switching[u] # None
    /\ profile' = [profile EXCEPT ![u] = switching[u]]
    /\ switching' = [switching EXCEPT ![u] = None]
    /\ UNCHANGED <<configured, fallback, turnVars, listed, historyVars>>

\* invalidateProfileRuntimes
Invalidate(names, replacement) ==
    LET us == {u \in Users : profile[u] \in names} IN
    /\ ResetRuntimes(us)
    /\ profile' = [u \in Users |-> IF u \in us THEN replacement ELSE profile[u]]

\* PUT /api/profile/manage: edit (same name), rename or add.
EditProfile(previous, name) ==
    /\ configured' = (configured \ {previous}) \cup {name}
    /\ fallback' = IF fallback \in {previous, None} THEN name ELSE fallback
    /\ Invalidate({previous, name}, name)
    /\ UNCHANGED <<switching, status, owner, base>>

\* DELETE /api/profile/manage
RemoveProfile(p) ==
    /\ p \in configured
    /\ configured' = configured \ {p}
    /\ \/ fallback # p /\ UNCHANGED fallback
       \/ fallback = p /\ configured' = {} /\ fallback' = None
       \/ fallback = p /\ fallback' \in configured'
    /\ Invalidate({p}, fallback')
    /\ UNCHANGED <<switching, status, owner, base>>

-----------------------------------------------------------------------------
Next ==
    \/ \E k \in Slots : (\E j \in Jobs : StartJob(k, j)) \/ Cancel(k) \/ ResetChat(k)
    \/ \E j \in Jobs : Return(j) \/ Fail(j)
    \/ \E u \in Users : ResetAll(u) \/ FinishSelect(u) \/ \E p \in Profiles : BeginSelect(u, p)
    \/ \E p \in Profiles : RemoveProfile(p) \/ \E q \in Profiles : EditProfile(p, q)

Spec == Init /\ [][Next]_vars
-----------------------------------------------------------------------------
(* Properties.                                                             *)

\* The turns that run and have not been told to stop.
Live == {j \in Jobs : status[j] = "running" /\ ~aborted[j]}

\* A turn that has not been told to stop is in its user's list: it can be
\* seen, cancelled and given approvals, and no chat has two of them.
LiveJobsListed == \A j \in Live : listed[owner[j]] = j

\* "Customer-wide four-agent-job limit is preserved across users"
\* (docs/production-verification-2026-10-25.md): turns that have not been
\* told to stop; the aborted ones may still be returning.
LimitHolds == Cardinality(Live) <= Limit

\* The jobs of user u.
Own(u) == {j \in Jobs : owner[j] # None /\ owner[j][1] = u}

\* What one user's jobs saw never reaches another user's model, whatever
\* chat ids they use and however their jobs overlap.
UsersIsolated ==
    /\ \A j \in Jobs : owner[j] # None => base[j] \subseteq Own(owner[j][1])
    /\ \A k \in Slots : HistoryFor(k) \subseteq Own(k[1])
=============================================================================
