-------------------------- MODULE TerminalSessions --------------------------
(***************************************************************************)
(* The D3 terminal of one user of the workspace server: the map from       *)
(* profile names to D3 sessions, the requests that run a command on a      *)
(* session, reconnect it or select another profile, and the edits of the   *)
(* shared profiles by anyone, which close what depends on them.            *)
(*                                                                         *)
(* Every request may await the closing of sessions; other requests run in  *)
(* between.  A session has at most one child process; what a command and   *)
(* its child exchange is PersistentSession.  A session is named by the     *)
(* request that created it.  Another user has a map of its own.            *)
(***************************************************************************)
EXTENDS Naturals, FiniteSets

CONSTANTS
    Requests,   \* requests to the server, each used once
    Tabs,       \* browser tabs of the user
    Profiles,   \* names of connection profiles
    MaxEdits,   \* bound on the edits of profiles
    None

\* What a session is created with: a profile, the version of its definition,
\* and whether the request had to wait before it made the session (history).
Connections == [profile : Profiles, version : 0 .. MaxEdits, late : BOOLEAN]

ASSUME TerminalAssumption ==
    /\ None \notin Requests \cup Tabs \cup Profiles \cup Nat
    /\ MaxEdits \in Nat
    /\ None \notin Connections

VARIABLES
    definition,  \* definition[p]: version of the connection p names, or None
    edits,       \* edits of profiles so far; also the newest version
    selected,    \* IdeRuntimeState.profile
    sessions,    \* sessions[p]: terminalSessions, the session of p or None
    connection,  \* connection[s]: what s was created with, or None
    child,       \* child[s]: "none", "starting" (no prompt yet) or "ready"
    closing,     \* sessions whose close() has not returned
    transcript,  \* transcript[p]: versions whose output the transcript shows
    request,     \* request[r]: what r is, how far it is, what it holds
    down         \* the server has shut down

serverVars == <<definition, edits, selected, sessions, transcript>>
sessionVars == <<connection, child, closing>>
vars == <<definition, edits, selected, sessions, transcript, connection, child,
          closing, request, down>>

Kinds == {"unused", "send", "reset", "select"}
Steps == {"idle", "making", "running", "ending", "done"}
Request(kind, step, tab, profile, version, session, awaited) ==
    [kind |-> kind, step |-> step, tab |-> tab, profile |-> profile,
     version |-> version, session |-> session, awaited |-> awaited]

RequestStates ==
    [kind : Kinds, step : Steps, tab : Tabs \cup {None}, profile : Profiles \cup {None},
     version : 0 .. MaxEdits \cup {None}, session : Requests \cup {None},
     awaited : SUBSET Requests]

Answered == Request("unused", "done", None, None, None, None, {})

TypeOK ==
    /\ definition \in [Profiles -> 0 .. MaxEdits \cup {None}]
    /\ edits \in 0 .. MaxEdits
    /\ selected \in Profiles \cup {None}
    /\ sessions \in [Profiles -> Requests \cup {None}]
    /\ connection \in [Requests -> Connections \cup {None}]
    /\ child \in [Requests -> {"none", "starting", "ready"}]
    /\ closing \subseteq Requests
    /\ transcript \in [Profiles -> SUBSET (0 .. MaxEdits)]
    /\ request \in [Requests -> RequestStates]
    /\ down \in BOOLEAN

Init ==
    /\ definition = [p \in Profiles |-> 0]
    /\ edits = 0
    /\ selected \in Profiles
    /\ sessions = [p \in Profiles |-> None]
    /\ connection = [s \in Requests |-> None]
    /\ child = [s \in Requests |-> "none"]
    /\ closing = {}
    /\ transcript = [p \in Profiles |-> {}]
    /\ request = [r \in Requests |->
                    Request("unused", "idle", None, None, None, None, {})]
    /\ down = FALSE

-----------------------------------------------------------------------------
(* Sessions *)

\* The sessions in S whose close() takes time; without a child it returns at once.
Awaits(S) == {s \in S \ {None} : child[s] # "none"}
Close(S) == closing' = closing \cup Awaits(S)

\* Mutant: the session is closed, its child is not killed.
CloseReturnsAlive(s) ==
    /\ s \in closing
    /\ closing' = closing \ {s}
    /\ UNCHANGED <<child, connection, request, down>> /\ UNCHANGED serverVars

\* The delays of close() are over: OFF is written, the child is killed.
CloseReturns(s) ==
    /\ s \in closing
    /\ closing' = closing \ {s}
    /\ child' = [child EXCEPT ![s] = "none"]
    /\ UNCHANGED <<connection, request, down>> /\ UNCHANGED serverVars

\* The child of a session exits by itself: OFF was typed or answered, or the
\* connection was lost.
ChildExits(s) ==
    /\ child[s] # "none"
    /\ child' = [child EXCEPT ![s] = "none"]
    /\ UNCHANGED <<connection, closing, request, down>> /\ UNCHANGED serverVars

\* The prompt of D3 shows after the logon.
ShowPrompt(s) ==
    /\ child[s] = "starting"
    /\ child' = [child EXCEPT ![s] = "ready"]
    /\ UNCHANGED <<connection, closing, request, down>> /\ UNCHANGED serverVars

\* start(): session s gets a child unless it has one.
Started(s) ==
    child' = [child EXCEPT ![s] = IF @ = "none" THEN "starting" ELSE @]

-----------------------------------------------------------------------------
(* Requests *)

InFlight(r) == request[r].step \in {"making", "running", "ending"}

\* A tab sends no command and reconnects no terminal while it waits for an
\* answer to one (terminalBusy); selecting a profile does not wait.
TabFree(t) ==
    \A r \in Requests :
        request[r].tab = t /\ request[r].kind \in {"send", "reset"} => ~InFlight(r)

Fresh(r) == ~down /\ request[r].step = "idle"
Usable(p) == p # None /\ definition[p] # None

\* runTerminalCommand with a session in the map: it runs the command.
SendOnSession(r, t) ==
    /\ Fresh(r) /\ TabFree(t) /\ Usable(selected)
    /\ sessions[selected] # None
    /\ request' = [request EXCEPT ![r] =
           Request("send", "running", t, selected, definition[selected],
                   sessions[selected], {})]
    /\ Started(sessions[selected])
    /\ UNCHANGED <<connection, closing, down>> /\ UNCHANGED serverVars

\* createD3Session, sessions.set and the start of run().
Make(r, p, v, late) ==
    /\ connection' = [connection EXCEPT
                         ![r] = [profile |-> p, version |-> v, late |-> late]]
    /\ Started(r)

\* runTerminalCommand without one: the sessions of the other profiles leave
\* the map and are closed.  If none has a child the new one is made at once.
Stale == {sessions[p] : p \in Profiles} \ {None}

SendOnNew(r, t) ==
    /\ Fresh(r) /\ TabFree(t) /\ Usable(selected)
    /\ sessions[selected] = None /\ Awaits(Stale) = {}
    /\ request' = [request EXCEPT ![r] =
           Request("send", "running", t, selected, definition[selected], r, {})]
    /\ Make(r, selected, definition[selected], FALSE)
    /\ sessions' = [p \in Profiles |-> IF p = selected THEN r ELSE None]
    /\ UNCHANGED <<definition, edits, selected, transcript, closing, down>>

SendAfterStale(r, t) ==
    /\ Fresh(r) /\ TabFree(t) /\ Usable(selected)
    /\ sessions[selected] = None /\ Awaits(Stale) # {}
    /\ request' = [request EXCEPT ![r] =
           Request("send", "making", t, selected, definition[selected],
                   None, Awaits(Stale))]
    /\ sessions' = [p \in Profiles |-> None]
    /\ Close(Stale)
    /\ UNCHANGED <<definition, edits, selected, transcript, connection, child, down>>

\* They are closed: the session is made from the profile object read before.
StaleClosed(r) ==
    /\ request[r].step = "making"
    /\ request[r].awaited \cap closing = {}
    /\ request' = [request EXCEPT ![r].step = "running", ![r].session = r]
    /\ Make(r, request[r].profile, request[r].version, TRUE)
    /\ sessions' = [sessions EXCEPT ![request[r].profile] = r]
    /\ UNCHANGED <<definition, edits, selected, transcript, closing, down>>

\* run() returns: the output goes to the transcript of the profile's name.
RunAnswers(r) ==
    LET s == request[r].session IN
    /\ request[r].step = "running"
    /\ child[s] = "ready"
    /\ transcript' = [transcript EXCEPT
           ![request[r].profile] = @ \cup {connection[s].version}]
    /\ request' = [request EXCEPT ![r] = Answered]
    /\ UNCHANGED <<definition, edits, selected, sessions, down>>
    /\ UNCHANGED sessionVars

\* run() throws: the child is gone, or its prompt did not show in time.
\* Whatever session the map has under the name leaves it.
RunFails(r) ==
    LET s == request[r].session IN
    /\ request[r].step = "running"
    /\ child[s] # "ready"
    /\ sessions' = [sessions EXCEPT ![request[r].profile] = None]
    /\ Close({s})
    /\ request' = [request EXCEPT ![r].step = "ending", ![r].awaited = Awaits({s})]
    /\ UNCHANGED <<definition, edits, selected, transcript, connection, child, down>>

\* Mutant: the session leaves the map and is not closed.
ResetDropping(r, t) ==
    /\ Fresh(r) /\ TabFree(t) /\ Usable(selected)
    /\ transcript' = [transcript EXCEPT ![selected] = {}]
    /\ sessions' = [sessions EXCEPT ![selected] = None]
    /\ request' = [request EXCEPT ![r] = Answered]
    /\ UNCHANGED <<definition, edits, selected, connection, child, closing, down>>

\* POST /api/terminal/reset: clears the transcript, closes the session.
Reset(r, t) ==
    /\ Fresh(r) /\ TabFree(t) /\ Usable(selected)
    /\ transcript' = [transcript EXCEPT ![selected] = {}]
    /\ sessions' = [sessions EXCEPT ![selected] = None]
    /\ Close({sessions[selected]})
    /\ request' = [request EXCEPT ![r] =
           Request("reset", "ending", t, selected, definition[selected],
                   None, Awaits({sessions[selected]}))]
    /\ UNCHANGED <<definition, edits, selected, connection, child, down>>

\* POST /api/terminal/clear
Clear ==
    /\ ~down /\ selected # None /\ transcript[selected] # {}
    /\ transcript' = [transcript EXCEPT ![selected] = {}]
    /\ UNCHANGED <<definition, edits, selected, sessions, request, down>>
    /\ UNCHANGED sessionVars

\* POST /api/profile: the terminal of the old selection is closed first.
Select(r, p) ==
    /\ Fresh(r) /\ Usable(p) /\ selected # p /\ selected # None
    /\ sessions' = [sessions EXCEPT ![selected] = None]
    /\ Close({sessions[selected]})
    /\ request' = [request EXCEPT ![r] =
           Request("select", "ending", None, p, None, None,
                   Awaits({sessions[selected]}))]
    /\ UNCHANGED <<definition, edits, selected, transcript, connection, child, down>>

\* The sessions a request awaits are closed: it answers.
Answer(r) ==
    /\ request[r].step = "ending"
    /\ request[r].awaited \cap closing = {}
    /\ request' = [request EXCEPT ![r] = Answered]
    /\ selected' = IF request[r].kind = "select" THEN request[r].profile ELSE selected
    /\ UNCHANGED <<definition, edits, sessions, transcript, down>>
    /\ UNCHANGED sessionVars

-----------------------------------------------------------------------------
(* Profiles and shutdown *)

\* Mutant: the session of a name that stays is kept.
InvalidateOthers(names, replacement) ==
    LET gone == names \ {replacement} IN
    /\ selected' = IF selected \in names THEN replacement ELSE selected
    /\ transcript' = [p \in Profiles |-> IF p \in names THEN {} ELSE transcript[p]]
    /\ sessions' = [p \in Profiles |-> IF p \in gone THEN None ELSE sessions[p]]
    /\ Close({sessions[p] : p \in gone})

\* invalidateProfileRuntimes for the runtime of this user.
Invalidate(names, replacement) ==
    /\ selected' = IF selected \in names THEN replacement ELSE selected
    /\ transcript' = [p \in Profiles |-> IF p \in names THEN {} ELSE transcript[p]]
    /\ sessions' = [p \in Profiles |-> IF p \in names THEN None ELSE sessions[p]]
    /\ Close({sessions[p] : p \in names})

\* PUT /api/profile/manage: p gets another connection, and the name q.
EditProfile(p, q) ==
    /\ ~down /\ edits < MaxEdits /\ definition[p] # None
    /\ edits' = edits + 1
    /\ definition' = [definition EXCEPT ![p] = None, ![q] = edits + 1]
    /\ Invalidate({p, q}, q)
    /\ UNCHANGED <<connection, child, request, down>>

\* DELETE /api/profile/manage; replacement is config.defaultProfile.
RemoveProfile(p, replacement) ==
    /\ ~down /\ definition[p] # None
    /\ replacement # p
    /\ IF replacement = None THEN \A q \in Profiles \ {p} : definition[q] = None
                             ELSE definition[replacement] # None
    /\ definition' = [definition EXCEPT ![p] = None]
    /\ Invalidate({p}, replacement)
    /\ UNCHANGED <<edits, connection, child, request, down>>

\* close() of the server: closeAllTerminalSessions, then no request is taken.
Shutdown ==
    /\ ~down
    /\ down' = TRUE
    /\ sessions' = [p \in Profiles |-> None]
    /\ Close({sessions[p] : p \in Profiles})
    /\ UNCHANGED <<definition, edits, selected, transcript, connection, child, request>>

-----------------------------------------------------------------------------
SendSteps(r) ==
    \/ \E t \in Tabs : SendOnSession(r, t) \/ SendAfterStale(r, t) \/ SendOnNew(r, t)
    \/ StaleClosed(r) \/ RunAnswers(r) \/ RunFails(r)

Next ==
    \/ \E s \in Requests : CloseReturns(s) \/ ChildExits(s) \/ ShowPrompt(s)
    \/ \E r \in Requests : SendSteps(r) \/ Answer(r)
    \/ \E r \in Requests, t \in Tabs : Reset(r, t)
    \/ \E r \in Requests, p \in Profiles : Select(r, p)
    \/ \E p, q \in Profiles : EditProfile(p, q)
    \/ \E p \in Profiles, q \in Profiles \cup {None} : RemoveProfile(p, q)
    \/ Clear \/ Shutdown

\* Timers of close() fire, awaits resume, and run() polls every 10 ms and has
\* a timer for the first prompt.  D3 owes no answer, and no child has to exit.
Fairness ==
    \A r \in Requests :
        /\ WF_vars(CloseReturns(r)) /\ WF_vars(StaleClosed(r))
        /\ WF_vars(Answer(r)) /\ WF_vars(RunFails(r))

Spec == Init /\ [][Next]_vars /\ Fairness

-----------------------------------------------------------------------------
(* Properties *)

Up(s) == child[s] # "none"
Held(s) == \E p \in Profiles : sessions[p] = s

\* No D3 logon of a user with one tab is lost: a child process that no close is
\* ending belongs to a session the map still holds, where the next command,
\* reconnect, selection, edit or shutdown finds it (runTerminalCommand awaits
\* between reading and writing the map, and deletes by name when it fails).
\* Two tabs do lose one: each may delete, or set, the other's entry.
NoOrphans == \A s \in Requests : Up(s) => Held(s) \/ s \in closing

\* An edit, rename or removal of a profile closes its sessions: a session the
\* map holds under a name was made for that name, and from the connection
\* that name has now, unless the edit overtook the request that made it.
EditClosesSessions ==
    \A p \in Profiles :
        sessions[p] # None =>
            /\ connection[sessions[p]].profile = p
            /\ \/ connection[sessions[p]].version = definition[p]
               \/ connection[sessions[p]].late

\* A reconnect frees a terminal whose command hangs: closing a session ends
\* every request that waits for it, and every reset and selection is answered.
ReconnectFrees ==
    \A r \in Requests :
        (request[r].session \in closing \/ request[r].step = "ending")
            ~> request[r].step = "done"
=============================================================================
