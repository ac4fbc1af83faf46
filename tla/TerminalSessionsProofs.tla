------------------------ MODULE TerminalSessionsProofs ------------------------
(***************************************************************************)
(* Proofs about TerminalSessions, for any number of requests, profiles and *)
(* edits: the types; for any number of tabs, that an edit of a profile     *)
(* closes its sessions, and how alone a session gets out of reach; and for *)
(* a user of one tab, that none does.  Two tabs of a user can lose one.    *)
(***************************************************************************)
EXTENDS TerminalSessions, TLAPS

\* What a request has made or read goes with how far it is.
RequestMade(r) ==
    /\ request[r].step \in {"idle", "making"} => connection[r] = None
    /\ request[r].step \in {"making", "running"} =>
          /\ request[r].kind = "send" /\ request[r].profile \in Profiles
          /\ request[r].version \in 0 .. MaxEdits
    /\ request[r].step = "running" =>
          request[r].session \in Requests /\ connection[request[r].session] # None

\* A session has a connection from the moment it is made, and a request makes
\* at most one.
MadeOnce ==
    /\ \A p \in Profiles : sessions[p] # None => connection[sessions[p]] # None
    /\ \A r \in Requests : RequestMade(r)

\* The invariant that is inductive for any number of tabs.
Inv == TypeOK /\ MadeOnce /\ EditClosesSessions

\* A request that occupies the terminal of its tab (terminalBusy).
Busy(r) == request[r].kind \in {"send", "reset"} /\ InFlight(r)

OneTab == \A t, u \in Tabs : t = u

\* What one tab adds: one request occupies the terminal, nobody fills the map
\* while it waits for stale sessions to close, nobody replaces the session it
\* runs on, and a session with a child is in the map or being closed.
OneTabInv ==
    /\ \A r \in Requests : Busy(r) => request[r].tab \in Tabs
    /\ \A r, q \in Requests : Busy(r) /\ Busy(q) => r = q
    /\ \A r \in Requests : request[r].step = "making" => \A p \in Profiles : sessions[p] = None
    /\ \A r \in Requests : request[r].step = "running" =>
          sessions[request[r].profile] \in {None, request[r].session}
    /\ NoOrphans

-----------------------------------------------------------------------------
(* For any number of tabs.                                                 *)

\* None is not the name of anything.
LEMMA NoneIsNothing == None \notin Requests /\ None \notin Tabs /\ None \notin Profiles /\ None \notin Nat
BY TerminalAssumption

\* What a session is made with is not None.
LEMMA MadeOfSomething ==
    ASSUME NEW p \in Profiles, NEW v \in 0 .. MaxEdits, NEW late \in BOOLEAN
    PROVE  [profile |-> p, version |-> v, late |-> late] # None
BY TerminalAssumption DEF Connections

\* Initially there are neither sessions nor requests.
LEMMA InitInv == Init => Inv
<1> SUFFICES ASSUME Init PROVE Inv
  OBVIOUS
<1>1. TypeOK
  <2>1. Request("unused", "idle", None, None, None, None, {}) \in RequestStates
    BY DEF Request, RequestStates, Kinds, Steps
  <2>2. request \in [Requests -> RequestStates]
    BY <2>1 DEF Init
  <2>3. 0 \in 0 .. MaxEdits
    BY TerminalAssumption
  <2> QED
    BY <2>2, <2>3 DEF Init, TypeOK
<1>2. MadeOnce
  BY DEF Init, MadeOnce, RequestMade, Request
<1>3. EditClosesSessions
  BY DEF Init, EditClosesSessions
<1> QED
  BY <1>1, <1>2, <1>3 DEF Inv

\* A step that makes no session, and changes no definition under a session it
\* leaves in the map, keeps Inv.
LEMMA KeepsSessions ==
    ASSUME Inv, TypeOK', connection' = connection,
           \A p \in Profiles : sessions'[p] # None =>
               sessions'[p] = sessions[p] /\ definition'[p] = definition[p],
           \A r \in Requests : request'[r] = request[r] \/ RequestMade(r)'
    PROVE  Inv'
<1>1. \A r \in Requests : RequestMade(r)'
  BY DEF Inv, MadeOnce, RequestMade
<1>2. MadeOnce'
  BY <1>1 DEF Inv, MadeOnce
<1>3. EditClosesSessions'
  BY DEF Inv, EditClosesSessions
<1> QED
  BY <1>2, <1>3 DEF Inv

\* A step that makes session r for profile p, in a map that has no other
\* session under that name afterwards, keeps Inv.
LEMMA MakesSession ==
    ASSUME Inv, TypeOK', NEW r \in Requests, NEW p \in Profiles,
           NEW v \in 0 .. MaxEdits, NEW late \in BOOLEAN,
           connection[r] = None,
           connection' = [connection EXCEPT ![r] = [profile |-> p, version |-> v, late |-> late]],
           definition' = definition, late = TRUE \/ v = definition[p],
           sessions'[p] = r,
           \A q \in Profiles : q # p => sessions'[q] \in {sessions[q], None},
           \A q \in Requests : q # r => request'[q] = request[q],
           request'[r].step = "running", request'[r].session = r,
           request'[r].kind = "send", request'[r].profile = p, request'[r].version = v
    PROVE  Inv'
<1>1. /\ connection'[r] = [profile |-> p, version |-> v, late |-> late]
      /\ \A s \in Requests : s # r => connection'[s] = connection[s]
  BY DEF Inv, TypeOK
<1>2. connection'[r] # None
  BY <1>1, TerminalAssumption DEF Connections
<1>3. \A q \in Profiles : sessions[q] # r
  BY NoneIsNothing DEF Inv, MadeOnce
<1>4. \A q \in Profiles : q # p /\ sessions'[q] # None =>
        /\ sessions'[q] = sessions[q] /\ sessions[q] \in Requests
        /\ connection'[sessions'[q]] = connection[sessions[q]]
  BY <1>1, <1>3 DEF Inv, TypeOK
<1>5. \A q \in Requests : q # r => RequestMade(q)'
  <2> SUFFICES ASSUME NEW q \in Requests, q # r PROVE RequestMade(q)'
    OBVIOUS
  <2>1. request'[q] = request[q] /\ RequestMade(q) /\ connection'[q] = connection[q]
    BY <1>1 DEF Inv, MadeOnce
  <2>2. request[q].step = "running" => connection'[request[q].session] # None
    BY <2>1, <1>1, <1>2 DEF RequestMade
  <2> QED
    BY <2>1, <2>2 DEF RequestMade
<1>6. RequestMade(r)'
  BY <1>2 DEF RequestMade
<1>7. MadeOnce'
  BY <1>2, <1>4, <1>5, <1>6 DEF Inv, MadeOnce
<1>8. EditClosesSessions'
  <2>1. connection'[r].profile = p /\ (connection'[r].version = definition'[p] \/ connection'[r].late)
    BY <1>1
  <2> QED
    BY <2>1, <1>4 DEF Inv, EditClosesSessions
<1> QED
  BY <1>7, <1>8 DEF Inv

\* The sessions a step starts to close are sessions of the map.
LEMMA ClosingType ==
    ASSUME TypeOK, NEW S, S \subseteq Requests \cup {None}
    PROVE  Awaits(S) \subseteq Requests /\ (Close(S) => closing' \subseteq Requests)
BY DEF Awaits, Close, TypeOK

\* The maps of the server are functions on the profiles.
LEMMA MapTypes ==
    ASSUME TypeOK
    PROVE  /\ \A p \in Profiles : sessions[p] \in Requests \cup {None}
           /\ Stale \subseteq Requests
           /\ \A p \in Profiles : definition[p] \in 0 .. MaxEdits \cup {None}
BY DEF TypeOK, Stale

\* Steps of a session's child and of close() keep Inv.
LEMMA SessionStepInv ==
    ASSUME Inv, NEW s \in Requests, CloseReturns(s) \/ ChildExits(s) \/ ShowPrompt(s)
    PROVE  Inv'
<1>1. UNCHANGED <<definition, edits, selected, sessions, transcript, connection, request, down>>
  BY DEF CloseReturns, ChildExits, ShowPrompt, serverVars
<1>2. child' \in [Requests -> {"none", "starting", "ready"}] /\ closing' \subseteq Requests
  BY DEF CloseReturns, ChildExits, ShowPrompt, Inv, TypeOK
<1>3. TypeOK'
  BY <1>1, <1>2 DEF Inv, TypeOK
<1> QED
  BY <1>1, <1>3, KeepsSessions

\* A command on a session of the map keeps Inv.
LEMMA SendOnSessionInv ==
    ASSUME Inv, NEW r \in Requests, NEW t \in Tabs, SendOnSession(r, t) PROVE Inv'
<1> DEFINE s == sessions[selected]
<1>1. selected \in Profiles /\ s \in Requests /\ definition[selected] \in 0 .. MaxEdits
  BY MapTypes DEF SendOnSession, Usable, Inv, TypeOK
<1>2. request' = [request EXCEPT ![r] =
          Request("send", "running", t, selected, definition[selected], s, {})]
  BY DEF SendOnSession
<1>3. UNCHANGED <<definition, edits, selected, sessions, transcript, connection, closing, down>>
  BY DEF SendOnSession, serverVars
<1>4. Request("send", "running", t, selected, definition[selected], s, {}) \in RequestStates
  BY <1>1 DEF Request, RequestStates, Kinds, Steps
<1>5. child' \in [Requests -> {"none", "starting", "ready"}]
  BY DEF SendOnSession, Started, Inv, TypeOK
<1>6. TypeOK'
  BY <1>2, <1>3, <1>4, <1>5 DEF Inv, TypeOK
<1>7. RequestMade(r)'
  <2>1. request'[r] = Request("send", "running", t, selected, definition[selected], s, {})
    BY <1>2 DEF Inv, TypeOK
  <2>2. connection'[s] # None
    BY <1>1, <1>3, NoneIsNothing DEF Inv, MadeOnce
  <2> QED
    BY <2>1, <2>2, <1>1 DEF RequestMade, Request
<1>8. \A q \in Requests : q # r => request'[q] = request[q]
  BY <1>2 DEF Inv, TypeOK
<1> QED
  BY <1>3, <1>6, <1>7, <1>8, KeepsSessions

\* A command that makes its session keeps Inv.
LEMMA SendOnNewInv ==
    ASSUME Inv, NEW r \in Requests, NEW t \in Tabs, SendOnNew(r, t) PROVE Inv'
<1> DEFINE v == definition[selected]
<1>1. selected \in Profiles /\ v \in 0 .. MaxEdits
  BY MapTypes DEF SendOnNew, Usable, Inv, TypeOK
<1>2. request' = [request EXCEPT ![r] = Request("send", "running", t, selected, v, r, {})]
  BY DEF SendOnNew
<1>3. /\ connection' = [connection EXCEPT
                           ![r] = [profile |-> selected, version |-> v, late |-> FALSE]]
      /\ sessions' = [p \in Profiles |-> IF p = selected THEN r ELSE None]
      /\ UNCHANGED <<definition, edits, selected, transcript, closing, down>>
  BY DEF SendOnNew, Make
<1>4. Request("send", "running", t, selected, v, r, {}) \in RequestStates
  BY <1>1 DEF Request, RequestStates, Kinds, Steps
<1>5. child' \in [Requests -> {"none", "starting", "ready"}]
  BY DEF SendOnNew, Make, Started, Inv, TypeOK
<1>6. TypeOK'
  <2>1. [profile |-> selected, version |-> v, late |-> FALSE] \in Connections
    BY <1>1 DEF Connections
  <2>2. connection' \in [Requests -> Connections \cup {None}]
    BY <2>1, <1>3 DEF Inv, TypeOK
  <2>3. request' \in [Requests -> RequestStates]
    BY <1>2, <1>4 DEF Inv, TypeOK
  <2>4. sessions' \in [Profiles -> Requests \cup {None}]
    BY <1>3
  <2> QED
    BY <1>3, <1>5, <2>2, <2>3, <2>4 DEF Inv, TypeOK
<1>7. connection[r] = None
  BY DEF SendOnNew, Fresh, Inv, MadeOnce, RequestMade
<1>8. request'[r] = Request("send", "running", t, selected, v, r, {})
  BY <1>2 DEF Inv, TypeOK
<1>9. \A q \in Requests : q # r => request'[q] = request[q]
  BY <1>2 DEF Inv, TypeOK
<1>10. \A q \in Profiles : sessions'[q] = IF q = selected THEN r ELSE None
  BY <1>3
<1> HIDE DEF v
<1>11. /\ request'[r].step = "running" /\ request'[r].session = r
       /\ request'[r].kind = "send" /\ request'[r].profile = selected /\ request'[r].version = v
  BY <1>8 DEF Request
<1> QED
  BY <1>1, <1>3, <1>6, <1>7, <1>9, <1>10, <1>11, MakesSession DEF v

\* A session made after the stale ones are closed keeps Inv: it is late.
LEMMA StaleClosedInv == ASSUME Inv, NEW r \in Requests, StaleClosed(r) PROVE Inv'
<1> DEFINE p == request[r].profile
           v == request[r].version
<1>1. /\ request[r].step = "making" /\ request[r].kind = "send"
      /\ p \in Profiles /\ v \in 0 .. MaxEdits /\ connection[r] = None
      /\ request[r] \in RequestStates
  BY DEF StaleClosed, Inv, TypeOK, MadeOnce, RequestMade
<1>2. request' = [request EXCEPT ![r].step = "running", ![r].session = r]
  BY DEF StaleClosed
<1>3. /\ connection' = [connection EXCEPT ![r] = [profile |-> p, version |-> v, late |-> TRUE]]
      /\ sessions' = [sessions EXCEPT ![p] = r]
      /\ UNCHANGED <<definition, edits, selected, transcript, closing, down>>
  BY DEF StaleClosed, Make
<1>4. child' \in [Requests -> {"none", "starting", "ready"}]
  BY DEF StaleClosed, Make, Started, Inv, TypeOK
<1>5. /\ request'[r] = [request[r] EXCEPT !.step = "running", !.session = r]
      /\ \A q \in Requests : q # r => request'[q] = request[q]
  BY <1>2 DEF Inv, TypeOK
<1>6. /\ request'[r].step = "running" /\ request'[r].session = r /\ request'[r].kind = "send"
      /\ request'[r].profile = p /\ request'[r].version = v
      /\ request'[r] \in RequestStates
  BY <1>1, <1>5 DEF RequestStates, Steps
<1>7. TypeOK'
  <2>1. [profile |-> p, version |-> v, late |-> TRUE] \in Connections
    BY <1>1 DEF Connections
  <2>2. connection' \in [Requests -> Connections \cup {None}]
    BY <2>1, <1>3 DEF Inv, TypeOK
  <2>3. request' \in [Requests -> RequestStates]
    BY <1>2, <1>5, <1>6 DEF Inv, TypeOK
  <2>4. sessions' \in [Profiles -> Requests \cup {None}]
    BY <1>1, <1>3 DEF Inv, TypeOK
  <2> QED
    BY <1>3, <1>4, <2>2, <2>3, <2>4 DEF Inv, TypeOK
<1>8. sessions'[p] = r /\ \A q \in Profiles : q # p => sessions'[q] = sessions[q]
  BY <1>1, <1>3 DEF Inv, TypeOK
<1>9. definition' = definition
  BY <1>3
<1>10. \A q \in Profiles : q # p => sessions'[q] \in {sessions[q], None}
  BY <1>8
<1> HIDE DEF p, v
<1>11. connection' = [connection EXCEPT ![r] = [profile |-> p, version |-> v, late |-> TRUE]]
  BY <1>3
<1> QED
  BY <1>1, <1>11, <1>5, <1>6, <1>7, <1>8, <1>9, <1>10, MakesSession, Zenon

\* A command that has to wait for stale sessions to close keeps Inv.
LEMMA SendAfterStaleInv ==
    ASSUME Inv, NEW r \in Requests, NEW t \in Tabs, SendAfterStale(r, t) PROVE Inv'
<1> DEFINE new == Request("send", "making", t, selected, definition[selected], None, Awaits(Stale))
<1>1. selected \in Profiles /\ definition[selected] \in 0 .. MaxEdits
  BY MapTypes DEF SendAfterStale, Usable, Inv, TypeOK
<1>2. Awaits(Stale) \subseteq Requests /\ closing' \subseteq Requests
  BY MapTypes, ClosingType DEF SendAfterStale, Inv
<1>3. /\ request' = [request EXCEPT ![r] = new]
      /\ sessions' = [p \in Profiles |-> None]
      /\ UNCHANGED <<definition, edits, selected, transcript, connection, child, down>>
  BY DEF SendAfterStale
<1>4. new \in RequestStates
  BY <1>1, <1>2 DEF Request, RequestStates, Kinds, Steps
<1>5. TypeOK'
  BY <1>2, <1>3, <1>4 DEF Inv, TypeOK
<1>6. request'[r] = new /\ \A q \in Requests : q # r => request'[q] = request[q]
  BY <1>3 DEF Inv, TypeOK
<1>7. RequestMade(r)'
  <2>1. connection'[r] = None
    BY <1>3 DEF SendAfterStale, Fresh, Inv, MadeOnce, RequestMade
  <2> QED
    BY <2>1, <1>1, <1>6 DEF RequestMade, Request
<1>8. \A p \in Profiles : sessions'[p] = None
  BY <1>3
<1> QED
  BY <1>3, <1>5, <1>6, <1>7, <1>8, KeepsSessions

\* The answer to a request keeps Inv.
LEMMA AnsweredInv ==
    ASSUME Inv, NEW r \in Requests, request' = [request EXCEPT ![r] = Answered],
           UNCHANGED <<definition, edits, sessions, down, connection, child, closing>>,
           selected' \in Profiles \cup {None},
           transcript' \in [Profiles -> SUBSET (0 .. MaxEdits)]
    PROVE  Inv'
<1>1. Answered \in RequestStates
  BY DEF Answered, Request, RequestStates, Kinds, Steps
<1>2. TypeOK'
  BY <1>1 DEF Inv, TypeOK
<1>3. request'[r] = Answered /\ \A q \in Requests : q # r => request'[q] = request[q]
  BY DEF Inv, TypeOK
<1>4. RequestMade(r)'
  BY <1>3 DEF RequestMade, Answered, Request
<1> QED
  BY <1>2, <1>3, <1>4, KeepsSessions

\* The output of a command goes to the transcript of its profile.
LEMMA RunAnswersInv == ASSUME Inv, NEW r \in Requests, RunAnswers(r) PROVE Inv'
<1> DEFINE s == request[r].session
<1>1. request[r].profile \in Profiles /\ s \in Requests /\ connection[s] # None
  BY DEF RunAnswers, Inv, MadeOnce, RequestMade
<1>2. connection[s].version \in 0 .. MaxEdits
  BY <1>1 DEF Inv, TypeOK, Connections
<1>3. transcript' \in [Profiles -> SUBSET (0 .. MaxEdits)]
  BY <1>1, <1>2 DEF RunAnswers, Inv, TypeOK
<1>4. /\ UNCHANGED <<definition, edits, sessions, down, connection, child, closing, selected>>
      /\ request' = [request EXCEPT ![r] = Answered]
  BY DEF RunAnswers, sessionVars
<1> QED
  BY <1>3, <1>4, AnsweredInv DEF Inv, TypeOK

\* A request whose sessions are closed answers.
LEMMA AnswerInv == ASSUME Inv, NEW r \in Requests, Answer(r) PROVE Inv'
<1>1. selected' \in Profiles \cup {None}
  BY DEF Answer, Inv, TypeOK, RequestStates
<1>2. /\ UNCHANGED <<definition, edits, sessions, down, connection, child, closing, transcript>>
      /\ request' = [request EXCEPT ![r] = Answered]
  BY DEF Answer, sessionVars
<1> QED
  BY <1>1, <1>2, AnsweredInv DEF Inv, TypeOK

\* A request that takes a session out of the map and waits for its end keeps
\* Inv.
LEMMA EndingInv ==
    ASSUME Inv, NEW r \in Requests, NEW p \in Profiles, NEW S, S \subseteq Requests \cup {None},
           Close(S), sessions' = [sessions EXCEPT ![p] = None],
           request'[r].step = "ending", request' \in [Requests -> RequestStates],
           \A q \in Requests : q # r => request'[q] = request[q],
           transcript' \in [Profiles -> SUBSET (0 .. MaxEdits)],
           UNCHANGED <<definition, edits, selected, connection, child, down>>
    PROVE  Inv'
<1>1. closing' \subseteq Requests
  BY ClosingType DEF Inv
<1>2. TypeOK'
  BY <1>1 DEF Inv, TypeOK
<1>3. \A q \in Profiles : sessions'[q] = IF q = p THEN None ELSE sessions[q]
  BY DEF Inv, TypeOK
<1>4. RequestMade(r)'
  BY DEF RequestMade
<1> QED
  BY <1>2, <1>3, <1>4, KeepsSessions

\* A command that failed keeps Inv.
LEMMA RunFailsInv == ASSUME Inv, NEW r \in Requests, RunFails(r) PROVE Inv'
<1> DEFINE s == request[r].session
<1>1. request[r].profile \in Profiles /\ {s} \subseteq Requests \cup {None} /\ request[r] \in RequestStates
  BY DEF RunFails, Inv, TypeOK, MadeOnce, RequestMade
<1>2. Awaits({s}) \subseteq Requests
  BY <1>1, ClosingType DEF Inv
<1>3. /\ request' = [request EXCEPT ![r].step = "ending", ![r].awaited = Awaits({s})]
      /\ Close({s}) /\ sessions' = [sessions EXCEPT ![request[r].profile] = None]
      /\ UNCHANGED <<definition, edits, selected, transcript, connection, child, down>>
  BY DEF RunFails
<1>4. /\ request'[r] = [request[r] EXCEPT !.step = "ending", !.awaited = Awaits({s})]
      /\ \A q \in Requests : q # r => request'[q] = request[q]
  BY <1>3 DEF Inv, TypeOK
<1>5. request'[r].step = "ending" /\ request'[r] \in RequestStates
  BY <1>1, <1>2, <1>4 DEF RequestStates, Steps
<1>6. request' \in [Requests -> RequestStates]
  BY <1>3, <1>4, <1>5 DEF Inv, TypeOK
<1> HIDE DEF s
<1> QED
  BY <1>1, <1>3, <1>4, <1>5, <1>6, EndingInv DEF Inv, TypeOK

\* Reconnecting the terminal keeps Inv.
LEMMA ResetInv == ASSUME Inv, NEW r \in Requests, NEW t \in Tabs, Reset(r, t) PROVE Inv'
<1> DEFINE S == {sessions[selected]}
           new == Request("reset", "ending", t, selected, definition[selected], None, Awaits(S))
<1>1. selected \in Profiles /\ S \subseteq Requests \cup {None} /\ definition[selected] \in 0 .. MaxEdits
  BY MapTypes DEF Reset, Usable, Inv, TypeOK
<1>2. Awaits(S) \subseteq Requests
  BY <1>1, ClosingType DEF Inv
<1>3. /\ request' = [request EXCEPT ![r] = new]
      /\ Close(S) /\ sessions' = [sessions EXCEPT ![selected] = None]
      /\ transcript' = [transcript EXCEPT ![selected] = {}]
      /\ UNCHANGED <<definition, edits, selected, connection, child, down>>
  BY DEF Reset
<1>4. new \in RequestStates /\ new.step = "ending"
  BY <1>1, <1>2 DEF Request, RequestStates, Kinds, Steps
<1>5. /\ request'[r].step = "ending" /\ request' \in [Requests -> RequestStates]
      /\ \A q \in Requests : q # r => request'[q] = request[q]
  BY <1>3, <1>4 DEF Inv, TypeOK
<1>6. transcript' \in [Profiles -> SUBSET (0 .. MaxEdits)]
  BY <1>1, <1>3 DEF Inv, TypeOK
<1> HIDE DEF S, new
<1> QED
  BY <1>1, <1>3, <1>5, <1>6, EndingInv

\* Selecting another profile keeps Inv.
LEMMA SelectInv == ASSUME Inv, NEW r \in Requests, NEW p \in Profiles, Select(r, p) PROVE Inv'
<1> DEFINE S == {sessions[selected]}
           new == Request("select", "ending", None, p, None, None, Awaits(S))
<1>1. selected \in Profiles /\ S \subseteq Requests \cup {None}
  BY MapTypes DEF Select, Inv, TypeOK
<1>2. Awaits(S) \subseteq Requests
  BY <1>1, ClosingType DEF Inv
<1>3. /\ request' = [request EXCEPT ![r] = new]
      /\ Close(S) /\ sessions' = [sessions EXCEPT ![selected] = None]
      /\ UNCHANGED <<definition, edits, selected, transcript, connection, child, down>>
  BY DEF Select
<1>4. new \in RequestStates /\ new.step = "ending"
  BY <1>2 DEF Request, RequestStates, Kinds, Steps
<1>5. /\ request'[r].step = "ending" /\ request' \in [Requests -> RequestStates]
      /\ \A q \in Requests : q # r => request'[q] = request[q]
  BY <1>3, <1>4 DEF Inv, TypeOK
<1> HIDE DEF S, new
<1> QED
  BY <1>1, <1>3, <1>5, EndingInv DEF Inv, TypeOK

\* Taking sessions out of the map while the connections of other names may
\* change keeps Inv.
LEMMA InvalidateInv ==
    ASSUME Inv, NEW names \in SUBSET Profiles, NEW replacement \in Profiles \cup {None},
           Invalidate(names, replacement),
           definition' \in [Profiles -> 0 .. MaxEdits \cup {None}], edits' \in 0 .. MaxEdits,
           \A p \in Profiles \ names : definition'[p] = definition[p],
           UNCHANGED <<connection, child, request, down>>
    PROVE  Inv'
<1>1. closing' \subseteq Requests
  <2>1. {sessions[p] : p \in names} \subseteq Requests \cup {None}
    BY DEF Inv, TypeOK
  <2> QED
    BY <2>1, ClosingType DEF Invalidate, Inv
<1>2. TypeOK'
  BY <1>1 DEF Invalidate, Inv, TypeOK
<1>3. \A p \in Profiles : sessions'[p] = IF p \in names THEN None ELSE sessions[p]
  BY DEF Invalidate
<1> QED
  BY <1>2, <1>3, KeepsSessions

\* An edit, or a rename, takes the sessions of both names out of the map.
LEMMA EditInv == ASSUME Inv, NEW p \in Profiles, NEW q \in Profiles, EditProfile(p, q) PROVE Inv'
<1>1. edits' \in 0 .. MaxEdits /\ edits + 1 \in 0 .. MaxEdits
  BY TerminalAssumption DEF EditProfile, Inv, TypeOK
<1>2. definition' \in [Profiles -> 0 .. MaxEdits \cup {None}]
  BY <1>1 DEF EditProfile, Inv, TypeOK
<1>3. \A o \in Profiles \ {p, q} : definition'[o] = definition[o]
  BY DEF EditProfile, Inv, TypeOK
<1>4. Invalidate({p, q}, q) /\ UNCHANGED <<connection, child, request, down>>
  BY DEF EditProfile
<1> QED
  BY <1>1, <1>2, <1>3, <1>4, InvalidateInv

\* A removal takes the sessions of one name out of the map.
LEMMA RemoveInv ==
    ASSUME Inv, NEW p \in Profiles, NEW q \in Profiles \cup {None}, RemoveProfile(p, q) PROVE Inv'
<1>1. definition' \in [Profiles -> 0 .. MaxEdits \cup {None}]
  BY DEF RemoveProfile, Inv, TypeOK
<1>2. \A o \in Profiles \ {p} : definition'[o] = definition[o]
  BY DEF RemoveProfile, Inv, TypeOK
<1>3. Invalidate({p}, q) /\ UNCHANGED <<edits, connection, child, request, down>>
  BY DEF RemoveProfile
<1> QED
  BY <1>1, <1>2, <1>3, InvalidateInv DEF Inv, TypeOK

\* Clearing the transcript keeps Inv.
LEMMA ClearInv == ASSUME Inv, Clear PROVE Inv'
<1>1. transcript' \in [Profiles -> SUBSET (0 .. MaxEdits)]
  BY DEF Clear, Inv, TypeOK
<1>2. UNCHANGED <<definition, edits, selected, sessions, request, down, connection, child, closing>>
  BY DEF Clear, sessionVars
<1>3. TypeOK'
  BY <1>1, <1>2 DEF Inv, TypeOK
<1> QED
  BY <1>2, <1>3, KeepsSessions

\* The end of the server takes every session out of the map.
LEMMA ShutdownInv == ASSUME Inv, Shutdown PROVE Inv'
<1>1. closing' \subseteq Requests
  <2>1. {sessions[p] : p \in Profiles} \subseteq Requests \cup {None}
    BY DEF Inv, TypeOK
  <2> QED
    BY <2>1, ClosingType DEF Shutdown, Inv
<1>2. /\ sessions' = [p \in Profiles |-> None] /\ down' = TRUE
      /\ UNCHANGED <<definition, edits, selected, transcript, connection, child, request>>
  BY DEF Shutdown
<1>3. TypeOK'
  BY <1>1, <1>2 DEF Inv, TypeOK
<1>4. \A p \in Profiles : sessions'[p] = None
  BY <1>2
<1> QED
  BY <1>2, <1>3, <1>4, KeepsSessions

\* Every step keeps Inv.
LEMMA NextInv == ASSUME Inv, [Next]_vars PROVE Inv'
<1>1. CASE UNCHANGED vars
  <2>1. TypeOK'
    BY <1>1 DEF vars, Inv, TypeOK
  <2> QED
    BY <1>1, <2>1, KeepsSessions DEF vars
<1>2. ASSUME NEW s \in Requests, CloseReturns(s) \/ ChildExits(s) \/ ShowPrompt(s) PROVE Inv'
  BY <1>2, SessionStepInv
<1>3. ASSUME NEW r \in Requests, SendSteps(r) \/ Answer(r) PROVE Inv'
  BY <1>3, SendOnSessionInv, SendAfterStaleInv, SendOnNewInv, StaleClosedInv, RunAnswersInv,
     RunFailsInv, AnswerInv DEF SendSteps
<1>4. ASSUME NEW r \in Requests, NEW t \in Tabs, Reset(r, t) PROVE Inv'
  BY <1>4, ResetInv
<1>5. ASSUME NEW r \in Requests, NEW p \in Profiles, Select(r, p) PROVE Inv'
  BY <1>5, SelectInv
<1>6. ASSUME NEW p \in Profiles, NEW q \in Profiles, EditProfile(p, q) PROVE Inv'
  BY <1>6, EditInv
<1>7. ASSUME NEW p \in Profiles, NEW q \in Profiles \cup {None}, RemoveProfile(p, q) PROVE Inv'
  BY <1>7, RemoveInv
<1>8. CASE Clear \/ Shutdown
  BY <1>8, ClearInv, ShutdownInv
<1> QED
  BY <1>1, <1>2, <1>3, <1>4, <1>5, <1>6, <1>7, <1>8 DEF Next

\* Inv holds in every reachable state, whatever the number of tabs.
THEOREM InductiveInvariant == Spec => []Inv
BY InitInv, NextInv, PTL DEF Spec

\* The variables keep their types.
THEOREM TypeCorrect == Spec => []TypeOK
<1>1. Inv => TypeOK
  BY DEF Inv
<1> QED
  BY <1>1, InductiveInvariant, PTL

\* No session made from an old connection of a profile stays in the map under
\* its name, unless the edit overtook the request that made it.
THEOREM EditsClose == Spec => []EditClosesSessions
<1>1. Inv => EditClosesSessions
  BY DEF Inv
<1> QED
  BY <1>1, InductiveInvariant, PTL

-----------------------------------------------------------------------------
(* For a user of one tab.                                                  *)

\* A request that may begin in the tab finds no other that occupies it.
LEMMA TabIsFree ==
    ASSUME Inv, OneTab, OneTabInv, NEW t \in Tabs, TabFree(t)
    PROVE  \A q \in Requests : ~Busy(q) /\ request[q].step \notin {"making", "running"}
<1>1. ASSUME NEW q \in Requests, Busy(q) PROVE FALSE
  <2>1. request[q].tab = t
    BY <1>1 DEF OneTab, OneTabInv
  <2> QED
    BY <1>1, <2>1 DEF TabFree, Busy
<1> QED
  BY <1>1 DEF Inv, MadeOnce, RequestMade, Busy, InFlight

\* Whatever leaves the map is closed or has no child: no session is lost.
LEMMA LeavesClosed ==
    ASSUME NoOrphans, child' = child, closing \subseteq closing',
           \A p \in Profiles : sessions'[p] = sessions[p] \/ child[sessions[p]] = "none"
                              \/ sessions[p] \in closing'
    PROVE  NoOrphans'
BY DEF NoOrphans, Held, Up

\* A step only takes sessions out of the map, closing those with a child.
Shrinks ==
    /\ child' = child /\ closing \subseteq closing'
    /\ \A p \in Profiles :
          \/ sessions'[p] = sessions[p]
          \/ /\ sessions'[p] = None
             /\ child[sessions[p]] = "none" \/ sessions[p] \in closing'

\* A step begins no request that occupies the tab.
BeginsNothing ==
    \A q \in Requests :
        /\ Busy(q)' => Busy(q) /\ request'[q].tab = request[q].tab
        /\ request'[q].step \in {"making", "running"} => request'[q] = request[q]

\* Such a step keeps OneTabInv.
LEMMA MapShrinks == ASSUME Inv, OneTabInv, Shrinks, BeginsNothing PROVE OneTabInv'
<1>0. \A q \in Requests : request[q].step = "running" => request[q].profile \in Profiles
  BY DEF Inv, MadeOnce, RequestMade
<1>1. NoOrphans'
  BY LeavesClosed DEF OneTabInv, Shrinks
<1>2. \A r \in Requests : Busy(r)' => request'[r].tab \in Tabs
  BY DEF OneTabInv, BeginsNothing
<1>3. \A r, q \in Requests : Busy(r)' /\ Busy(q)' => r = q
  BY DEF OneTabInv, BeginsNothing
<1>4. ASSUME NEW r \in Requests, request'[r].step = "making", NEW p \in Profiles
      PROVE  sessions'[p] = None
  BY <1>4 DEF OneTabInv, BeginsNothing, Shrinks
<1>5. ASSUME NEW r \in Requests, request'[r].step = "running"
      PROVE  sessions'[request'[r].profile] \in {None, request'[r].session}
  BY <1>0, <1>5 DEF OneTabInv, BeginsNothing, Shrinks
<1> QED
  BY <1>1, <1>2, <1>3, <1>4, <1>5 DEF OneTabInv

\* A request that occupies the tab from now on is the only one, and keeps
\* OneTabInv if the map fits it.
LEMMA BeginsAlone ==
    ASSUME Inv, OneTab, OneTabInv, NEW t \in Tabs, TabFree(t), NEW r \in Requests,
           NoOrphans', request'[r].tab = t,
           \A q \in Requests : q # r => request'[q] = request[q],
           request'[r].step = "making" => \A p \in Profiles : sessions'[p] = None,
           request'[r].step = "running" =>
               sessions'[request'[r].profile] \in {None, request'[r].session}
    PROVE  OneTabInv'
<1>1. \A q \in Requests : q # r => ~Busy(q)' /\ request'[q].step \notin {"making", "running"}
  BY TabIsFree DEF Busy, InFlight
<1> QED
  BY <1>1 DEF OneTabInv

\* The beginnings of requests of the tab keep OneTabInv.
LEMMA BeginsKeep ==
    ASSUME Inv, OneTab, OneTabInv, NEW r \in Requests, NEW t \in Tabs,
           SendOnSession(r, t) \/ SendOnNew(r, t) \/ SendAfterStale(r, t) \/ Reset(r, t)
    PROVE  OneTabInv'
<1>1. TabFree(t) /\ selected \in Profiles /\ sessions[selected] \in Requests \cup {None}
  BY DEF SendOnSession, SendOnNew, SendAfterStale, Reset, Usable, Inv, TypeOK
<1>2. CASE SendOnSession(r, t)
  <2>1. /\ UNCHANGED <<sessions, closing>> /\ sessions[selected] \in Requests
        /\ \A s \in Requests : child'[s] # "none" => child[s] # "none" \/ s = sessions[selected]
    BY <1>1, <1>2 DEF SendOnSession, Started, serverVars, Inv, TypeOK
  <2>2. NoOrphans'
    BY <1>1, <2>1 DEF OneTabInv, NoOrphans, Held, Up
  <2>3. /\ request'[r] = Request("send", "running", t, selected, definition[selected],
                                 sessions[selected], {})
        /\ \A q \in Requests : q # r => request'[q] = request[q]
    BY <1>2 DEF SendOnSession, Inv, TypeOK
  <2>4. /\ request'[r].tab = t /\ request'[r].step = "running"
        /\ sessions'[request'[r].profile] \in {None, request'[r].session}
    BY <2>1, <2>3 DEF Request
  <2> QED
    BY <1>1, <2>2, <2>3, <2>4, BeginsAlone
<1>3. CASE SendOnNew(r, t)
  <2>1. /\ UNCHANGED closing /\ Awaits(Stale) = {}
        /\ \A p \in Profiles : sessions'[p] = IF p = selected THEN r ELSE None
        /\ \A s \in Requests : s # r => child'[s] = child[s]
    BY <1>3 DEF SendOnNew, Make, Started, Inv, TypeOK
  <2>2. \A s \in Requests : Held(s) => child[s] = "none"
    BY <2>1, NoneIsNothing DEF Awaits, Stale, Held
  <2>3. NoOrphans'
    BY <1>1, <2>1, <2>2 DEF OneTabInv, NoOrphans, Held, Up
  <2>4. /\ request'[r] = Request("send", "running", t, selected, definition[selected], r, {})
        /\ \A q \in Requests : q # r => request'[q] = request[q]
    BY <1>3 DEF SendOnNew, Inv, TypeOK
  <2>5. /\ request'[r].tab = t /\ request'[r].step = "running"
        /\ sessions'[request'[r].profile] \in {None, request'[r].session}
    BY <1>1, <2>1, <2>4 DEF Request
  <2> QED
    BY <1>1, <2>3, <2>4, <2>5, BeginsAlone
<1>4. CASE SendAfterStale(r, t)
  <2>1. /\ child' = child /\ closing' = closing \cup Awaits(Stale)
        /\ \A p \in Profiles : sessions'[p] = None
    BY <1>4 DEF SendAfterStale, Close
  <2>2. \A p \in Profiles : sessions[p] = None \/ child[sessions[p]] = "none"
                            \/ sessions[p] \in closing'
    BY <2>1 DEF Stale, Awaits
  <2>3. NoOrphans'
    BY <2>1, <2>2, LeavesClosed DEF OneTabInv
  <2>4. /\ request'[r] = Request("send", "making", t, selected, definition[selected], None,
                                 Awaits(Stale))
        /\ \A q \in Requests : q # r => request'[q] = request[q]
    BY <1>4 DEF SendAfterStale, Inv, TypeOK
  <2>5. request'[r].tab = t /\ request'[r].step = "making"
    BY <2>4 DEF Request
  <2> QED
    BY <1>1, <2>1, <2>3, <2>4, <2>5, BeginsAlone
<1>5. CASE Reset(r, t)
  <2>1. /\ child' = child /\ closing' = closing \cup Awaits({sessions[selected]})
        /\ \A p \in Profiles : sessions'[p] = IF p = selected THEN None ELSE sessions[p]
    BY <1>5 DEF Reset, Close, Inv, TypeOK
  <2>2. \/ sessions[selected] = None \/ child[sessions[selected]] = "none"
        \/ sessions[selected] \in closing'
    BY <2>1 DEF Awaits
  <2>3. NoOrphans'
    BY <2>1, <2>2, LeavesClosed DEF OneTabInv
  <2>4. /\ request'[r] = Request("reset", "ending", t, selected, definition[selected], None,
                                 Awaits({sessions[selected]}))
        /\ \A q \in Requests : q # r => request'[q] = request[q]
    BY <1>5 DEF Reset, Inv, TypeOK
  <2>5. request'[r].tab = t /\ request'[r].step = "ending"
    BY <2>4 DEF Request
  <2> QED
    BY <1>1, <2>3, <2>4, <2>5, BeginsAlone
<1> QED
  BY <1>2, <1>3, <1>4, <1>5

\* A session made after the wait is put into a map that is still empty.
LEMMA StaleClosedKeeps ==
    ASSUME Inv, OneTabInv, NEW r \in Requests, StaleClosed(r) PROVE OneTabInv'
<1> DEFINE p == request[r].profile
<1>1. /\ p \in Profiles /\ Busy(r) /\ request[r].step = "making"
      /\ \A q \in Profiles : sessions[q] = None
  BY DEF StaleClosed, Inv, MadeOnce, RequestMade, OneTabInv, Busy, InFlight
<1>2. /\ UNCHANGED closing /\ sessions' = [sessions EXCEPT ![p] = r]
      /\ \A s \in Requests : s # r => child'[s] = child[s]
  BY DEF StaleClosed, Make, Started, Inv, TypeOK
<1>3. \A q \in Profiles : sessions'[q] = IF q = p THEN r ELSE None
  BY <1>1, <1>2 DEF Inv, TypeOK
<1>4. NoOrphans'
  BY <1>1, <1>2, <1>3, NoneIsNothing DEF OneTabInv, NoOrphans, Held, Up
<1>5. /\ request'[r] = [request[r] EXCEPT !.step = "running", !.session = r]
      /\ request[r] \in RequestStates
      /\ \A q \in Requests : q # r => request'[q] = request[q]
  BY DEF StaleClosed, Inv, TypeOK
<1>6. /\ request'[r].step = "running" /\ request'[r].session = r /\ request'[r].profile = p
      /\ request'[r].tab = request[r].tab
  BY <1>5 DEF RequestStates
<1>7. \A q \in Requests : q # r => ~Busy(q) /\ request[q].step \notin {"making", "running"}
  BY <1>1 DEF OneTabInv, Inv, MadeOnce, RequestMade, Busy, InFlight
<1>8. \A q \in Requests : q # r => ~Busy(q)' /\ request'[q].step \notin {"making", "running"}
  BY <1>5, <1>7 DEF Busy, InFlight
<1>9. sessions'[request'[r].profile] = r /\ request'[r].tab \in Tabs
  BY <1>1, <1>3, <1>6 DEF OneTabInv
<1> HIDE DEF p
<1> QED
  BY <1>4, <1>6, <1>8, <1>9 DEF OneTabInv

\* A command that fails finds, under its profile, its own session or none.
LEMMA RunFailsKeeps ==
    ASSUME Inv, OneTabInv, NEW r \in Requests, RunFails(r) PROVE OneTabInv'
<1> DEFINE s == request[r].session
           p == request[r].profile
<1>1. p \in Profiles /\ s \in Requests /\ Busy(r) /\ sessions[p] \in {None, s}
  BY DEF RunFails, Inv, MadeOnce, RequestMade, OneTabInv, Busy, InFlight
<1>2. /\ child' = child /\ closing' = closing \cup Awaits({s})
      /\ sessions' = [sessions EXCEPT ![p] = None]
  BY DEF RunFails, Close
<1>3. \A q \in Profiles : sessions'[q] = IF q = p THEN None ELSE sessions[q]
  BY <1>1, <1>2 DEF Inv, TypeOK
<1>4. child[s] = "none" \/ s \in closing'
  BY <1>1, <1>2, NoneIsNothing DEF Awaits
<1>5. /\ request'[r] = [request[r] EXCEPT !.step = "ending", !.awaited = Awaits({s})]
      /\ request[r] \in RequestStates
      /\ \A q \in Requests : q # r => request'[q] = request[q]
  BY DEF RunFails, Inv, TypeOK
<1>6. /\ request'[r].step = "ending" /\ request'[r].tab = request[r].tab
  BY <1>5 DEF RequestStates
<1>7. BeginsNothing
  BY <1>1, <1>5, <1>6 DEF BeginsNothing, Busy, InFlight
<1> HIDE DEF s, p
<1>8. Shrinks
  BY <1>1, <1>2, <1>3, <1>4 DEF Shrinks
<1> QED
  BY <1>7, <1>8, MapShrinks

\* Every step keeps OneTabInv.
LEMMA OneTabNext == ASSUME Inv, OneTab, OneTabInv, [Next]_vars PROVE OneTabInv'
<1>1. ASSUME UNCHANGED <<sessions, child, closing, request>> PROVE OneTabInv'
  BY <1>1, MapShrinks DEF Shrinks, BeginsNothing, Busy, InFlight
<1>2. ASSUME NEW s \in Requests, CloseReturns(s) \/ ChildExits(s) \/ ShowPrompt(s)
      PROVE  OneTabInv'
  <2>1. UNCHANGED <<sessions, request>>
    BY <1>2 DEF CloseReturns, ChildExits, ShowPrompt, serverVars
  <2>2. NoOrphans'
    BY <1>2, <2>1 DEF CloseReturns, ChildExits, ShowPrompt, OneTabInv, NoOrphans, Held, Up,
       Inv, TypeOK
  <2> QED
    BY <2>1, <2>2 DEF OneTabInv, Busy, InFlight
<1>3. ASSUME NEW r \in Requests, request' = [request EXCEPT ![r] = Answered],
             UNCHANGED <<sessions, child, closing>>
      PROVE  OneTabInv'
  <2>1. request'[r].step = "done" /\ \A q \in Requests : q # r => request'[q] = request[q]
    BY <1>3 DEF Inv, TypeOK, Answered, Request
  <2>2. BeginsNothing
    BY <2>1 DEF BeginsNothing, Busy, InFlight
  <2>3. Shrinks
    BY <1>3 DEF Shrinks
  <2> QED
    BY <2>2, <2>3, MapShrinks
<1>4. ASSUME NEW names \in SUBSET Profiles, UNCHANGED <<child, request>>,
             Close({sessions[p] : p \in names}),
             \A p \in Profiles : sessions'[p] = IF p \in names THEN None ELSE sessions[p]
      PROVE  OneTabInv'
  <2>1. \A p \in names : child[sessions[p]] = "none" \/ sessions[p] \in closing' \/ sessions[p] = None
    BY <1>4 DEF Close, Awaits
  <2>2. closing \subseteq closing'
    BY <1>4 DEF Close
  <2>3. Shrinks
    BY <1>4, <2>1, <2>2 DEF Shrinks
  <2>4. BeginsNothing
    BY <1>4 DEF BeginsNothing, Busy, InFlight
  <2> QED
    BY <2>3, <2>4, MapShrinks
<1>5. ASSUME NEW r \in Requests, SendSteps(r) \/ Answer(r) PROVE OneTabInv'
  <2>1. ASSUME RunAnswers(r) \/ Answer(r) PROVE OneTabInv'
    BY <1>3, <2>1 DEF RunAnswers, Answer, sessionVars
  <2> QED
    BY <1>5, <2>1, BeginsKeep, StaleClosedKeeps, RunFailsKeeps DEF SendSteps
<1>6. ASSUME NEW r \in Requests, NEW t \in Tabs, Reset(r, t) PROVE OneTabInv'
  BY <1>6, BeginsKeep
<1>7. ASSUME NEW r \in Requests, NEW p \in Profiles, Select(r, p) PROVE OneTabInv'
  <2>1. /\ child' = child /\ closing' = closing \cup Awaits({sessions[selected]})
        /\ selected \in Profiles
        /\ \A q \in Profiles : sessions'[q] = IF q = selected THEN None ELSE sessions[q]
    BY <1>7 DEF Select, Close, Inv, TypeOK
  <2>2. \/ sessions[selected] = None \/ child[sessions[selected]] = "none"
        \/ sessions[selected] \in closing'
    BY <2>1 DEF Awaits
  <2>3. /\ request'[r].kind = "select" /\ request'[r].step = "ending"
        /\ \A q \in Requests : q # r => request'[q] = request[q]
    BY <1>7 DEF Select, Inv, TypeOK, Request
  <2>4. BeginsNothing
    BY <2>3 DEF BeginsNothing, Busy, InFlight
  <2>5. Shrinks
    BY <2>1, <2>2 DEF Shrinks
  <2> QED
    BY <2>4, <2>5, MapShrinks
<1>8. ASSUME NEW p \in Profiles, NEW q \in Profiles, EditProfile(p, q) PROVE OneTabInv'
  BY <1>4, <1>8 DEF EditProfile, Invalidate
<1>9. ASSUME NEW p \in Profiles, NEW q \in Profiles \cup {None}, RemoveProfile(p, q) PROVE OneTabInv'
  BY <1>4, <1>9 DEF RemoveProfile, Invalidate
<1>10. CASE Shutdown
  BY <1>4, <1>10 DEF Shutdown
<1>11. CASE Clear \/ UNCHANGED vars
  BY <1>1, <1>11 DEF Clear, sessionVars, vars
<1> QED
  BY <1>2, <1>5, <1>6, <1>7, <1>8, <1>9, <1>10, <1>11 DEF Next

\* A user of one tab loses no D3 logon: what has a child process is in the
\* map, where the next command or reconnect finds it, or is being closed.
THEOREM OneTabLosesNothing == OneTab => (Spec => []NoOrphans)
<1> SUFFICES ASSUME OneTab PROVE Spec => []NoOrphans
  OBVIOUS
<1>1. Init => OneTabInv
  BY DEF Init, OneTabInv, NoOrphans, Up, Busy, InFlight, Request
<1>2. Inv /\ OneTabInv /\ [Next]_vars => OneTabInv'
  BY OneTabNext
<1>3. OneTabInv => NoOrphans
  BY DEF OneTabInv
<1> QED
  BY <1>1, <1>2, <1>3, InductiveInvariant, PTL DEF Spec

-----------------------------------------------------------------------------
(* How two tabs lose a session.                                            *)

\* A child process that no command, reconnect, edit or shutdown finds any more.
OutOfReach(s) == Up(s) /\ ~Held(s) /\ s \notin closing

\* The catch of runTerminalCommand, and its second half after the await.
Fails(r) == request[r].step = "running" /\ request'[r].step = "ending"
Resumes(r) == request[r].step = "making" /\ request'[r].step = "running"

\* A session gets out of reach in two ways only.  A command that ran on another
\* session fails, and its catch takes the entry of its profile out of the map,
\* which is s by now; or a request that waited for stale sessions to close puts its
\* own session where another request has put s meanwhile.
LossExplained ==
    [][\A s \in Requests : ~OutOfReach(s) /\ OutOfReach(s)' =>
          \E r \in Requests :
             /\ request[r].profile \in Profiles /\ sessions[request[r].profile] = s
             /\ (Fails(r) /\ request[r].session # s) \/ Resumes(r)]_vars

\* What is out of reach stays so: no reconnect, selection, edit or shutdown ends
\* it, but only the end of its child or the failure of a command that runs on it.
LostForGood ==
    [][\A s \in Requests : OutOfReach(s) /\ ~OutOfReach(s)' =>
          ~Up(s)' \/ \E r \in Requests : Fails(r) /\ request[r].session = s]_vars

\* A child is that of a session that has been made.
ChildrenMade == \A s \in Requests : Up(s) => connection[s] # None

\* A step that starts no child, and closes what it takes out of the map.
Tidy ==
    /\ \A s \in Requests : Up(s)' => Up(s)
    /\ \A s \in Requests : s \in closing /\ s \notin closing' => ~Up(s)'
    /\ \A p \in Profiles :
          sessions'[p] = sessions[p] \/ ~Up(sessions[p]) \/ sessions[p] \in closing'

\* A step that puts into the map, or begins to close, only what was in the map.
Finds ==
    /\ \A p \in Profiles : sessions'[p] \in {None} \cup {sessions[q] : q \in Profiles}
    /\ \A s \in Requests : s \in closing' => s \in closing \/ Held(s)

\* Tidy steps lose nothing, and finding steps find nothing that is lost.
LEMMA TidyLosesNothing ==
    /\ TypeOK /\ Tidy => \A s \in Requests : OutOfReach(s)' => OutOfReach(s)
    /\ TypeOK /\ Finds => \A s \in Requests : OutOfReach(s) /\ ~OutOfReach(s)' => ~Up(s)'
<1>1. ASSUME TypeOK, Tidy, NEW s \in Requests, OutOfReach(s)' PROVE OutOfReach(s)
  <2>1. Up(s) /\ s \notin closing
    BY <1>1 DEF OutOfReach, Tidy
  <2>2. ASSUME NEW p \in Profiles, sessions[p] = s PROVE FALSE
    BY <1>1, <2>1, <2>2 DEF Tidy, OutOfReach, Held
  <2> QED
    BY <2>1, <2>2 DEF OutOfReach, Held
<1>2. ASSUME TypeOK, Finds, NEW s \in Requests, OutOfReach(s), ~OutOfReach(s)', Up(s)'
      PROVE  FALSE
  <2>1. Held(s)' \/ s \in closing'
    BY <1>2 DEF OutOfReach
  <2>2. ~Held(s)'
    BY <1>2, NoneIsNothing DEF Finds, OutOfReach, Held
  <2> QED
    BY <1>2, <2>1, <2>2 DEF Finds, OutOfReach
<1> QED
  BY <1>1, <1>2

\* What the sessions in a part of the map have in common when they are closed.
LEMMA ClosingPart ==
    ASSUME TypeOK, child' = child, NEW names \in SUBSET Profiles,
           Close({sessions[p] : p \in names}),
           \A p \in Profiles : sessions'[p] = IF p \in names THEN None ELSE sessions[p]
    PROVE  Tidy /\ Finds
<1>1. \A p \in names : sessions[p] = None \/ ~Up(sessions[p]) \/ sessions[p] \in closing'
  BY DEF Close, Awaits, Up
<1>2. closing \subseteq closing' /\ \A s \in Requests : Up(s)' <=> Up(s)
  BY DEF Close, Up
<1>3. ASSUME NEW p \in names, sessions[p] = None PROVE sessions'[p] = sessions[p]
  BY <1>3
<1>4. Tidy
  BY <1>1, <1>2, <1>3 DEF Tidy
<1>5. \A s \in Requests : s \in closing' => s \in closing \/ Held(s)
  BY DEF Close, Awaits, Held
<1> QED
  BY <1>4, <1>5 DEF Finds

\* What a step may do to a session that gets out of reach, or back.
StepFair(s) ==
    /\ ~OutOfReach(s) /\ OutOfReach(s)' =>
          \E r \in Requests :
             /\ request[r].profile \in Profiles /\ sessions[request[r].profile] = s
             /\ (Fails(r) /\ request[r].session # s) \/ Resumes(r)
    /\ OutOfReach(s) /\ ~OutOfReach(s)' =>
          ~Up(s)' \/ \E r \in Requests : Fails(r) /\ request[r].session = s

\* The request that runs a command on a session that exists, or makes one at once.
LEMMA SendLoses ==
    ASSUME Inv, ChildrenMade, NEW r \in Requests, NEW t \in Tabs,
           SendOnSession(r, t) \/ SendOnNew(r, t), NEW s \in Requests
    PROVE  StepFair(s) /\ (Up(s)' => connection'[s] # None)
<1>1. selected \in Profiles /\ selected # None
  BY DEF SendOnSession, SendOnNew, Usable, Inv, TypeOK
<1>2. CASE SendOnSession(r, t)
  <2>1. /\ UNCHANGED <<sessions, closing, connection>> /\ sessions[selected] \in Requests
        /\ \A q \in Requests : child'[q] # "none" => child[q] # "none" \/ q = sessions[selected]
        /\ \A q \in Requests : child[q] # "none" => child'[q] # "none"
    BY <1>1, <1>2 DEF SendOnSession, Started, serverVars, Inv, TypeOK
  <2>2. Held(sessions[selected]) /\ connection[sessions[selected]] # None
    BY <1>1, <2>1, NoneIsNothing DEF Held, Inv, MadeOnce
  <2>3. (OutOfReach(s)' <=> OutOfReach(s)) /\ (Up(s)' => connection'[s] # None)
    BY <2>1, <2>2 DEF OutOfReach, Held, Up, ChildrenMade
  <2> QED
    BY <2>3 DEF StepFair
<1>3. CASE SendOnNew(r, t)
  <2>1. /\ UNCHANGED closing /\ Awaits(Stale) = {}
        /\ \A p \in Profiles : sessions'[p] = IF p = selected THEN r ELSE None
        /\ \A q \in Requests : q # r => child'[q] = child[q] /\ connection'[q] = connection[q]
        /\ connection'[r] # None
    <3>1. definition[selected] \in 0 .. MaxEdits
      BY <1>1, <1>3 DEF SendOnNew, Usable, Inv, TypeOK
    <3>2. connection'[r] = [profile |-> selected, version |-> definition[selected], late |-> FALSE]
      BY <1>3 DEF SendOnNew, Make, Inv, TypeOK
    <3>3. connection'[r] # None
      BY <1>1, <3>1, <3>2, MadeOfSomething
    <3>4. \A q \in Requests : q # r => child'[q] = child[q] /\ connection'[q] = connection[q]
      BY <1>3 DEF SendOnNew, Make, Started, Inv, TypeOK
    <3> QED
      BY <1>3, <3>3, <3>4 DEF SendOnNew
  <2>2. \A q \in Requests : Held(q) => child[q] = "none"
    BY <2>1, NoneIsNothing DEF Awaits, Stale, Held
  <2>3. child[r] = "none"
    BY <1>3 DEF SendOnNew, Fresh, ChildrenMade, Up, Inv, MadeOnce, RequestMade
  <2>4. Held(r)' /\ (Held(s)' => s = r)
    BY <1>1, <2>1, NoneIsNothing DEF Held
  <2>5. CASE s = r
    BY <2>1, <2>3, <2>4, <2>5 DEF StepFair, OutOfReach, Up
  <2>6. CASE s # r
    BY <2>1, <2>2, <2>4, <2>6 DEF StepFair, OutOfReach, Up, ChildrenMade
  <2> QED
    BY <2>5, <2>6
<1> QED
  BY <1>2, <1>3

\* The request that resumes after closing stale sessions.
LEMMA ResumeLoses ==
    ASSUME Inv, ChildrenMade, NEW r \in Requests, StaleClosed(r), NEW s \in Requests
    PROVE  StepFair(s) /\ (Up(s)' => connection'[s] # None)
<1> DEFINE p == request[r].profile
<1>1. p \in Profiles /\ request[r].step = "making" /\ connection[r] = None
  BY DEF StaleClosed, Inv, MadeOnce, RequestMade
<1>2. child[r] = "none"
  BY <1>1 DEF ChildrenMade, Up
<1>3. /\ UNCHANGED closing
      /\ \A q \in Requests : q # r => child'[q] = child[q] /\ connection'[q] = connection[q]
      /\ connection'[r] # None
      /\ \A q \in Profiles : sessions'[q] = IF q = p THEN r ELSE sessions[q]
  <2>1. request[r].version \in 0 .. MaxEdits
    BY DEF StaleClosed, Inv, MadeOnce, RequestMade
  <2>2. connection'[r] = [profile |-> p, version |-> request[r].version, late |-> TRUE]
    BY DEF StaleClosed, Make, Inv, TypeOK
  <2>3. connection'[r] # None
    BY <1>1, <2>1, <2>2, MadeOfSomething
  <2>4. \A q \in Requests : q # r => child'[q] = child[q] /\ connection'[q] = connection[q]
    BY DEF StaleClosed, Make, Started, Inv, TypeOK
  <2>5. \A q \in Profiles : sessions'[q] = IF q = p THEN r ELSE sessions[q]
    BY <1>1 DEF StaleClosed, Inv, TypeOK
  <2> QED
    BY <2>3, <2>4, <2>5 DEF StaleClosed
<1>4. request'[r].step = "running"
  BY DEF StaleClosed, Inv, TypeOK, RequestStates
<1>5. Resumes(r)
  BY <1>1, <1>4 DEF Resumes
<1>6. CASE s = r
  BY <1>1, <1>2, <1>3, <1>6 DEF StepFair, OutOfReach, Held, Up
<1>7. CASE s # r
  <2>1. OutOfReach(s) => OutOfReach(s)'
    BY <1>3, <1>7 DEF OutOfReach, Held, Up
  <2>2. ASSUME ~OutOfReach(s), OutOfReach(s)' PROVE sessions[p] = s
    BY <1>1, <1>3, <1>7, <2>2 DEF OutOfReach, Held, Up
  <2>3. Up(s)' => connection'[s] # None
    BY <1>3, <1>7 DEF Up, ChildrenMade
  <2> QED
    BY <1>1, <1>5, <2>1, <2>2, <2>3 DEF StepFair
<1> QED
  BY <1>6, <1>7

\* The command that fails.
LEMMA FailureLoses ==
    ASSUME Inv, NEW r \in Requests, RunFails(r), NEW s \in Requests
    PROVE  StepFair(s)
<1> DEFINE p == request[r].profile
           q == request[r].session
<1>1. p \in Profiles /\ q \in Requests /\ request[r].step = "running"
  BY DEF RunFails, Inv, MadeOnce, RequestMade
<1>2. /\ child' = child /\ closing' = closing \cup Awaits({q})
      /\ \A x \in Profiles : sessions'[x] = IF x = p THEN None ELSE sessions[x]
  BY <1>1 DEF RunFails, Close, Inv, TypeOK
<1>3. request'[r].step = "ending"
  BY DEF RunFails, Inv, TypeOK, RequestStates
<1>4. Fails(r)
  BY <1>1, <1>3 DEF Fails
<1>5. Up(q) => q \in closing'
  BY <1>1, <1>2, NoneIsNothing DEF Awaits, Up
<1>6. ASSUME ~OutOfReach(s), OutOfReach(s)' PROVE sessions[p] = s /\ s # q
  BY <1>1, <1>2, <1>5, <1>6 DEF OutOfReach, Held, Up
<1>7. ASSUME OutOfReach(s), ~OutOfReach(s)' PROVE s = q
  BY <1>1, <1>2, <1>7, NoneIsNothing DEF OutOfReach, Held, Up, Awaits
<1> QED
  BY <1>1, <1>4, <1>6, <1>7 DEF StepFair

\* Every step, by name.
LEMMA NextLoses ==
    ASSUME Inv, ChildrenMade, [Next]_vars
    PROVE  ChildrenMade' /\ \A s \in Requests : StepFair(s)
<1>1. ASSUME connection' = connection, Tidy, Finds
      PROVE  ChildrenMade' /\ \A s \in Requests : StepFair(s)
  BY <1>1, TidyLosesNothing DEF Inv, ChildrenMade, Tidy, StepFair
<1>2. ASSUME UNCHANGED <<connection, sessions, child, closing>> PROVE Tidy /\ Finds
  BY <1>2 DEF Tidy, Finds, Up
<1>3. ASSUME NEW q \in Requests, CloseReturns(q) \/ ChildExits(q) \/ ShowPrompt(q)
      PROVE  ChildrenMade' /\ \A s \in Requests : StepFair(s)
  <2>1. UNCHANGED <<connection, sessions>> /\ closing' \subseteq closing
    BY <1>3 DEF CloseReturns, ChildExits, ShowPrompt, serverVars
  <2>2. /\ \A s \in Requests : Up(s)' => Up(s)
        /\ \A s \in Requests : s \in closing /\ s \notin closing' => ~Up(s)'
    BY <1>3 DEF CloseReturns, ChildExits, ShowPrompt, Up, Inv, TypeOK
  <2>3. Tidy /\ Finds
    BY <2>1, <2>2 DEF Tidy, Finds
  <2> QED
    BY <1>1, <2>1, <2>3
<1>4. ASSUME NEW r \in Requests, NEW t \in Tabs, SendAfterStale(r, t)
      PROVE  connection' = connection /\ Tidy /\ Finds
  <2>1. Awaits(Stale) = Awaits({sessions[p] : p \in Profiles})
    BY DEF Awaits, Stale
  <2>2. /\ UNCHANGED <<child, connection>> /\ Close({sessions[p] : p \in Profiles})
        /\ \A p \in Profiles : sessions'[p] = None
    BY <1>4, <2>1 DEF SendAfterStale, Close
  <2> QED
    BY <2>2, ClosingPart DEF Inv
<1>5. ASSUME NEW r \in Requests, (\E t \in Tabs : Reset(r, t)) \/ \E p \in Profiles : Select(r, p)
      PROVE  connection' = connection /\ Tidy /\ Finds
  <2>1. /\ UNCHANGED <<child, connection>> /\ Close({sessions[selected]}) /\ selected \in Profiles
        /\ \A p \in Profiles : sessions'[p] = IF p = selected THEN None ELSE sessions[p]
    BY <1>5 DEF Reset, Select, Usable, Inv, TypeOK
  <2>2. {selected} \in SUBSET Profiles /\ {sessions[p] : p \in {selected}} = {sessions[selected]}
    BY <2>1
  <2> HIDE DEF Close
  <2>3. \A p \in Profiles : sessions'[p] = IF p \in {selected} THEN None ELSE sessions[p]
    BY <2>1
  <2> QED
    BY <2>1, <2>2, <2>3, ClosingPart DEF Inv
<1>6. ASSUME NEW p \in Profiles, NEW q \in Profiles \cup {None}, RemoveProfile(p, q)
                                                  \/ (q # None /\ EditProfile(p, q))
      PROVE  connection' = connection /\ Tidy /\ Finds
  <2>1. CASE RemoveProfile(p, q)
    BY <2>1, ClosingPart DEF RemoveProfile, Invalidate, Inv
  <2>2. CASE q # None /\ EditProfile(p, q)
    BY <2>2, ClosingPart DEF EditProfile, Invalidate, Inv
  <2> QED
    BY <1>6, <2>1, <2>2
<1>7. CASE Shutdown
  <2>1. connection' = connection /\ Tidy /\ Finds
    BY <1>7, ClosingPart DEF Shutdown, Inv
  <2> QED
    BY <1>1, <2>1
<1>8. ASSUME NEW r \in Requests, SendSteps(r) \/ Answer(r)
      PROVE  ChildrenMade' /\ \A s \in Requests : StepFair(s)
  <2>1. CASE RunAnswers(r) \/ Answer(r)
    BY <1>1, <1>2, <2>1 DEF RunAnswers, Answer, sessionVars
  <2>2. CASE RunFails(r)
    BY <2>2, FailureLoses DEF RunFails, ChildrenMade, Up
  <2>3. CASE StaleClosed(r)
    BY <2>3, ResumeLoses DEF ChildrenMade
  <2>4. ASSUME NEW t \in Tabs, SendOnSession(r, t) \/ SendOnNew(r, t)
        PROVE  ChildrenMade' /\ \A s \in Requests : StepFair(s)
    BY <2>4, SendLoses DEF ChildrenMade
  <2> QED
    BY <1>1, <1>4, <1>8, <2>1, <2>2, <2>3, <2>4 DEF SendSteps
<1>9. CASE Clear \/ UNCHANGED vars
  BY <1>1, <1>2, <1>9 DEF Clear, sessionVars, vars
<1>10. \A q \in Profiles : q # None
  BY NoneIsNothing
<1> QED
  BY <1>1, <1>3, <1>5, <1>6, <1>7, <1>8, <1>9, <1>10 DEF Next

\* However many tabs a user has: what gets out of reach does so because a command
\* fails on another session or a request resumes after its wait.
THEOREM LossHasACause == Spec => LossExplained
<1>1. Init => ChildrenMade
  BY DEF Init, ChildrenMade, Up
<1>2. Inv /\ ChildrenMade /\ [Next]_vars =>
         /\ ChildrenMade'
         /\ \A s \in Requests : ~OutOfReach(s) /\ OutOfReach(s)' =>
               \E r \in Requests :
                  /\ request[r].profile \in Profiles /\ sessions[request[r].profile] = s
                  /\ (Fails(r) /\ request[r].session # s) \/ Resumes(r)
  BY NextLoses DEF StepFair
<1> QED
  BY <1>1, <1>2, InductiveInvariant, PTL DEF Spec, LossExplained

\* And nothing but its own command, when it fails, takes it back.
THEOREM NothingFindsALost == Spec => LostForGood
<1>1. Init => ChildrenMade
  BY DEF Init, ChildrenMade, Up
<1>2. Inv /\ ChildrenMade /\ [Next]_vars =>
         /\ ChildrenMade'
         /\ \A s \in Requests : OutOfReach(s) /\ ~OutOfReach(s)' =>
               ~Up(s)' \/ \E r \in Requests : Fails(r) /\ request[r].session = s
  BY NextLoses DEF StepFair
<1> QED
  BY <1>1, <1>2, InductiveInvariant, PTL DEF Spec, LostForGood
=============================================================================
