------------------------------ MODULE ChatSync ------------------------------
(***************************************************************************)
(* The chats of the workspace: every page holds the whole list, writes it  *)
(* to the storage its browser shares among tabs whenever it changes, sends *)
(* it to the server 0.8 seconds later, and merges the server's list into   *)
(* its own when it boots.  The server keeps the list that came last.       *)
(*                                                                         *)
(* A chat is its stamp (updatedAt) and the messages it holds; stamps are   *)
(* taken from one clock without ties.  Not modelled: the order of the      *)
(* list, its limit of 60 chats and 200 messages, titles and profiles.      *)
(***************************************************************************)
EXTENDS Naturals, FiniteSets

CONSTANTS
    Pages,      \* open pages
    Browsers,   \* a browser shares its storage among its pages
    Chats,      \* chat ids
    Absent,     \* no such chat, and no page
    MaxClock,   \* changes that get a new stamp
    MaxPosts    \* lists on their way to the server

VARIABLES
    browser,    \* browser[p]: the browser page p is open in
    chats,      \* chats[p]: chatSessions of page p
    local,      \* local[b]: CHAT_STORE of browser b
    server,     \* chats.json
    timer,      \* pages whose chatSyncTimer is set
    posts,      \* lists on their way to the server
    answer,     \* answer[p]: the list GET /api/chats has answered with, or Absent
    clock,      \* the last stamp, which also names the message written then
    used,       \* ids given to chats
    writer      \* writer[b]: the page that wrote local[b] last (history)

vars == <<browser, chats, local, server, timer, posts, answer, clock, used, writer>>

Messages == 1..MaxClock
Copies == [stamp : Messages, messages : SUBSET Messages]
Lists == [Chats -> Copies \cup {Absent}]
NoChats == [id \in Chats |-> Absent]

TypeOK ==
    /\ browser \in [Pages -> Browsers]
    /\ chats \in [Pages -> Lists] /\ local \in [Browsers -> Lists] /\ server \in Lists
    /\ timer \subseteq Pages
    /\ posts \subseteq Lists
    /\ answer \in [Pages -> Lists \cup {Absent}]
    /\ clock \in 0..MaxClock /\ used \subseteq Chats
    /\ writer \in [Browsers -> Pages \cup {Absent}]

Init ==
    /\ browser \in [Pages -> Browsers]
    /\ chats = [p \in Pages |-> NoChats] /\ local = [b \in Browsers |-> NoChats]
    /\ server = NoChats
    /\ timer = {} /\ posts = {}
    /\ answer = [p \in Pages |-> Absent]
    /\ clock = 0 /\ used = {}
    /\ writer = [b \in Browsers |-> Absent]

-----------------------------------------------------------------------------
(* The page.                                                               *)

\* The list is on the page and in the browser's storage.
Store(p, list) ==
    /\ chats' = [chats EXCEPT ![p] = list]
    /\ local' = [local EXCEPT ![browser[p]] = list]
    /\ writer' = [writer EXCEPT ![browser[p]] = p]

\* saveChats after the list has changed: the timer starts anew.
SaveChats(p, list) ==
    /\ Store(p, list)
    /\ timer' = timer \cup {p}
    /\ UNCHANGED <<browser, server, posts, answer>>

Tick == clock < MaxClock /\ clock' = clock + 1
With(p, id, copy) == [chats[p] EXCEPT ![id] = copy]

\* requireActiveChat, newChatForProfile: a chat without messages.
NewChat(p, id) ==
    /\ id \notin used
    /\ Tick
    /\ used' = used \cup {id}
    /\ SaveChats(p, With(p, id, [stamp |-> clock', messages |-> {}]))

\* recordChatMessage, syncToolMessage
RecordMessage(p, id) ==
    /\ chats[p][id] # Absent
    /\ Tick
    /\ SaveChats(p, With(p, id, [stamp |-> clock', messages |-> chats[p][id].messages \cup {clock'}]))
    /\ UNCHANGED used

\* submitEditedMessage: the message and what follows it are dropped.
EditMessage(p, id) ==
    /\ chats[p][id] # Absent
    /\ Tick
    /\ \E m \in chats[p][id].messages :
          SaveChats(p, With(p, id, [stamp |-> clock',
                                    messages |-> {n \in chats[p][id].messages : n < m}]))
    /\ UNCHANGED used

\* The command /clear; the stamp stays.
ClearChat(p, id) ==
    /\ chats[p][id] # Absent
    /\ SaveChats(p, With(p, id, [chats[p][id] EXCEPT !.messages = {}]))
    /\ UNCHANGED <<clock, used>>

DeleteChat(p, id) ==
    /\ chats[p][id] # Absent
    /\ SaveChats(p, With(p, id, Absent))
    /\ UNCHANGED <<clock, used>>

\* Saved as it is: finishAgentRun, migrateProfileRename.
Resave(p) ==
    /\ SaveChats(p, chats[p])
    /\ UNCHANGED <<clock, used>>

\* syncChatsToServer
SyncFires(p) ==
    /\ p \in timer
    /\ Cardinality(posts \cup {chats[p]}) <= MaxPosts
    /\ timer' = timer \ {p}
    /\ posts' = posts \cup {chats[p]}
    /\ UNCHANGED <<browser, chats, local, server, answer, clock, used, writer>>

\* Mutant: what the server has is taken.
NewerAlways(copy, mine) == TRUE

\* stamp(c) >= stamp(existing)
Newer(copy, mine) == mine = Absent \/ copy.stamp >= mine.stamp

\* hydrateChatsFromServer with the answer of GET /api/chats.
Hydrate(p) ==
    /\ answer[p] # Absent
    /\ IF answer[p] = NoChats THEN UNCHANGED <<chats, local, writer>>
       ELSE Store(p, [id \in Chats |->
               IF answer[p][id] # Absent /\ Newer(answer[p][id], chats[p][id])
               THEN answer[p][id] ELSE chats[p][id]])
    /\ answer' = [answer EXCEPT ![p] = Absent]
    /\ UNCHANGED <<browser, server, timer, posts, clock, used>>

HydrateFails(p) ==
    /\ answer[p] # Absent
    /\ answer' = [answer EXCEPT ![p] = Absent]
    /\ UNCHANGED <<browser, chats, local, server, timer, posts, clock, used, writer>>

\* The page is loaded anew: loadChats, boot.  A timer that was set is gone.
Reload(p) ==
    /\ chats' = [chats EXCEPT ![p] = local[browser[p]]]
    /\ timer' = timer \ {p}
    /\ answer' = [answer EXCEPT ![p] = Absent]
    /\ UNCHANGED <<browser, local, server, posts, clock, used, writer>>

-----------------------------------------------------------------------------
(* The server.                                                             *)

\* GET /api/chats, asked for when a page is loaded or boots again after a change
\* of the profiles.  A file that is just being written reads as no chats.
ChatsServed(p) ==
    /\ answer[p] = Absent
    /\ \E list \in {server, NoChats} : answer' = [answer EXCEPT ![p] = list]
    /\ UNCHANGED <<browser, chats, local, server, timer, posts, clock, used, writer>>

\* POST /api/chats; two of them may arrive in either order, or not at all.
PostArrives(list) ==
    /\ server' = list
    /\ posts' = posts \ {list}
    /\ UNCHANGED <<browser, chats, local, timer, answer, clock, used, writer>>

PostLost(list) ==
    /\ posts' = posts \ {list}
    /\ UNCHANGED <<browser, chats, local, server, timer, answer, clock, used, writer>>

Next ==
    \/ \E p \in Pages, id \in Chats :
          NewChat(p, id) \/ RecordMessage(p, id) \/ EditMessage(p, id) \/ ClearChat(p, id)
             \/ DeleteChat(p, id)
    \/ \E p \in Pages :
          Resave(p) \/ SyncFires(p) \/ Hydrate(p) \/ HydrateFails(p) \/ Reload(p)
             \/ ChatsServed(p)
    \/ \E list \in posts : PostArrives(list) \/ PostLost(list)

Spec == Init /\ [][Next]_vars

-----------------------------------------------------------------------------
(* Properties *)

Loses(mine, next) ==
    mine # Absent /\ (next = Absent \/ ~(mine.messages \subseteq next.messages))

\* A page loses messages only where its operator drops them, or to a copy of the
\* chat that some page changed later, or cleared: whatever order answers and lists
\* arrive in, an older copy never replaces a newer one.  A reload loses nothing
\* that was on the page, sent to the server or not, unless another tab of the
\* browser wrote its own list since.
PageKeepsChats ==
    [][\A p \in Pages, id \in Chats :
          LET mine == chats[p][id]
              next == chats'[p][id]
          IN Loses(mine, next) =>
                \/ EditMessage(p, id) \/ ClearChat(p, id) \/ DeleteChat(p, id)
                \/ /\ next # Absent
                   /\ next.stamp >= mine.stamp
                   /\ next.stamp = mine.stamp => next.messages = {}
                \/ Reload(p) /\ writer[browser[p]] # p]_vars
=============================================================================
