------------------------------- MODULE Parts -------------------------------
(***************************************************************************)
(* Five parts that share nothing, checked side by side: a behaviour is one *)
(* of the shared files, of the chats, of the build of a program, of a      *)
(* conversation or of an answer that is read, while the variables of the   *)
(* others stand still.                                                     *)
(***************************************************************************)
EXTENDS SharedFiles

CONSTANTS
    Pages, Browsers, Chats, Absent, MaxClock, MaxPosts,        \* ChatSync
    MaxSource,                                                 \* BuildProgram
    MaxCalls, MaxRounds, MaxTurns, MaxSize, Usual, Reduced,    \* Conversation
    Tools, Default, Replies                                    \* ModelStream

ReplyKinds == {"text", "call", "args", "message", "done"}

\* A source is a number, and 1 is that of the tool.  A provider that puts a call
\* into its final message has not sent the arguments of that call in pieces.
ASSUME PartsAssumption ==
    /\ MaxSource \in Nat \ {0} /\ None \notin 0 .. MaxSource
    /\ Absent \notin [stamp : Nat, messages : SUBSET Nat]
    /\ \A budget \in {Usual, Reduced} : budget.messages \in Nat /\ budget.each \in Nat \ {0}
    /\ Default \notin Tools
    /\ Replies \subseteq Seq([kind : ReplyKinds, call : Tools \cup {Default}])
    /\ \A r \in Replies : \A m, l \in DOMAIN r :
          r[m].kind = "message" /\ r[l].kind = "args" => r[m].call # r[l].call

VARIABLES
    part,
    browser, chats, local, server, timer, posts, answer, clock, known, writer,
    kind, wants, refused, good, source, written, task, read, output, lint, saved,
    catalogued, pc, told,
    conversation, turns, phase, messages, rounds, sent,
    reply, indexed, arrived, buffer, handled, stage, run

Sync == INSTANCE ChatSync WITH used <- known
Build == INSTANCE BuildProgram
Talk == INSTANCE Conversation WITH history <- conversation
Stream == INSTANCE ModelStream WITH answer <- reply, Calls <- Tools, Answers <- Replies

chatVars == <<browser, chats, local, server, timer, posts, answer, clock, known, writer>>
buildVars == <<kind, wants, refused, good, source, written, task, read, output, lint, saved,
               catalogued, pc, told>>
talkVars == <<conversation, turns, phase, messages, rounds, sent>>
streamVars == <<reply, indexed, arrived, buffer, handled, stage, run>>
partsVars == <<part, vars, chatVars, buildVars, talkVars, streamVars>>

PartsInit ==
    /\ part \in {"files", "chats", "build", "talk", "stream"}
    /\ Init /\ Sync!Init /\ Build!Init /\ Talk!Init /\ Stream!Init
    /\ part # "chats" => \A page, other \in Pages : browser[page] = browser[other]
    /\ part # "build" => kind = "build" /\ wants = {} /\ refused = {} /\ good = {}
    /\ part # "stream" => reply = (CHOOSE r \in Replies : TRUE) /\ indexed

PartsNext ==
    /\ UNCHANGED part
    /\ \/ part = "files" /\ Next /\ UNCHANGED <<chatVars, buildVars, talkVars, streamVars>>
       \/ part = "chats" /\ Sync!Next /\ UNCHANGED <<vars, buildVars, talkVars, streamVars>>
       \/ part = "build" /\ Build!Next /\ UNCHANGED <<vars, chatVars, talkVars, streamVars>>
       \/ part = "talk" /\ Talk!Next /\ UNCHANGED <<vars, chatVars, buildVars, streamVars>>
       \/ part = "stream" /\ Stream!Next /\ UNCHANGED <<vars, chatVars, buildVars, talkVars>>

PartsSpec == PartsInit /\ [][PartsNext]_partsVars

-----------------------------------------------------------------------------
\* ChatSync: a page loses messages only to its operator or to a newer copy.
PageKeepsChats == Sync!PageKeepsChats

\* BuildProgram: what the tool says of saving, compiling and cataloging is so.
ToldIsTrue == Build!ToldIsTrue

\* Conversation: a provider is sent each result behind its call, in order.
ResultsPaired == Talk!ResultsPaired

\* ModelStream: an answer is read as it was sent, whatever the chunks.
AnswerAsSent == Stream!AnswerAsSent
=============================================================================
