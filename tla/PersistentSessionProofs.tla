---------------------- MODULE PersistentSessionProofs ----------------------
(***************************************************************************)
(* Whose output a command gets, for any number of calls and lines.  What   *)
(* the child has printed and what it owes is one stream; every call that   *)
(* waits for the running child has its reply as a piece of it.  And that   *)
(* nobody waits for nothing: not for a session, and not for a program that *)
(* is run once.                                                            *)
(***************************************************************************)
EXTENDS ProgramWaits, SequenceTheorems, TLAPS

\* All that the running child prints, in order.
Stream == buffer \o owed

\* The reply of c is the piece of the stream behind its first k tokens.
InStream(c, k) ==
    /\ k + Len(Reply(c)) <= Len(Stream)
    /\ \A i \in 1 .. Len(Reply(c)) : Stream[k + i] = Reply(c)[i]

\* A session without a child has nothing, and a call that sees one error sees it
\* until the next child.
ChildTrue ==
    /\ ~child => buffer = <<>> /\ owed = <<>>
    /\ closedError => ~child
    /\ patterned /\ child => Stream # <<>>

\* A marker is printed once, and not before its command is written.
MarkersOnce ==
    \A c \in Calls :
        /\ call[c] = "idle" => \A j \in 1 .. Len(Stream) : Stream[j] # Marker(c)
        /\ \A j, k \in 1 .. Len(Stream) : Stream[j] = Marker(c) /\ Stream[k] = Marker(c) => j = k

\* A call waits for its own output, with a prompt pattern from the first token on.
WaitsForOwn ==
    \A c \in Calls : call[c] = "waiting" /\ c \notin lost /\ ~closedError =>
        /\ from[c] <= Len(buffer)
        /\ patterned /\ ~behind[c] => InStream(c, from[c])
        /\ ~patterned => \E k \in Nat : from[c] <= k /\ InStream(c, k)

\* A call that has seen the prompt of the running child.
PromptShown ==
    \A c \in Calls : call[c] \in {"startup", "ready"} =>
        /\ patterned
        /\ call[c] = "ready" /\ c \notin lost /\ ~closedError => buffer # <<>>

\* A call that has not had its whole answer, or may not.
Unfinished(c) ==
    \/ call[c] \in {"waiting", "failed"}
    \/ call[c] = "answered" /\ (Lines[c] > 1 \/ behind[c])

\* Token j belongs to the reply of c, which is unfinished.
Owner(c, k, j) ==
    /\ InStream(c, k) /\ k < j /\ j <= k + Len(Reply(c))
    /\ Unfinished(c)
    /\ patterned /\ call[c] = "waiting" /\ ~behind[c] => k = from[c]

\* What is owed is owed to an unfinished call; only the first prompt is nobody's.
OwedToSomeone ==
    \A j \in (Len(buffer) + 1) .. Len(Stream) :
        (patterned /\ j = 1) \/ \E c \in Calls : \E k \in Nat : Owner(c, k, j)

Inv ==
    /\ TypeOK /\ ChildTrue /\ MarkersOnce /\ WaitsForOwn /\ PromptShown /\ OwedToSomeone

-----------------------------------------------------------------------------
(* Sequences and replies *)

\* The elements of two sequences put together.
LEMMA Joined ==
    ASSUME NEW S, NEW s \in Seq(S), NEW t \in Seq(S)
    PROVE  /\ s \o t \in Seq(S)
           /\ Len(s \o t) = Len(s) + Len(t)
           /\ \A i \in 1 .. Len(s) : (s \o t)[i] = s[i]
           /\ \A i \in 1 .. Len(t) : (s \o t)[Len(s) + i] = t[i]
BY ConcatProperties

\* The head of what is owed moves to the end of what is printed.
LEMMA HeadMoves ==
    ASSUME NEW S, NEW s \in Seq(S), NEW t \in Seq(S), t # <<>>
    PROVE  /\ Append(s, Head(t)) \in Seq(S) /\ Tail(t) \in Seq(S)
           /\ Append(s, Head(t)) \o Tail(t) = s \o t
           /\ Len(Append(s, Head(t))) = Len(s) + 1
<1>1. Head(t) \in S /\ Tail(t) \in Seq(S) /\ t = <<Head(t)>> \o Tail(t)
  BY HeadTailProperties
<1>2. Append(s, Head(t)) = s \o <<Head(t)>>
  BY <1>1, AppendIsConcat
<1>3. (s \o <<Head(t)>>) \o Tail(t) = s \o (<<Head(t)>> \o Tail(t))
  BY <1>1, ConcatAssociative
<1> QED
  BY <1>1, <1>2, <1>3, AppendProperties

\* What the reply of a call is made of.
LEMMA ReplyTokens ==
    ASSUME patterned \in BOOLEAN, NEW c \in Calls
    PROVE  /\ Reply(c) \in Seq(Tokens)
           /\ Len(Reply(c)) = IF patterned THEN 2 * Lines[c] ELSE Lines[c] + 1
           /\ Lines[c] \in Nat \ {0}
           /\ Len(Reply(c)) >= 2
           /\ Reply(c)[1] # Prompt
           /\ ~patterned => Reply(c)[Len(Reply(c))] = Marker(c)
           /\ \A d \in Calls : \A i \in 1 .. Len(Reply(c)) :
                 Reply(c)[i] = Marker(d) => ~patterned /\ d = c /\ i = Len(Reply(c))
<1>1. Lines[c] \in Nat \ {0}
  BY SessionAssumption
<1>2. /\ \A i \in Nat \ {0} : Output(c, i) \in Tokens
      /\ Prompt \in Tokens /\ Marker(c) \in Tokens
  BY DEF Tokens, Output, Prompt, Marker
<1>3. /\ \A d \in Calls, i \in Nat : Output(c, i) # Marker(d) /\ Output(c, i) # Prompt
      /\ \A d \in Calls : Prompt # Marker(d) /\ (Marker(c) = Marker(d) => d = c)
  BY DEF Output, Prompt, Marker
<1>4. CASE patterned
  <2>1. Reply(c) = [i \in 1 .. 2 * Lines[c] |->
                       IF i % 2 = 1 THEN Output(c, (i + 1) \div 2) ELSE Prompt]
    BY <1>4 DEF Reply
  <2>2. \A i \in 1 .. 2 * Lines[c] : (i % 2 = 1) => (i + 1) \div 2 \in Nat \ {0}
    BY <1>1
  <2>3. \A i \in 1 .. 2 * Lines[c] : Reply(c)[i] \in Tokens
    BY <1>2, <2>1, <2>2
  <2>4. 2 * Lines[c] \in Nat /\ 2 * Lines[c] >= 2 /\ 1 \in 1 .. 2 * Lines[c]
    BY <1>1
  <2>5. Reply(c) \in Seq(Tokens) /\ Len(Reply(c)) = 2 * Lines[c]
    <3> DEFINE f(i) == IF i % 2 = 1 THEN Output(c, (i + 1) \div 2) ELSE Prompt
    <3>1. \A i \in 1 .. 2 * Lines[c] : f(i) \in Tokens
      BY <2>1, <2>3
    <3> HIDE DEF f
    <3>2. [i \in 1 .. 2 * Lines[c] |-> f(i)] \in Seq(Tokens)
            /\ Len([i \in 1 .. 2 * Lines[c] |-> f(i)]) = 2 * Lines[c]
      BY <2>4, <3>1, IsASeq
    <3> QED
      BY <2>1, <3>2 DEF f
  <2>6. \A i \in 1 .. 2 * Lines[c] : \A d \in Calls : Reply(c)[i] # Marker(d)
    <3> TAKE i \in 1 .. 2 * Lines[c]
    <3>1. CASE i % 2 = 1
      BY <1>3, <2>1, <2>2, <3>1
    <3>2. CASE i % 2 # 1
      BY <1>3, <2>1, <3>2
    <3> QED
      BY <3>1, <3>2
  <2>7. Reply(c)[1] = Output(c, (1 + 1) \div 2)
    BY <2>1, <2>4
  <2>8. Reply(c)[1] # Prompt
    BY <2>7 DEF Output, Prompt
  <2> QED
    BY <1>1, <1>4, <2>4, <2>5, <2>6, <2>8
<1>5. CASE ~patterned
  <2>1. Reply(c) = [i \in 1 .. Lines[c] + 1 |->
                       IF i <= Lines[c] THEN Output(c, i) ELSE Marker(c)]
    BY <1>5 DEF Reply
  <2>2. Lines[c] + 1 \in Nat /\ Lines[c] + 1 >= 2
    BY <1>1
  <2>3. \A i \in 1 .. Lines[c] + 1 : IF i <= Lines[c] THEN Reply(c)[i] = Output(c, i)
                                     ELSE Reply(c)[i] = Marker(c) /\ i = Lines[c] + 1
    BY <1>1, <2>1
  <2>4. \A i \in 1 .. Lines[c] + 1 : i \in Nat \ {0}
    BY <1>1
  <2>5. \A i \in 1 .. Lines[c] + 1 : Reply(c)[i] \in Tokens
    BY <1>2, <2>3, <2>4
  <2>6. Reply(c) \in Seq(Tokens) /\ Len(Reply(c)) = Lines[c] + 1
    <3> DEFINE f(i) == IF i <= Lines[c] THEN Output(c, i) ELSE Marker(c)
    <3>1. \A i \in 1 .. Lines[c] + 1 : f(i) \in Tokens
      BY <2>1, <2>5
    <3> HIDE DEF f
    <3>2. [i \in 1 .. Lines[c] + 1 |-> f(i)] \in Seq(Tokens)
            /\ Len([i \in 1 .. Lines[c] + 1 |-> f(i)]) = Lines[c] + 1
      BY <2>2, <3>1, IsASeq
    <3> QED
      BY <2>1, <3>2 DEF f
  <2>7. Reply(c)[1] = Output(c, 1)
    BY <1>1, <2>3
  <2>8. Reply(c)[Lines[c] + 1] = Marker(c)
    BY <1>1, <2>3
  <2>9. \A d \in Calls : \A i \in 1 .. Lines[c] + 1 :
           Reply(c)[i] = Marker(d) => d = c /\ i = Lines[c] + 1
    BY <1>3, <2>3, <2>4
  <2>10. Reply(c)[1] # Prompt
    BY <1>3, <2>7
  <2> QED
    BY <1>1, <1>5, <2>2, <2>6, <2>8, <2>9, <2>10
<1> QED
  BY <1>4, <1>5

\* What agrees with the beginning of a sequence is a prefix of it.
LEMMA Prefix ==
    ASSUME NEW S, NEW s \in Seq(S), NEW t \in Seq(S), Len(s) <= Len(t),
           \A i \in 1 .. Len(s) : s[i] = t[i]
    PROVE  IsPrefix(s, t)
<1>1. SubSeq(s, 1, Len(s)) = s
  BY SubSeqFull
<1>2. SubSeq(t, 1, Len(s)) = s
  <2>1. /\ SubSeq(t, 1, Len(s)) \in Seq(S) /\ Len(SubSeq(t, 1, Len(s))) = Len(s)
        /\ \A i \in 1 .. Len(s) : SubSeq(t, 1, Len(s))[i] = t[i]
    OBVIOUS
  <2> QED
    BY <2>1, SeqEqual
<1> QED
  BY <1>1, <1>2 DEF IsPrefix

\* What is left of a sequence behind its first n elements.
LEMMA Rest ==
    ASSUME NEW S, NEW s \in Seq(S), NEW n \in Nat
    PROVE  /\ SubSeq(s, n + 1, Len(s)) \in Seq(S)
           /\ Len(SubSeq(s, n + 1, Len(s))) = IF n <= Len(s) THEN Len(s) - n ELSE 0
           /\ \A i \in 1 .. Len(SubSeq(s, n + 1, Len(s))) :
                 n + i \in 1 .. Len(s) /\ SubSeq(s, n + 1, Len(s))[i] = s[n + i]
<1> DEFINE rest == SubSeq(s, n + 1, Len(s))
<1>1. Len(s) \in Nat
  OBVIOUS
<1>2. CASE n < Len(s)
  <2>1. /\ rest = [i \in 1 .. (Len(s) - n) |-> s[n + i]]
    BY <1>1, <1>2
  <2>2. \A i \in 1 .. (Len(s) - n) : n + i \in 1 .. Len(s) /\ s[n + i] \in S
    BY <1>1, <1>2
  <2>3. Len(s) - n \in Nat
    BY <1>1, <1>2
  <2> HIDE DEF rest
  <2>4. [i \in 1 .. (Len(s) - n) |-> s[n + i]] \in Seq(S)
           /\ Len([i \in 1 .. (Len(s) - n) |-> s[n + i]]) = Len(s) - n
    BY <2>2, <2>3, IsASeq
  <2>5. rest \in Seq(S) /\ Len(rest) = Len(s) - n
    BY <2>1, <2>4
  <2>6. \A i \in 1 .. Len(rest) : n + i \in 1 .. Len(s) /\ rest[i] = s[n + i]
    BY <2>1, <2>2, <2>5
  <2> QED
    BY <1>1, <1>2, <2>5, <2>6 DEF rest
<1>3. CASE ~(n < Len(s))
  <2>1. rest = <<>>
    BY <1>1, <1>3, SubSeqEmpty
  <2> HIDE DEF rest
  <2>2. rest \in Seq(S) /\ Len(rest) = 0
    BY <2>1
  <2>3. (IF n <= Len(s) THEN Len(s) - n ELSE 0) = 0
    BY <1>1, <1>3
  <2> QED
    BY <2>2, <2>3 DEF rest
<1> QED
  BY <1>2, <1>3

\* The stream is what was printed, then what is owed.
LEMMA StreamTokens ==
    ASSUME TypeOK
    PROVE  /\ Stream \in Seq(Tokens)
           /\ Len(Stream) = Len(buffer) + Len(owed)
           /\ Len(buffer) \in Nat /\ Len(owed) \in Nat
           /\ \A i \in 1 .. Len(buffer) : Stream[i] = buffer[i]
<1>1. buffer \in Seq(Tokens) /\ owed \in Seq(Tokens)
  BY DEF TypeOK
<1> QED
  BY <1>1, Joined DEF Stream

\* The output of a call is a piece of the stream.
LEMMA OutputTokens ==
    ASSUME TypeOK, NEW c \in Calls
    PROVE  /\ OutputOf(c) \in Seq(Tokens)
           /\ Len(OutputOf(c)) = IF from[c] <= Len(buffer) THEN Len(buffer) - from[c] ELSE 0
           /\ \A i \in 1 .. Len(OutputOf(c)) :
                 /\ from[c] + i \in 1 .. Len(buffer)
                 /\ OutputOf(c)[i] = buffer[from[c] + i]
                 /\ OutputOf(c)[i] = Stream[from[c] + i]
<1>1. buffer \in Seq(Tokens) /\ from[c] \in Nat
  BY DEF TypeOK
<1>2. /\ OutputOf(c) \in Seq(Tokens)
      /\ Len(OutputOf(c)) = IF from[c] <= Len(buffer) THEN Len(buffer) - from[c] ELSE 0
      /\ \A i \in 1 .. Len(OutputOf(c)) :
            from[c] + i \in 1 .. Len(buffer) /\ OutputOf(c)[i] = buffer[from[c] + i]
  BY <1>1, Rest DEF OutputOf
<1> QED
  BY <1>2, StreamTokens

-----------------------------------------------------------------------------
(* Steps *)

\* Nothing owed and nothing printed is an empty stream.
LEMMA EmptyStream ==
    ASSUME buffer = <<>>, owed = <<>>
    PROVE  Stream = <<>> /\ Len(Stream) = 0
BY DEF Stream

\* What is in the stream stays where it is when the stream grows.
LEMMA StaysInStream ==
    ASSUME patterned \in BOOLEAN, UNCHANGED patterned, Stream \in Seq(Tokens),
           NEW t \in Seq(Tokens), Stream' = Stream \o t,
           NEW c \in Calls, NEW k \in Nat, InStream(c, k)
    PROVE  InStream(c, k)'
<1>1. Reply(c)' = Reply(c)
  BY DEF Reply
<1>2. Len(Reply(c)) \in Nat /\ Len(Stream) \in Nat /\ Len(t) \in Nat
  BY ReplyTokens
<1>3. /\ Len(Stream') = Len(Stream) + Len(t)
      /\ \A i \in 1 .. Len(Stream) : Stream'[i] = Stream[i]
  BY Joined
<1>4. \A i \in 1 .. Len(Reply(c)) : k + i \in 1 .. Len(Stream)
  BY <1>2 DEF InStream
<1> QED
  BY <1>1, <1>2, <1>3, <1>4 DEF InStream

\* An owner whose call does not change remains one.
LEMMA StaysOwner ==
    ASSUME NEW c \in Calls, NEW k \in Nat, NEW j \in Nat, Owner(c, k, j), InStream(c, k)',
           patterned' = patterned, call'[c] = call[c], behind'[c] = behind[c],
           from'[c] = from[c]
    PROVE  Owner(c, k, j)'
<1>1. Reply(c)' = Reply(c)
  BY DEF Reply
<1> QED
  BY <1>1 DEF Owner, Unfinished

\* The child prints: the stream is the same.
LEMMA EmitStep ==
    ASSUME Inv, Emit
    PROVE  Inv'
<1>1. /\ child /\ owed # <<>>
      /\ buffer' = Append(buffer, Head(owed)) /\ owed' = Tail(owed)
      /\ UNCHANGED <<patterned, child, closedError, closed, call, from, behind, lost>>
  BY DEF Emit, callVars
<1>2. buffer \in Seq(Tokens) /\ owed \in Seq(Tokens) /\ TypeOK
  BY DEF Inv, TypeOK
<1>3. /\ Stream' = Stream /\ Len(buffer') = Len(buffer) + 1
      /\ buffer' \in Seq(Tokens) /\ owed' \in Seq(Tokens)
  BY <1>1, <1>2, HeadMoves DEF Stream
<1>4. \A c \in Calls : Reply(c)' = Reply(c) /\ \A k \in Nat : InStream(c, k)' = InStream(c, k)
  <2>1. \A c \in Calls : Reply(c)' = Reply(c)
    BY <1>1 DEF Reply
  <2> QED
    BY <1>3, <2>1 DEF InStream
<1>5. Len(buffer) \in Nat /\ Len(Stream) \in Nat /\ Len(buffer') # 0
  BY <1>2, <1>3, StreamTokens
<1>6. TypeOK'
  BY <1>1, <1>2, <1>3 DEF TypeOK
<1>7. ChildTrue'
  BY <1>1, <1>3 DEF Inv, ChildTrue
<1>8. MarkersOnce'
  BY <1>1, <1>3 DEF Inv, MarkersOnce, Marker
<1>9. WaitsForOwn'
  <2> SUFFICES ASSUME NEW c \in Calls, call[c] = "waiting", c \notin lost, ~closedError
               PROVE  /\ from[c] <= Len(buffer')
                      /\ patterned /\ ~behind[c] => InStream(c, from[c])'
                      /\ ~patterned => \E k \in Nat : from[c] <= k /\ InStream(c, k)'
    BY <1>1 DEF WaitsForOwn
  <2>1. from[c] \in Nat /\ from[c] <= Len(buffer)
    BY <1>2 DEF Inv, WaitsForOwn, TypeOK
  <2>2. from[c] <= Len(buffer')
    BY <1>3, <1>5, <2>1
  <2> QED
    BY <1>1, <1>4, <2>1, <2>2 DEF Inv, WaitsForOwn
<1>10. PromptShown'
  BY <1>1, <1>5 DEF Inv, PromptShown
<1>11. OwedToSomeone'
  <2> SUFFICES ASSUME NEW j \in (Len(buffer') + 1) .. Len(Stream), ~(patterned /\ j = 1)
               PROVE  \E c \in Calls : \E k \in Nat : Owner(c, k, j)'
    BY <1>1, <1>3 DEF OwedToSomeone
  <2>1. j \in (Len(buffer) + 1) .. Len(Stream) /\ j \in Nat
    BY <1>3, <1>5
  <2>2. PICK c \in Calls, k \in Nat : Owner(c, k, j)
    BY <2>1 DEF Inv, OwedToSomeone
  <2>3. InStream(c, k)'
    BY <1>4, <2>2 DEF Owner
  <2> QED
    BY <1>1, <2>1, <2>2, <2>3, StaysOwner
<1> QED
  BY <1>6, <1>7, <1>8, <1>9, <1>10, <1>11 DEF Inv

\* The child ends: nothing is left of the stream.
LEMMA ExitStep ==
    ASSUME Inv, Exit
    PROVE  Inv'
<1>1. /\ ~child' /\ owed' = <<>> /\ buffer' = <<>> /\ closedError'
      /\ child' \in BOOLEAN /\ closedError' \in BOOLEAN
      /\ UNCHANGED <<patterned, closed, call, from, behind, lost>>
  BY DEF Exit, callVars
<1>2. Stream' = <<>> /\ Len(Stream') = 0 /\ Len(buffer') = 0
  BY <1>1 DEF Stream
<1>3. TypeOK'
  BY <1>1 DEF Inv, TypeOK
<1>4. ChildTrue'
  BY <1>1 DEF ChildTrue
<1>5. MarkersOnce' /\ OwedToSomeone'
  BY <1>2 DEF MarkersOnce, OwedToSomeone
<1>6. WaitsForOwn'
  BY <1>1 DEF WaitsForOwn
<1>7. PromptShown'
  BY <1>1 DEF Inv, PromptShown
<1> QED
  BY <1>3, <1>4, <1>5, <1>6, <1>7 DEF Inv

\* A step that leaves the stream and the child alone and changes one call at most.
LEMMA CallStep ==
    ASSUME Inv, TypeOK', UNCHANGED <<patterned, child, owed, buffer, closedError>>,
           NEW c \in Calls,
           \A d \in Calls \ {c} : /\ call'[d] = call[d] /\ from'[d] = from[d]
                                  /\ behind'[d] = behind[d] /\ (d \in lost' <=> d \in lost),
           call'[c] # "idle", call'[c] # "waiting",
           call'[c] \in {"startup", "ready"} =>
               patterned /\ (call'[c] = "ready" => buffer # <<>>),
           \A j \in (Len(buffer) + 1) .. Len(Stream), k \in Nat :
               Owner(c, k, j) => Unfinished(c)'
    PROVE  Inv'
<1>1. Stream' = Stream
  BY DEF Stream
<1>2. \A d \in Calls : Reply(d)' = Reply(d) /\ \A k \in Nat : InStream(d, k)' = InStream(d, k)
  <2>1. \A d \in Calls : Reply(d)' = Reply(d)
    BY DEF Reply
  <2> QED
    BY <1>1, <2>1 DEF InStream
<1>3. ChildTrue'
  BY <1>1 DEF Inv, ChildTrue
<1>4. MarkersOnce'
  <2>1. \A d \in Calls : call'[d] = "idle" => call[d] = "idle"
    OBVIOUS
  <2> QED
    BY <1>1, <2>1 DEF Inv, MarkersOnce, Marker
<1>5. WaitsForOwn'
  <2> SUFFICES ASSUME NEW d \in Calls \ {c}, call[d] = "waiting", d \notin lost, ~closedError
               PROVE  /\ from[d] <= Len(buffer)
                      /\ patterned /\ ~behind[d] => InStream(d, from[d])'
                      /\ ~patterned => \E k \in Nat : from[d] <= k /\ InStream(d, k)'
    BY DEF WaitsForOwn
  <2>1. from[d] \in Nat
    BY DEF Inv, TypeOK
  <2> QED
    BY <1>2, <2>1 DEF Inv, WaitsForOwn
<1>6. PromptShown'
  BY DEF Inv, PromptShown
<1>7. OwedToSomeone'
  <2> SUFFICES ASSUME NEW j \in (Len(buffer) + 1) .. Len(Stream), ~(patterned /\ j = 1)
               PROVE  \E d \in Calls : \E k \in Nat : Owner(d, k, j)'
    BY <1>1 DEF OwedToSomeone
  <2>1. PICK d \in Calls, k \in Nat : Owner(d, k, j)
    BY DEF Inv, OwedToSomeone
  <2>2. InStream(d, k)' /\ Reply(d)' = Reply(d)
    BY <1>2, <2>1 DEF Owner
  <2>3. j \in Nat
    BY StreamTokens DEF Inv
  <2>4. CASE d = c
    <3>1. Unfinished(c)'
      BY <2>1, <2>4
    <3> QED
      BY <2>1, <2>2, <2>4, <3>1 DEF Owner
  <2>5. CASE d # c
    BY <2>1, <2>2, <2>3, <2>5, StaysOwner
  <2> QED
    BY <2>4, <2>5
<1> QED
  BY <1>3, <1>4, <1>5, <1>6, <1>7 DEF Inv

\* start() without a child, by a call that will wait for the prompt.
LEMMA AbsorbStep ==
    ASSUME Inv, NEW c \in Calls, RunAbsorbs(c)
    PROVE  Inv'
<1>1. /\ call[c] = "idle" /\ patterned /\ child'
      /\ closedError' = (closedError /\ child)
      /\ lost' = IF child THEN lost ELSE lost \cup {d \in Calls : call[d] \in Before}
      /\ owed' = OwedAtStart /\ call' = [call EXCEPT ![c] = "startup"]
      /\ child' \in BOOLEAN
      /\ UNCHANGED <<patterned, buffer, closed, from, behind>>
  BY DEF RunAbsorbs, Start
<1>2. closedError => ~child
  BY DEF Inv, ChildTrue
<1>3. Prompt \in Tokens
  BY DEF Tokens
<1>4. TypeOK'
  <2>1. owed' \in Seq(Tokens)
    BY <1>1, <1>3 DEF OwedAtStart, Inv, TypeOK
  <2>2. lost' \subseteq Calls
    BY <1>1 DEF Inv, TypeOK
  <2>3. closedError' = FALSE
    BY <1>1, <1>2
  <2>4. call' \in [Calls -> Stages]
    BY <1>1 DEF Inv, TypeOK, Stages
  <2> QED
    BY <1>1, <2>1, <2>2, <2>3, <2>4 DEF Inv, TypeOK
<1>5. CASE child
  <2>1. UNCHANGED <<child, owed, closedError, lost>>
    BY <1>1, <1>2, <1>5 DEF OwedAtStart, Inv, TypeOK
  <2>2. \A d \in Calls \ {c} : call'[d] = call[d]
    BY <1>1
  <2>3. call'[c] = "startup"
    BY <1>1 DEF Inv, TypeOK
  <2>4. ~Unfinished(c)
    BY <1>1 DEF Unfinished
  <2> QED
    BY <1>1, <1>4, <2>1, <2>2, <2>3, <2>4, CallStep DEF Owner
<1>6. CASE ~child
  <2>1. buffer = <<>> /\ Stream' = <<Prompt>>
    BY <1>1, <1>6 DEF Inv, ChildTrue, OwedAtStart, Stream
  <2>2. Len(Stream') = 1 /\ Stream'[1] = Prompt /\ Stream' # <<>>
    BY <2>1
  <2>3. \A d \in Calls \ {c} : call'[d] = call[d]
    BY <1>1
  <2>4. call'[c] = "startup"
    BY <1>1 DEF Inv, TypeOK
  <2>5. \A d \in Calls \ {c} : call[d] \in Before => d \in lost'
    BY <1>1, <1>6
  <2>6. ChildTrue'
    BY <1>1, <1>2, <2>2 DEF ChildTrue
  <2>7. MarkersOnce'
    BY <2>2 DEF MarkersOnce, Marker, Prompt
  <2>8. WaitsForOwn'
    BY <2>3, <2>4, <2>5 DEF WaitsForOwn, Before
  <2>9. PromptShown'
    BY <1>1, <2>3, <2>4, <2>5 DEF Inv, PromptShown, Before
  <2>10. OwedToSomeone'
    BY <1>1, <2>1, <2>2 DEF OwedToSomeone
  <2> QED
    BY <1>4, <2>6, <2>7, <2>8, <2>9, <2>10 DEF Inv
<1> QED
  BY <1>5, <1>6

\* A command that is written: its reply is owed behind what was.
WritesBehind(c) ==
    /\ patterned => child
    /\ child' /\ child' \in BOOLEAN /\ closedError' = FALSE
    /\ UNCHANGED <<patterned, buffer, closed>>
    /\ owed' = owed \o Reply(c)
    /\ call' = [call EXCEPT ![c] = "waiting"]
    /\ from' = [from EXCEPT ![c] = Len(buffer)]
    /\ behind' = [behind EXCEPT ![c] = child /\ owed # <<>>]
    /\ lost' = IF child THEN lost ELSE lost \cup {d \in Calls : call[d] \in Before}

\* Both places that write a command do so; without a child there is no prompt.
LEMMA Writing ==
    ASSUME Inv, NEW c \in Calls, RunWrites(c) \/ ReadyWrites(c)
    PROVE  /\ WritesBehind(c)
           /\ patterned \/ call[c] = "idle"
           /\ patterned => call[c] = "ready" \/ buffer # <<>>
<1>1. /\ closedError => ~child
      /\ ~child => buffer = <<>> /\ owed = <<>>
      /\ child \in BOOLEAN /\ closedError \in BOOLEAN
      /\ call[c] = "ready" => patterned
  BY DEF Inv, ChildTrue, TypeOK, PromptShown
<1>2. CASE RunWrites(c)
  <2>1. /\ call[c] = "idle" /\ (patterned => AtPrompt(buffer))
        /\ Start /\ Write(c, OwedAtStart) /\ UNCHANGED <<patterned, buffer, closed>>
    BY <1>2 DEF RunWrites
  <2>2. patterned => buffer # <<>> /\ child
    BY <1>1, <2>1 DEF AtPrompt
  <2>3. OwedAtStart = owed
    BY <1>1, <2>2 DEF OwedAtStart
  <2>4. Write(c, owed)
    BY <2>1, <2>3
  <2>5. closedError' = FALSE
    BY <1>1, <2>1 DEF Start
  <2>6. WritesBehind(c)
    BY <2>1, <2>2, <2>4, <2>5 DEF Write, Start, WritesBehind
  <2> QED
    BY <2>1, <2>2, <2>6
<1>3. CASE ReadyWrites(c)
  <2>1. /\ call[c] = "ready" /\ child /\ Write(c, owed)
        /\ UNCHANGED <<patterned, child, buffer, closedError, closed, lost>>
    BY <1>3 DEF ReadyWrites
  <2>2. closedError' = FALSE
    BY <1>1, <2>1
  <2>3. WritesBehind(c)
    BY <1>1, <2>1, <2>2 DEF Write, WritesBehind
  <2> QED
    BY <1>1, <2>1, <2>3
<1> QED
  BY <1>2, <1>3

\* The reply of a command that is written becomes the end of the stream.
LEMMA WriteStep ==
    ASSUME Inv, NEW c \in Calls, WritesBehind(c), call[c] \in {"idle", "ready"},
           patterned \/ call[c] = "idle"
    PROVE  Inv'
<1>a. Len(Stream) \in Nat /\ Len(Reply(c)) \in Nat
  BY StreamTokens, ReplyTokens DEF Inv, TypeOK
<1>n. PICK n \in Nat : n = Len(Stream)
  BY <1>a
<1>m. PICK m \in Nat : m = Len(Reply(c))
  BY <1>a
<1>1. /\ patterned \in BOOLEAN /\ buffer \in Seq(Tokens) /\ owed \in Seq(Tokens)
      /\ Stream \in Seq(Tokens) /\ n \in Nat /\ n = Len(buffer) + Len(owed)
      /\ Len(buffer) \in Nat /\ Len(owed) \in Nat
  BY <1>n, StreamTokens DEF Inv, TypeOK
<1>2. Reply(c) \in Seq(Tokens) /\ m \in Nat /\ m >= 2
  BY <1>1, <1>m, ReplyTokens
<1>3. Stream' = Stream \o Reply(c)
  <2>1. Stream' = buffer \o (owed \o Reply(c))
    BY DEF WritesBehind, Stream
  <2> QED
    BY <1>1, <1>2, <2>1, ConcatAssociative DEF Stream
<1>4. /\ Stream' \in Seq(Tokens) /\ Len(Stream') = n + m
      /\ \A j \in 1 .. n : Stream'[j] = Stream[j]
      /\ \A i \in 1 .. m : Stream'[n + i] = Reply(c)[i]
  <2>1. Stream \in Seq(Tokens) /\ Reply(c) \in Seq(Tokens)
    BY <1>1, <1>2
  <2>2. /\ Stream \o Reply(c) \in Seq(Tokens)
        /\ Len(Stream \o Reply(c)) = Len(Stream) + Len(Reply(c))
        /\ \A j \in 1 .. Len(Stream) : (Stream \o Reply(c))[j] = Stream[j]
        /\ \A i \in 1 .. Len(Reply(c)) : (Stream \o Reply(c))[Len(Stream) + i] = Reply(c)[i]
    BY <2>1, Joined
  <2> QED
    BY <1>3, <1>n, <1>m, <2>2
<1>5. Reply(c)' = Reply(c)
  BY DEF WritesBehind, Reply
<1>6. InStream(c, n)'
  BY <1>1, <1>2, <1>4, <1>5, <1>m DEF InStream
<1>7. /\ call'[c] = "waiting" /\ from'[c] = Len(buffer)
      /\ behind'[c] = (child /\ owed # <<>>)
      /\ \A d \in Calls \ {c} : call'[d] = call[d] /\ from'[d] = from[d] /\ behind'[d] = behind[d]
  BY DEF WritesBehind, Inv, TypeOK
<1>8. \A d \in Calls, k \in Nat : InStream(d, k) => InStream(d, k)'
  BY <1>1, <1>2, <1>3, StaysInStream DEF WritesBehind
<1>9. ~child => n = 0 /\ Len(buffer) = 0 /\ ~patterned
  BY <1>n, EmptyStream DEF Inv, ChildTrue, WritesBehind
<1>10. child => closedError = FALSE /\ lost' = lost
  BY DEF Inv, ChildTrue, TypeOK, WritesBehind
<1>11. \A d \in Calls \ {c} : ~child /\ call[d] \in Before => d \in lost'
  BY DEF WritesBehind
<1>12. TypeOK'
  <2>1. owed' \in Seq(Tokens)
    BY <1>1, <1>2, Joined DEF WritesBehind
  <2>2. lost' \subseteq Calls
    BY DEF WritesBehind, Inv, TypeOK
  <2>3. call' \in [Calls -> Stages] /\ from' \in [Calls -> Nat]
    BY <1>1 DEF WritesBehind, Inv, TypeOK, Stages
  <2>4. behind' \in [Calls -> BOOLEAN]
    BY DEF WritesBehind, Inv, TypeOK
  <2> QED
    BY <2>1, <2>2, <2>3, <2>4 DEF WritesBehind, Inv, TypeOK
<1>13. ChildTrue'
  <2>1. Stream' # <<>>
    BY <1>1, <1>2, <1>4
  <2> QED
    BY <2>1 DEF WritesBehind, ChildTrue
<1>14. MarkersOnce'
  <2>1. ASSUME NEW d \in Calls, NEW j \in 1 .. Len(Stream'), Stream'[j] = Marker(d)
        PROVE  \/ j \in 1 .. n /\ Stream[j] = Marker(d)
               \/ j = n + m /\ d = c /\ ~patterned
    <3>1. CASE j <= n
      <4>1. j \in 1 .. n
        BY <3>1
      <4> QED
        BY <1>4, <2>1, <4>1
    <3>2. CASE ~(j <= n)
      <4>1. j - n \in 1 .. m /\ j = n + (j - n)
        BY <1>1, <1>2, <1>4, <3>2
      <4>2. Reply(c)[j - n] = Marker(d)
        BY <1>4, <2>1, <4>1
      <4>3. ~patterned /\ d = c /\ j - n = m
        <5>1. \A e \in Calls : \A i \in 1 .. m :
                 Reply(c)[i] = Marker(e) => ~patterned /\ e = c /\ i = m
          BY <1>1, <1>m, ReplyTokens
        <5> QED
          BY <4>1, <4>2, <5>1
      <4> QED
        BY <1>1, <1>2, <4>1, <4>3
    <3> QED
      BY <3>1, <3>2
  <2>2. \A j \in 1 .. n : ~patterned => Stream[j] # Marker(c)
    <3>1. ~patterned => call[c] = "idle"
      OBVIOUS
    <3> QED
      BY <1>n, <3>1 DEF Inv, MarkersOnce
  <2>3. ASSUME NEW d \in Calls, call'[d] = "idle", NEW j \in 1 .. Len(Stream')
        PROVE  Stream'[j] # Marker(d)
    <3>1. d # c /\ call[d] = "idle"
      BY <1>7, <2>3
    <3> QED
      BY <1>n, <2>1, <3>1 DEF Inv, MarkersOnce
  <2>4. ASSUME NEW d \in Calls, NEW j \in 1 .. Len(Stream'), NEW k \in 1 .. Len(Stream'),
               Stream'[j] = Marker(d), Stream'[k] = Marker(d)
        PROVE  j = k
    <3>1. CASE j = n + m /\ d = c /\ ~patterned
      <4>1. ~(k \in 1 .. n /\ Stream[k] = Marker(d))
        BY <2>2, <3>1
      <4> QED
        BY <2>1, <2>4, <3>1, <4>1
    <3>2. CASE j \in 1 .. n /\ Stream[j] = Marker(d)
      <4>1. ~(k = n + m /\ d = c /\ ~patterned)
        BY <2>2, <3>2
      <4>2. k \in 1 .. n /\ Stream[k] = Marker(d)
        BY <2>1, <2>4, <4>1
      <4> QED
        BY <1>n, <3>2, <4>2 DEF Inv, MarkersOnce
    <3> QED
      BY <2>1, <2>4, <3>1, <3>2
  <2>5. Marker(c)' = Marker(c) /\ \A d \in Calls : Marker(d)' = Marker(d)
    BY DEF Marker
  <2> QED
    BY <2>3, <2>4, <2>5 DEF MarkersOnce
<1>15. WaitsForOwn'
  <2>1. ASSUME NEW d \in Calls \ {c}, call[d] = "waiting", d \notin lost'
        PROVE  /\ from[d] <= Len(buffer)
               /\ patterned /\ ~behind[d] => InStream(d, from[d])'
               /\ ~patterned => \E k \in Nat : from[d] <= k /\ InStream(d, k)'
    <3>1. child
      BY <1>11, <2>1 DEF Before
    <3>2. d \notin lost /\ ~closedError
      BY <1>10, <2>1, <3>1
    <3>3. from[d] \in Nat
      BY DEF Inv, TypeOK
    <3>4. patterned /\ ~behind[d] => InStream(d, from[d])
      BY <2>1, <3>2 DEF Inv, WaitsForOwn
    <3>5. InStream(d, from[d]) => InStream(d, from[d])'
      <4>1. from'[d] = from[d]
        BY <1>7
      <4> QED
        BY <1>8, <3>3, <4>1
    <3> QED
      BY <1>8, <2>1, <3>2, <3>4, <3>5 DEF Inv, WaitsForOwn
  <2>2. /\ from'[c] <= Len(buffer)
        /\ patterned /\ ~behind'[c] => InStream(c, from[c])'
        /\ from'[c] <= n
    <3>1. from'[c] <= Len(buffer) /\ from'[c] <= n
      BY <1>1, <1>7
    <3>2. ASSUME patterned, ~behind'[c] PROVE InStream(c, from[c])'
      <4>1. owed = <<>>
        BY <1>7, <1>9, <3>2
      <4>2. from'[c] = n
        BY <1>1, <1>7, <4>1
      <4> QED
        BY <1>6, <4>2 DEF InStream
    <3> QED
      BY <3>1, <3>2
  <2>3. UNCHANGED <<patterned, buffer>>
    BY DEF WritesBehind
  <2> QED
    BY <1>1, <1>6, <1>7, <2>1, <2>2, <2>3 DEF WaitsForOwn
<1>16. PromptShown'
  <2>1. ASSUME NEW d \in Calls \ {c}, call[d] \in {"startup", "ready"}
        PROVE  patterned /\ (call[d] = "ready" /\ d \notin lost' => buffer # <<>>)
    <3>1. patterned /\ child
      BY <1>9, <2>1 DEF Inv, PromptShown
    <3> QED
      BY <1>10, <2>1, <3>1 DEF Inv, PromptShown
  <2>2. UNCHANGED <<patterned, buffer>>
    BY DEF WritesBehind
  <2> QED
    BY <1>7, <2>1, <2>2 DEF PromptShown
<1>17. OwedToSomeone'
  <2>1. UNCHANGED <<patterned, buffer>>
    BY DEF WritesBehind
  <2>2. ASSUME NEW j \in (Len(buffer) + 1) .. (n + m), ~(patterned /\ j = 1)
        PROVE  \E d \in Calls : \E k \in Nat : Owner(d, k, j)'
    <3>1. CASE j <= n
      <4>1. j \in (Len(buffer) + 1) .. n
        BY <3>1
      <4>2. PICK d \in Calls, k \in Nat : Owner(d, k, j)
        BY <1>n, <2>2, <4>1 DEF Inv, OwedToSomeone
      <4>3. d # c
        BY <4>2 DEF Owner, Unfinished
      <4>4. InStream(d, k)'
        BY <1>8, <4>2 DEF Owner
      <4>5. j \in Nat
        BY <1>1
      <4> QED
        BY <1>7, <2>1, <4>2, <4>3, <4>4, <4>5, StaysOwner
    <3>2. CASE ~(j <= n)
      <4>1. n < j /\ j <= n + m
        BY <1>1, <1>2, <3>2
      <4>2. patterned /\ ~behind'[c] => n = from'[c]
        <5> SUFFICES ASSUME patterned, ~behind'[c] PROVE n = from'[c]
          OBVIOUS
        <5>1. owed = <<>>
          BY <1>7, <1>9
        <5> QED
          BY <1>1, <1>7, <5>1
      <4>3. Unfinished(c)'
        BY <1>7 DEF Unfinished
      <4>4. Owner(c, n, j)'
        BY <1>5, <1>6, <1>m, <2>1, <4>1, <4>2, <4>3 DEF Owner, InStream
      <4> QED
        BY <1>1, <4>4
    <3> QED
      BY <3>1, <3>2
  <2> QED
    BY <1>4, <2>1, <2>2 DEF OwedToSomeone
<1> QED
  BY <1>12, <1>13, <1>14, <1>15, <1>16, <1>17 DEF Inv

\* The answer of a call whose own output comes first, or has its marker, leaves
\* nothing owed to it.
LEMMA AnsweredHasAll ==
    ASSUME Inv, NEW c \in Calls, Answer(c), NEW j \in (Len(buffer) + 1) .. Len(Stream),
           NEW k \in Nat, Owner(c, k, j)
    PROVE  Lines[c] > 1 \/ behind[c]
<1> SUFFICES ASSUME ~(Lines[c] > 1), ~behind[c] PROVE FALSE
  OBVIOUS
<1>1. /\ call[c] = "waiting" /\ Returned(c)
      /\ Len(buffer) \in Nat /\ Len(Stream) \in Nat
      /\ buffer \in Seq(Tokens) /\ from[c] \in Nat /\ patterned \in BOOLEAN
      /\ Len(buffer) <= Len(Stream)
      /\ \A i \in 1 .. Len(buffer) : Stream[i] = buffer[i]
  BY StreamTokens DEF Inv, TypeOK, Answer
<1>2. /\ Len(Reply(c)) = (IF patterned THEN 2 * Lines[c] ELSE Lines[c] + 1)
      /\ Len(Reply(c)) \in Nat /\ Reply(c)[1] # Prompt
      /\ ~patterned => Reply(c)[Len(Reply(c))] = Marker(c)
      /\ Lines[c] \in Nat \ {0} /\ Len(Reply(c)) >= 2
  BY <1>1, ReplyTokens
<1>3. /\ k + Len(Reply(c)) <= Len(Stream) /\ k < j /\ j <= k + Len(Reply(c))
      /\ \A i \in 1 .. Len(Reply(c)) : Stream[k + i] = Reply(c)[i]
      /\ patterned => k = from[c]
  BY <1>1 DEF Owner, InStream
<1>4. j > Len(buffer) /\ j \in Nat
  BY <1>1
<1>5. CASE patterned
  <2>1. AtPrompt(OutputOf(c))
    BY <1>1, <1>5 DEF Returned
  <2>2. Len(Reply(c)) = 2 /\ j <= from[c] + 2
    BY <1>2, <1>3, <1>5
  <2>3. from[c] < Len(buffer) /\ buffer[Len(buffer)] = Prompt
    <3>1. OutputOf(c) # <<>> /\ OutputOf(c)[Len(OutputOf(c))] = Prompt
      BY <2>1 DEF AtPrompt, Last
    <3>2. /\ OutputOf(c) \in Seq(Tokens)
          /\ Len(OutputOf(c)) = IF from[c] <= Len(buffer) THEN Len(buffer) - from[c] ELSE 0
          /\ \A i \in 1 .. Len(OutputOf(c)) : OutputOf(c)[i] = buffer[from[c] + i]
      BY OutputTokens DEF Inv
    <3>3. Len(OutputOf(c)) # 0
      BY <3>1, <3>2
    <3>4. from[c] < Len(buffer) /\ Len(OutputOf(c)) = Len(buffer) - from[c]
      BY <1>1, <3>2, <3>3
    <3>5. Len(OutputOf(c)) \in 1 .. Len(OutputOf(c)) /\ from[c] + Len(OutputOf(c)) = Len(buffer)
      BY <1>1, <3>4
    <3> QED
      BY <3>1, <3>2, <3>4, <3>5
  <2>4. Len(buffer) = from[c] + 1
    BY <1>1, <1>4, <2>2, <2>3
  <2>5. Stream[from[c] + 1] = Reply(c)[1]
    BY <1>2, <1>3, <1>5
  <2>6. buffer[Len(buffer)] = Reply(c)[1]
    BY <1>1, <2>4, <2>5
  <2> QED
    BY <1>2, <2>3, <2>6
<1>6. CASE ~patterned
  <2>1. PICK i \in 1 .. Len(OutputOf(c)) : OutputOf(c)[i] = Marker(c)
    BY <1>1, <1>6 DEF Returned, Contains
  <2>2. from[c] + i \in 1 .. Len(buffer) /\ OutputOf(c)[i] = Stream[from[c] + i]
    BY <2>1, OutputTokens DEF Inv
  <2>5. Stream[from[c] + i] = Marker(c)
    BY <2>1, <2>2
  <2>6. Stream[k + Len(Reply(c))] = Marker(c)
    BY <1>2, <1>3, <1>6
  <2>7. from[c] + i \in 1 .. Len(Stream) /\ k + Len(Reply(c)) \in 1 .. Len(Stream)
    <3>1. from[c] + i \in 1 .. Len(Stream)
      BY <1>1, <2>2
    <3>2. PICK l \in Nat : l = Len(Reply(c)) /\ l >= 2
      BY <1>2
    <3>3. k + l <= Len(Stream)
      BY <1>3, <3>2
    <3>4. k + l \in 1 .. Len(Stream)
      BY <1>1, <3>2, <3>3
    <3> QED
      BY <3>1, <3>2, <3>4
  <2>8. from[c] + i = k + Len(Reply(c))
    BY <2>5, <2>6, <2>7 DEF Inv, MarkersOnce
  <2>9. k + Len(Reply(c)) <= Len(buffer)
    BY <1>1, <2>2, <2>8
  <2> QED
    BY <1>1, <1>2, <1>3, <1>4, <2>9
<1> QED
  BY <1>5, <1>6

\* Every step keeps the invariant.
LEMMA InductiveStep ==
    ASSUME Inv, [Next]_vars
    PROVE  Inv'
<1>1. ASSUME NEW c \in Calls, RunWrites(c) \/ ReadyWrites(c)
      PROVE  Inv'
  <2>1. call[c] \in {"idle", "ready"}
    BY <1>1 DEF RunWrites, ReadyWrites
  <2> QED
    BY <1>1, <2>1, Writing, WriteStep
<1>2. ASSUME NEW c \in Calls, PromptSeen(c)
      PROVE  Inv'
  <2>1. /\ call[c] = "startup" /\ buffer # <<>> /\ call' = [call EXCEPT ![c] = "ready"]
        /\ UNCHANGED <<patterned, child, owed, buffer, closedError, closed, from, behind, lost>>
    BY <1>2 DEF PromptSeen, AtPrompt, childVars
  <2>2. TypeOK'
    BY <2>1 DEF Inv, TypeOK, Stages
  <2>3. call'[c] = "ready" /\ \A d \in Calls \ {c} : call'[d] = call[d]
    BY <2>1 DEF Inv, TypeOK
  <2>4. ~Unfinished(c) /\ patterned
    BY <2>1 DEF Unfinished, Inv, PromptShown
  <2> QED
    BY <2>1, <2>2, <2>3, <2>4, CallStep DEF Owner
<1>3. ASSUME NEW c \in Calls, GiveUp(c)
      PROVE  Inv'
  <2>1. /\ call' = [call EXCEPT ![c] = "failed"] /\ from' = [from EXCEPT ![c] = 0]
        /\ behind' = [behind EXCEPT ![c] = FALSE] /\ lost' = lost \ {c}
        /\ UNCHANGED <<patterned, child, owed, buffer, closedError, closed>>
    BY <1>3 DEF GiveUp, childVars
  <2>2. TypeOK'
    BY <2>1 DEF Inv, TypeOK, Stages
  <2>3. call'[c] = "failed"
    BY <2>1 DEF Inv, TypeOK
  <2>4. \A d \in Calls \ {c} : /\ call'[d] = call[d] /\ from'[d] = from[d]
                               /\ behind'[d] = behind[d] /\ (d \in lost' <=> d \in lost)
    BY <2>1 DEF Inv, TypeOK
  <2>5. Unfinished(c)'
    BY <2>3 DEF Unfinished
  <2> QED
    BY <2>1, <2>2, <2>3, <2>4, <2>5, CallStep
<1>4. ASSUME NEW c \in Calls, Answer(c)
      PROVE  Inv'
  <2>1. /\ call' = [call EXCEPT ![c] = "answered"] /\ from' = [from EXCEPT ![c] = 0]
        /\ lost' = lost \ {c}
        /\ UNCHANGED <<patterned, child, owed, buffer, closedError, closed, behind>>
    BY <1>4 DEF Answer, childVars
  <2>2. TypeOK'
    BY <2>1 DEF Inv, TypeOK, Stages
  <2>3. call'[c] = "answered"
    BY <2>1 DEF Inv, TypeOK
  <2>4. \A d \in Calls \ {c} : /\ call'[d] = call[d] /\ from'[d] = from[d]
                               /\ behind'[d] = behind[d] /\ (d \in lost' <=> d \in lost)
    BY <2>1 DEF Inv, TypeOK
  <2>5. \A j \in (Len(buffer) + 1) .. Len(Stream), k \in Nat :
           Owner(c, k, j) => Lines[c] > 1 \/ behind[c]
    BY <1>4, AnsweredHasAll
  <2>6. Lines[c] > 1 \/ behind[c] => Unfinished(c)'
    BY <2>1, <2>3 DEF Unfinished
  <2> QED
    BY <2>1, <2>2, <2>3, <2>4, <2>5, <2>6, CallStep
<1>5. ASSUME UNCHANGED <<patterned, child, owed, buffer, closedError, call, from, behind, lost>>,
             closed' \in BOOLEAN
      PROVE  Inv'
  <2>1. Stream' = Stream
    BY <1>5 DEF Stream
  <2>2. \A c \in Calls : Reply(c)' = Reply(c)
    BY <1>5 DEF Reply
  <2>3. \A c \in Calls, k \in Nat : InStream(c, k)' = InStream(c, k)
    BY <2>1, <2>2 DEF InStream
  <2>4. TypeOK' /\ ChildTrue' /\ PromptShown'
    BY <1>5, <2>1 DEF Inv, TypeOK, ChildTrue, PromptShown
  <2>5. MarkersOnce'
    BY <1>5, <2>1 DEF Inv, MarkersOnce, Marker
  <2>6. WaitsForOwn'
    BY <1>5, <2>3 DEF Inv, WaitsForOwn, TypeOK
  <2>7. OwedToSomeone'
    BY <1>5, <2>1, <2>2, <2>3 DEF Inv, OwedToSomeone, Owner, Unfinished
  <2> QED
    BY <2>4, <2>5, <2>6, <2>7 DEF Inv
<1>6. CASE Close
  BY <1>5, <1>6 DEF Close, childVars, callVars
<1>7. CASE UNCHANGED vars
  BY <1>5, <1>7 DEF vars, Inv, TypeOK
<1>8. CASE Next
  BY <1>1, <1>2, <1>3, <1>4, <1>6, <1>8, EmitStep, ExitStep, AbsorbStep DEF Next
<1> QED
  BY <1>7, <1>8

-----------------------------------------------------------------------------
(* Theorems *)

\* Inv is inductive, for any number of calls and lines.
THEOREM InductiveInvariant == Spec => []Inv
<1>1. Init => Inv
  <2> SUFFICES ASSUME Init PROVE Inv
    OBVIOUS
  <2>1. buffer = <<>> /\ owed = <<>> /\ child = FALSE /\ closedError = FALSE /\ lost = {}
    BY DEF Init
  <2>2. TypeOK
    <3>1. buffer \in Seq(Tokens) /\ owed \in Seq(Tokens)
      BY <2>1
    <3> QED
      BY <3>1 DEF Init, TypeOK, Stages
  <2>3. ChildTrue
    BY <2>1 DEF ChildTrue
  <2>4. MarkersOnce /\ OwedToSomeone
    BY <2>1, EmptyStream DEF MarkersOnce, OwedToSomeone
  <2>5. WaitsForOwn /\ PromptShown
    BY DEF Init, WaitsForOwn, PromptShown
  <2> QED
    BY <2>2, <2>3, <2>4, <2>5 DEF Inv
<1> QED
  BY <1>1, InductiveStep, PTL DEF Spec

\* TypeOK: every variable of a session keeps its type.
THEOREM TypeCorrect == Spec => []TypeOK
BY InductiveInvariant, PTL DEF Inv

\* What a waiting call returns is its own output.
LEMMA ReturnsOwn ==
    ASSUME Inv, NEW c \in Calls, Answer(c), c \notin lost, ~(patterned /\ behind[c])
    PROVE  OwnAnswer(c, OutputOf(c))
<1> DEFINE out == OutputOf(c)
<1>1. /\ call[c] = "waiting" /\ Returned(c) /\ ~closedError
      /\ Len(buffer) \in Nat /\ Len(Stream) \in Nat
      /\ buffer \in Seq(Tokens) /\ from[c] \in Nat /\ patterned \in BOOLEAN
      /\ Len(buffer) <= Len(Stream)
      /\ \A i \in 1 .. Len(buffer) : Stream[i] = buffer[i]
  BY StreamTokens DEF Inv, TypeOK, Answer
<1>2. /\ from[c] <= Len(buffer)
      /\ patterned /\ ~behind[c] => InStream(c, from[c])
      /\ ~patterned => \E k \in Nat : from[c] <= k /\ InStream(c, k)
  BY <1>1 DEF Inv, WaitsForOwn
<1>3. /\ out \in Seq(Tokens) /\ Len(out) = Len(buffer) - from[c]
      /\ Len(buffer) - from[c] \in Nat
      /\ \A i \in 1 .. Len(out) : /\ out[i] = buffer[from[c] + i]
                                  /\ out[i] = Stream[from[c] + i]
                                  /\ from[c] + i \in 1 .. Len(buffer)
  <2>1. Len(buffer) - from[c] \in Nat
    BY <1>1, <1>2
  <2> QED
    BY <1>2, <2>1, OutputTokens DEF Inv
<1>4. /\ Reply(c) \in Seq(Tokens) /\ Len(Reply(c)) \in Nat /\ Len(Reply(c)) >= 2
      /\ ~patterned => Reply(c)[Len(Reply(c))] = Marker(c)
  BY <1>1, ReplyTokens
<1> HIDE DEF out
<1>5. CASE patterned
  <2> SUFFICES IsPrefix(out, Reply(c)) \/ IsPrefix(Reply(c), out)
    BY <1>5 DEF out, OwnAnswer
  <2>1. \A i \in 1 .. Len(Reply(c)) : Stream[from[c] + i] = Reply(c)[i]
    BY <1>2, <1>5 DEF InStream
  <2>2. \A i \in 1 .. Len(out) : out[i] = Stream[from[c] + i]
    BY <1>3
  <2>3. \A i \in 1 .. Len(out) : i <= Len(Reply(c)) => out[i] = Reply(c)[i]
    BY <1>3, <1>4, <2>1, <2>2
  <2>4. CASE Len(out) <= Len(Reply(c))
    <3>1. \A i \in 1 .. Len(out) : out[i] = Reply(c)[i]
      BY <1>3, <1>4, <2>3, <2>4
    <3> QED
      BY <1>3, <1>4, <2>4, <3>1, Prefix
  <2>5. CASE Len(Reply(c)) <= Len(out)
    <3>1. \A i \in 1 .. Len(Reply(c)) : Reply(c)[i] = out[i]
      BY <1>3, <1>4, <2>3, <2>5
    <3> QED
      BY <1>3, <1>4, <2>5, <3>1, Prefix
  <2> QED
    BY <1>3, <1>4, <2>4, <2>5
<1>6. CASE ~patterned
  <2>1. PICK k \in Nat : from[c] <= k /\ InStream(c, k)
    BY <1>2, <1>6
  <2>2. PICK p \in 1 .. Len(out) : out[p] = Marker(c)
    BY <1>1, <1>6 DEF Returned, Contains, out
  <2>3. Stream[from[c] + p] = Marker(c) /\ from[c] + p \in 1 .. Len(buffer)
    BY <1>3, <2>2
  <2>4. k + Len(Reply(c)) <= Len(Stream) /\ Stream[k + Len(Reply(c))] = Marker(c)
    BY <1>4, <1>6, <2>1 DEF InStream
  <2>5. from[c] + p \in 1 .. Len(Stream) /\ k + Len(Reply(c)) \in 1 .. Len(Stream)
    BY <1>1, <1>4, <2>3, <2>4
  <2>6. k + Len(Reply(c)) = from[c] + p
    BY <2>3, <2>4, <2>5 DEF Inv, MarkersOnce
  <2>7. k - from[c] \in 0 .. Len(out) /\ (k - from[c]) + Len(Reply(c)) = p
    <3>1. p \in Nat /\ p <= Len(out) /\ Len(out) \in Nat
      BY <1>3
    <3>2. PICK f, l, n \in Nat : f = from[c] /\ l = Len(Reply(c)) /\ n = Len(out)
      BY <1>1, <1>4, <3>1
    <3>3. k + l = f + p /\ f <= k /\ l >= 2 /\ p \in Nat /\ p <= n
      BY <1>4, <2>1, <2>6, <3>1, <3>2
    <3>4. k - f \in 0 .. n /\ (k - f) + l = p
      <4>1. k - f \in Nat
        BY <3>3
      <4>2. (k - f) + l = p
        BY <3>3
      <4>3. k - f <= n
        BY <3>3
      <4> QED
        BY <4>1, <4>2, <4>3
    <3> QED
      BY <3>2, <3>4
  <2> DEFINE rest == SubSeq(out, (k - from[c]) + 1, Len(out))
  <2>8. /\ rest \in Seq(Tokens) /\ Len(rest) = Len(out) - (k - from[c])
        /\ \A i \in 1 .. Len(rest) : rest[i] = out[(k - from[c]) + i]
    <3>1. PICK o \in Nat : o = k - from[c] /\ o <= Len(out)
      BY <1>3, <2>7
    <3>2. /\ SubSeq(out, o + 1, Len(out)) \in Seq(Tokens)
          /\ Len(SubSeq(out, o + 1, Len(out))) = Len(out) - o
          /\ \A i \in 1 .. Len(SubSeq(out, o + 1, Len(out))) :
                SubSeq(out, o + 1, Len(out))[i] = out[o + i]
      BY <1>3, <3>1, Rest
    <3> QED
      BY <3>1, <3>2
  <2> HIDE DEF rest
  <2>9. Len(Reply(c)) <= Len(rest)
    BY <1>3, <1>4, <2>2, <2>7, <2>8
  <2>10. \A i \in 1 .. Len(Reply(c)) : Reply(c)[i] = rest[i]
    <3> TAKE i \in 1 .. Len(Reply(c))
    <3>1. rest[i] = out[(k - from[c]) + i]
      BY <1>4, <2>8, <2>9
    <3>2. i \in Nat /\ i >= 1 /\ i <= Len(Reply(c)) /\ p <= Len(out) /\ Len(out) \in Nat
      BY <1>3, <1>4
    <3>3. (k - from[c]) + i \in 1 .. Len(out) /\ from[c] + ((k - from[c]) + i) = k + i
      <4>1. PICK f, l \in Nat : f = from[c] /\ l = Len(Reply(c))
        BY <1>1, <1>4
      <4>2. f <= k /\ (k - f) + l = p /\ i <= l
        BY <2>1, <2>7, <3>2, <4>1
      <4>3. (k - f) + i \in 1 .. Len(out) /\ f + ((k - f) + i) = k + i
        BY <3>2, <4>1, <4>2
      <4> QED
        BY <4>1, <4>3
    <3>4. out[(k - from[c]) + i] = Stream[k + i]
      BY <1>3, <3>3
    <3> QED
      BY <2>1, <3>1, <3>4 DEF InStream
  <2>11. IsPrefix(Reply(c), rest)
    BY <1>4, <2>8, <2>9, <2>10, Prefix
  <2> QED
    BY <1>6, <2>7, <2>11 DEF out, rest, OwnAnswer
<1> QED
  BY <1>1, <1>5, <1>6

\* A call that is written behind something owed is behind an unfinished one.
LEMMA BehindSomeone ==
    ASSUME Inv, NEW c \in Calls, RunWrites(c) \/ ReadyWrites(c), behind'[c], ~behind[c]
    PROVE  c \in lost \/ \E d \in Calls \ {c} : Unfinished(d)
<1> SUFFICES ASSUME c \notin lost PROVE \E d \in Calls \ {c} : Unfinished(d)
  OBVIOUS
<1>1. WritesBehind(c) /\ call[c] \in {"idle", "ready"}
        /\ (patterned => call[c] = "ready" \/ buffer # <<>>)
  BY Writing DEF RunWrites, ReadyWrites
<1>2. child /\ owed # <<>>
  BY <1>1 DEF WritesBehind, Inv, TypeOK
<1>3. patterned => buffer # <<>>
  BY <1>1, <1>2 DEF Inv, PromptShown, ChildTrue
<1>4. /\ Len(buffer) \in Nat /\ Len(Stream) = Len(buffer) + Len(owed) /\ Len(owed) \in Nat
      /\ buffer \in Seq(Tokens) /\ owed \in Seq(Tokens)
  BY StreamTokens DEF Inv, TypeOK
<1>5. Len(buffer) + 1 \in (Len(buffer) + 1) .. Len(Stream)
  <2>1. Len(owed) >= 1
    BY <1>2, <1>4
  <2> QED
    BY <1>4, <2>1
<1>6. ~(patterned /\ Len(buffer) + 1 = 1)
  BY <1>3, <1>4
<1>7. PICK d \in Calls, k \in Nat : Owner(d, k, Len(buffer) + 1)
  BY <1>5, <1>6 DEF Inv, OwedToSomeone
<1>8. d # c
  BY <1>1, <1>7 DEF Owner, Unfinished
<1> QED
  BY <1>7, <1>8 DEF Owner

\* Only run() itself ends or writes a call.
LEMMA OneCaller ==
    ASSUME TypeOK, [Next]_vars, NEW c \in Calls
    PROVE  /\ call[c] = "waiting" /\ call'[c] = "answered" => Answer(c)
           /\ behind'[c] /\ ~behind[c] => RunWrites(c) \/ ReadyWrites(c)
<1> USE DEF TypeOK
<1>1. ASSUME NEW d \in Calls, RunWrites(d)
      PROVE  /\ ~(call[c] = "waiting" /\ call'[c] = "answered")
             /\ d # c => behind'[c] = behind[c]
  BY <1>1 DEF RunWrites, Write
<1>2. ASSUME NEW d \in Calls, ReadyWrites(d)
      PROVE  /\ ~(call[c] = "waiting" /\ call'[c] = "answered")
             /\ d # c => behind'[c] = behind[c]
  BY <1>2 DEF ReadyWrites, Write
<1>3. ASSUME NEW d \in Calls, RunAbsorbs(d) \/ PromptSeen(d)
      PROVE  ~(call[c] = "waiting" /\ call'[c] = "answered") /\ behind' = behind
  BY <1>3 DEF RunAbsorbs, PromptSeen
<1>4. ASSUME NEW d \in Calls, GiveUp(d)
      PROVE  ~(call[c] = "waiting" /\ call'[c] = "answered") /\ (behind'[c] => behind[c])
  BY <1>4 DEF GiveUp
<1>5. ASSUME NEW d \in Calls, Answer(d)
      PROVE  (d # c => call'[c] = call[c]) /\ behind' = behind
  BY <1>5 DEF Answer
<1>6. CASE Emit \/ Exit \/ Close \/ UNCHANGED vars
  BY <1>6 DEF Emit, Exit, Close, callVars, vars
<1>7. CASE Next
  BY <1>1, <1>2, <1>3, <1>4, <1>5, <1>6, <1>7 DEF Next
<1> QED
  BY <1>6, <1>7

\* AnswersOwn: whatever the callers of a session overlap, give up or outlive, an
\* answer is the command's own output unless output was owed when it was written.
THEOREM AnswersAreOwn == Spec => AnswersOwn
<1>1. Inv /\ [Next]_vars =>
         \A c \in Calls : call[c] = "waiting" /\ call'[c] = "answered" =>
            \/ c \in lost \/ (patterned /\ behind[c])
            \/ OwnAnswer(c, OutputOf(c))
  BY OneCaller, ReturnsOwn DEF Inv
<1> QED
  BY <1>1, InductiveInvariant, PTL DEF Spec, AnswersOwn

\* BehindUnfinished: output is owed when a command is written only because another
\* call has not had its whole answer, or the prompt was that of a dead child.
THEOREM OwedToTheUnfinished == Spec => BehindUnfinished
<1>1. Inv /\ [Next]_vars =>
         \A c \in Calls : behind'[c] /\ ~behind[c] =>
            c \in lost \/ \E d \in Calls \ {c} :
                call[d] \in {"waiting", "failed"} \/ Lines[d] > 1 \/ behind[d]
  BY OneCaller, BehindSomeone DEF Inv, Unfinished
<1> QED
  BY <1>1, InductiveInvariant, PTL DEF Spec, BehindUnfinished

-----------------------------------------------------------------------------
(* What there is to the return of a call besides fairness *)

\* What is still to come for those who wait: the stream of a child with a prompt
\* pattern ends in a prompt, and something of it is behind what a call has passed.
\* Without a child and without its error nobody has called yet.
Coming ==
    /\ patterned /\ child => Stream # <<>> /\ Stream[Len(Stream)] = Prompt
    /\ ~child /\ ~closedError => \A c \in Calls : call[c] = "idle"
    /\ \A c \in Calls : call[c] = "waiting" /\ c \notin lost /\ ~closedError =>
          from[c] < Len(Stream)

\* Nobody waits for nothing: who is about to write has a child to write to, or the
\* error that makes him give up, and who waits for output has such an error, is owed
\* some, or has his answer.
WaitsForSomething ==
    \A c \in Calls :
        /\ call[c] = "ready" => child \/ closedError
        /\ call[c] = "waiting" /\ c \notin lost =>
              closedError \/ (child /\ (owed # <<>> \/ Returned(c)))

\* D3 prompts behind the last line of a command.
LEMMA ReplyEnds ==
    ASSUME patterned = TRUE, NEW c \in Calls
    PROVE  Reply(c)[Len(Reply(c))] = Prompt
<1>1. Lines[c] \in Nat \ {0}
  BY SessionAssumption
<1>2. Reply(c) = [i \in 1 .. 2 * Lines[c] |->
                     IF i % 2 = 1 THEN Output(c, (i + 1) \div 2) ELSE Prompt]
  BY DEF Reply
<1>3. Len(Reply(c)) = 2 * Lines[c]
  BY ReplyTokens
<1>4. 2 * Lines[c] \in 1 .. 2 * Lines[c] /\ (2 * Lines[c]) % 2 # 1
  BY <1>1
<1> QED
  BY <1>2, <1>3, <1>4

\* A command that is written has its reply still to come.
LEMMA WriteComing ==
    ASSUME Inv, Coming, NEW c \in Calls, WritesBehind(c)
    PROVE  Coming'
<1>1. /\ patterned \in BOOLEAN /\ buffer \in Seq(Tokens) /\ owed \in Seq(Tokens)
      /\ Stream \in Seq(Tokens) /\ Len(Stream) \in Nat
      /\ Len(Stream) = Len(buffer) + Len(owed) /\ Len(buffer) \in Nat /\ Len(owed) \in Nat
  BY StreamTokens DEF Inv, TypeOK
<1>2. Reply(c) \in Seq(Tokens) /\ Len(Reply(c)) \in Nat /\ Len(Reply(c)) >= 2
  BY <1>1, ReplyTokens
<1>3. Stream' = Stream \o Reply(c)
  <2>1. Stream' = buffer \o (owed \o Reply(c))
    BY DEF WritesBehind, Stream
  <2> QED
    BY <1>1, <1>2, <2>1, ConcatAssociative DEF Stream
<1>4. /\ Len(Stream') = Len(Stream) + Len(Reply(c))
      /\ Stream'[Len(Stream) + Len(Reply(c))] = Reply(c)[Len(Reply(c))]
  <2>1. Len(Reply(c)) \in 1 .. Len(Reply(c))
    BY <1>2
  <2>2. Stream \in Seq(Tokens) /\ Reply(c) \in Seq(Tokens)
    BY <1>1, <1>2
  <2>3. /\ Len(Stream \o Reply(c)) = Len(Stream) + Len(Reply(c))
        /\ \A i \in 1 .. Len(Reply(c)) : (Stream \o Reply(c))[Len(Stream) + i] = Reply(c)[i]
    BY <2>2, Joined
  <2> QED
    BY <1>3, <2>1, <2>3
<1>5. patterned' => Stream' # <<>> /\ Stream'[Len(Stream')] = Prompt
  <2>1. Len(Stream') # 0
    BY <1>1, <1>2, <1>4
  <2>2. patterned' => Reply(c)[Len(Reply(c))] = Prompt
    BY <1>1, ReplyEnds DEF WritesBehind
  <2> QED
    BY <1>4, <2>1, <2>2
<1>6. ASSUME NEW d \in Calls, call'[d] = "waiting", d \notin lost'
      PROVE  from'[d] < Len(Stream')
  <2>1. CASE d = c
    <3>1. from'[d] = Len(buffer)
      BY <2>1 DEF WritesBehind, Inv, TypeOK
    <3> QED
      BY <1>1, <1>2, <1>4, <3>1
  <2>2. CASE d # c
    <3>1. call[d] = "waiting" /\ from'[d] = from[d] /\ from[d] \in Nat
      BY <1>6, <2>2 DEF WritesBehind, Inv, TypeOK
    <3>2. child /\ d \notin lost
      BY <1>6, <3>1 DEF WritesBehind, Before
    <3>3. ~closedError
      BY <3>2 DEF Inv, ChildTrue
    <3>4. from[d] < Len(Stream)
      BY <3>1, <3>2, <3>3 DEF Coming
    <3> QED
      BY <1>1, <1>2, <1>4, <3>1, <3>4
  <2> QED
    BY <2>1, <2>2
<1>7. child'
  BY DEF WritesBehind
<1> QED
  BY <1>5, <1>6, <1>7 DEF Coming

\* Coming is kept by every step.
LEMMA ComingStep ==
    ASSUME Inv, Coming, [Next]_vars
    PROVE  Coming'
<1>1. ASSUME NEW c \in Calls, RunWrites(c) \/ ReadyWrites(c)
      PROVE  Coming'
  BY <1>1, Writing, WriteComing
<1>2. ASSUME NEW c \in Calls, RunAbsorbs(c)
      PROVE  Coming'
  <2>1. /\ patterned /\ child' /\ call'[c] = "startup" /\ owed' = OwedAtStart
        /\ \A d \in Calls \ {c} : call'[d] = call[d]
        /\ lost' = IF child THEN lost ELSE lost \cup {d \in Calls : call[d] \in Before}
        /\ UNCHANGED <<patterned, buffer, from>>
    BY <1>2 DEF RunAbsorbs, Start, Inv, TypeOK
  <2>2. CASE child
    <3>1. Stream' = Stream /\ ~closedError
      BY <2>1, <2>2 DEF OwedAtStart, Stream, Inv, ChildTrue
    <3> QED
      BY <2>1, <2>2, <3>1 DEF Coming
  <2>3. CASE ~child
    <3>1. Stream' = <<Prompt>>
      BY <2>1, <2>3 DEF OwedAtStart, Stream, Inv, ChildTrue
    <3>2. Stream' # <<>> /\ Stream'[Len(Stream')] = Prompt
      BY <3>1
    <3>3. \A d \in Calls : call'[d] = "waiting" => d \in lost'
      BY <2>1, <2>3 DEF Before
    <3> QED
      BY <2>1, <3>2, <3>3 DEF Coming
  <2> QED
    BY <2>2, <2>3
<1>3. ASSUME NEW c \in Calls, PromptSeen(c) \/ GiveUp(c) \/ Answer(c)
      PROVE  Coming'
  <2>1. /\ UNCHANGED <<patterned, buffer, owed, child, closedError>>
        /\ call'[c] \in {"ready", "failed", "answered"} /\ call[c] # "idle"
        /\ \A d \in Calls \ {c} :
              call'[d] = call[d] /\ from'[d] = from[d] /\ (d \in lost' <=> d \in lost)
    BY <1>3 DEF PromptSeen, GiveUp, Answer, childVars, Inv, TypeOK
  <2>2. Stream' = Stream
    BY <2>1 DEF Stream
  <2> QED
    BY <2>1, <2>2 DEF Coming
<1>4. CASE Emit
  <2>1. Stream' = Stream /\ UNCHANGED <<patterned, child, closedError, call, from, lost>>
    BY <1>4, HeadMoves DEF Emit, callVars, Stream, Inv, TypeOK
  <2> QED
    BY <2>1 DEF Coming
<1>5. CASE Exit
  BY <1>5 DEF Exit, Coming
<1>6. CASE Close \/ UNCHANGED vars
  <2>1. UNCHANGED <<patterned, child, buffer, owed, closedError, call, from, lost>>
    BY <1>6 DEF Close, childVars, callVars, vars
  <2>2. Stream' = Stream
    BY <2>1 DEF Stream
  <2> QED
    BY <2>1, <2>2 DEF Coming
<1> QED
  BY <1>1, <1>2, <1>3, <1>4, <1>5, <1>6 DEF Next

\* A call that waits and is owed nothing has its answer.
LEMMA NothingOwed ==
    ASSUME Inv, Coming, NEW c \in Calls, call[c] = "waiting", c \notin lost, ~closedError,
           owed = <<>>
    PROVE  Returned(c)
<1>1. /\ Len(Stream) = Len(buffer) /\ Len(buffer) \in Nat /\ from[c] \in Nat
      /\ patterned \in BOOLEAN /\ TypeOK
  BY StreamTokens DEF Inv, TypeOK
<1>2. child /\ from[c] < Len(Stream)
  BY DEF Coming
<1>3. /\ Len(OutputOf(c)) = Len(buffer) - from[c]
      /\ \A i \in 1 .. Len(OutputOf(c)) : OutputOf(c)[i] = Stream[from[c] + i]
  BY <1>1, <1>2, OutputTokens
<1>4. CASE patterned
  <2>1. Len(OutputOf(c)) \in 1 .. Len(OutputOf(c)) /\ from[c] + Len(OutputOf(c)) = Len(Stream)
    BY <1>1, <1>2, <1>3
  <2>2. OutputOf(c)[Len(OutputOf(c))] = Prompt
    BY <1>2, <1>3, <1>4, <2>1 DEF Coming
  <2>3. OutputOf(c) # <<>>
    BY <2>1
  <2> QED
    BY <1>4, <2>2, <2>3 DEF Returned, AtPrompt, Last
<1>5. CASE ~patterned
  <2>1. PICK k \in Nat : from[c] <= k /\ InStream(c, k)
    BY <1>5 DEF Inv, WaitsForOwn
  <2>2. Len(Reply(c)) \in Nat /\ Len(Reply(c)) >= 2 /\ Reply(c)[Len(Reply(c))] = Marker(c)
    BY <1>1, <1>5, ReplyTokens
  <2>3. /\ k + Len(Reply(c)) <= Len(Stream)
        /\ Stream[k + Len(Reply(c))] = Marker(c)
    BY <2>1, <2>2 DEF InStream
  <2>4. PICK i \in Nat : i = k + Len(Reply(c)) - from[c]
    BY <1>1, <2>1, <2>2
  <2>5. i \in 1 .. Len(OutputOf(c)) /\ from[c] + i = k + Len(Reply(c))
    BY <1>1, <1>3, <2>1, <2>2, <2>3, <2>4
  <2>6. OutputOf(c)[i] = Marker(c)
    BY <1>3, <2>3, <2>5
  <2> QED
    BY <1>5, <2>5, <2>6 DEF Returned, Contains
<1> QED
  BY <1>4, <1>5

\* The safety half of RunReturns: no call waits for nothing, however many overlap,
\* give up, or see their child end and another start.
THEOREM RunsWaitForSomething == Spec => []WaitsForSomething
<1>1. Init => Coming
  BY DEF Init, Coming
<1>2. Inv /\ Coming => WaitsForSomething
  <2> SUFFICES ASSUME Inv, Coming, NEW c \in Calls
               PROVE  /\ call[c] = "ready" => child \/ closedError
                      /\ call[c] = "waiting" /\ c \notin lost =>
                            closedError \/ (child /\ (owed # <<>> \/ Returned(c)))
    BY DEF WaitsForSomething
  <2> QED
    BY NothingOwed DEF Coming
<1> QED
  BY <1>1, <1>2, ComingStep, InductiveInvariant, PTL DEF Spec

-----------------------------------------------------------------------------
(* Programs run once *)

\* A wait that has not begun, that ended, or whose program could not be executed.
RunStages ==
    /\ Run!TypeOK
    /\ started = "no" => /\ running = {} /\ told = {} /\ ~over /\ ~timer /\ ~early
                        /\ result = "none"
    /\ started # "yes" => line = "none" /\ running = {}
    /\ kind # "process" => timed
    /\ early => aborted
    /\ aborted => Run!Abortable
    /\ timer => result = "none"
    /\ over => running = {} /\ result # "none"

\* Who was told to stop, and what the caller knows of it.
ToldStops ==
    /\ kind = "process" /\ told # {} => result # "none"
    /\ kind = "process" /\ early => result \in {"interrupted", "crash"}
    /\ kind = "serve" /\ told # {} => result # "none"
    /\ kind = "serve" /\ result = "ready" => line = "ready"
    /\ result = "exit" => over

\* Nobody waits without an end in sight: a wait with a timer has not begun, has its
\* timer, or is that for a shell line whose processes have all been told to stop,
\* if they obey; and so has an interrupted one.
WaitCanEnd ==
    /\ timed /\ result = "none" => started = "no" \/ timer \/ kind = "shell"
    /\ /\ kind = "shell" /\ result = "none" /\ started # "no"
       /\ ~timer \/ (aborted /\ ~early)
       => ~over /\ (obeys = Run!Processes => running \subseteq told)

RunInv == RunStages /\ ToldStops /\ OneTrueOutcome /\ WaitCanEnd

\* The leader and the workers are the processes; only the leader is started once.
LEMMA LeaderIsOne == Run!Processes = {Leader} \cup Workers /\ Leader \notin Workers
BY WaitsAssumption DEF Run!Processes

\* Every event keeps RunInv, in any order.
LEMMA RunStep ==
    ASSUME RunInv, [Run!Next]_runVars
    PROVE  RunInv'
<1>1. CASE Run!Start
  <2>1. /\ started = "no" /\ running = {} /\ told = {} /\ ~over /\ ~timer /\ result = "none"
        /\ line = "none" /\ Run!TypeOK
    BY <1>1 DEF RunInv, RunStages, Run!Start
  <2>2. CASE kind = "process" /\ aborted
    <3>1. /\ started' \in {"yes", "failed"} /\ told' = {Leader} /\ result' = "interrupted"
          /\ running' = (IF started' = "yes" THEN {Leader} ELSE {}) /\ timer' = FALSE
          /\ early' = TRUE
      BY <1>1, <2>1, <2>2 DEF Run!Start, Run!Finish, Run!TypeOK
    <3>2. UNCHANGED <<kind, timed, obeys, over, aborted, line>>
      BY <1>1 DEF Run!Start
    <3> QED
      BY <2>1, <2>2, <3>1, <3>2, LeaderIsOne DEF RunInv, RunStages, ToldStops, WaitCanEnd,
         OneTrueOutcome, Run!OneTrueOutcome, Run!TypeOK, Run!Abortable
  <2>3. CASE ~(kind = "process" /\ aborted)
    <3>1. /\ started' \in {"yes", "failed"} /\ told' = {} /\ result' = "none"
          /\ running' = (IF started' = "yes" THEN {Leader} ELSE {}) /\ timer' = timed
          /\ early' = aborted
      BY <1>1, <2>1, <2>3 DEF Run!Start
    <3>2. UNCHANGED <<kind, timed, obeys, over, aborted, line>>
      BY <1>1 DEF Run!Start
    <3>3. aborted => kind = "shell"
      BY <2>1, <2>3 DEF RunInv, RunStages, Run!Abortable, Run!TypeOK
    <3>4. Run!TypeOK'
      BY <2>1, <3>1, <3>2, LeaderIsOne DEF Run!TypeOK
    <3>5. RunStages'
      BY <2>1, <3>1, <3>2, <3>3, <3>4 DEF RunInv, RunStages, Run!Abortable
    <3>6. WaitCanEnd'
      BY <2>1, <3>1, <3>2, <3>3, <3>5 DEF WaitCanEnd, RunStages, Run!TypeOK
    <3> QED
      BY <2>1, <2>3, <3>1, <3>2, <3>3, <3>5, <3>6 DEF RunInv, RunStages, ToldStops, OneTrueOutcome,
         Run!OneTrueOutcome
  <2> QED
    BY <2>2, <2>3
<1>2. CASE Run!StartFails
  BY <1>2, LeaderIsOne DEF RunInv, RunStages, ToldStops, WaitCanEnd, OneTrueOutcome,
     Run!OneTrueOutcome, Run!TypeOK, Run!Kinds, Run!Abortable, Run!StartFails, Run!Finish
<1>3. CASE Run!Close
  BY <1>3, LeaderIsOne DEF RunInv, RunStages, ToldStops, WaitCanEnd, OneTrueOutcome,
     Run!OneTrueOutcome, Run!TypeOK, Run!Kinds, Run!Abortable, Run!Close, Run!Finish
<1>4. CASE Run!Expire
  BY <1>4, LeaderIsOne DEF RunInv, RunStages, ToldStops, WaitCanEnd, OneTrueOutcome,
     Run!OneTrueOutcome, Run!TypeOK, Run!Kinds, Run!Abortable, Run!Expire, Run!Kills, Run!Finish
<1>5. CASE Run!Abort
  BY <1>5, LeaderIsOne DEF RunInv, RunStages, ToldStops, WaitCanEnd, OneTrueOutcome,
     Run!OneTrueOutcome, Run!TypeOK, Run!Kinds, Run!Abortable, Run!Abort, Run!Kills, Run!Finish
<1>6. ASSUME NEW x \in Workers, Run!Fork(x) PROVE RunInv'
  BY <1>6, LeaderIsOne DEF RunInv, RunStages, ToldStops, WaitCanEnd, OneTrueOutcome,
     Run!OneTrueOutcome, Run!TypeOK, Run!Kinds, Run!Abortable, Run!Fork
<1>7. ASSUME NEW x \in Run!Processes, Run!Exit(x) PROVE RunInv'
  BY <1>7, LeaderIsOne DEF RunInv, RunStages, ToldStops, WaitCanEnd, OneTrueOutcome,
     Run!OneTrueOutcome, Run!TypeOK, Run!Kinds, Run!Abortable, Run!Exit
<1>8. ASSUME NEW l \in {"ready", "other"}, Run!FirstLine(l) PROVE RunInv'
  BY <1>8, LeaderIsOne DEF RunInv, RunStages, ToldStops, WaitCanEnd, OneTrueOutcome,
     Run!OneTrueOutcome, Run!TypeOK, Run!Kinds, Run!Abortable, Run!FirstLine, Run!Kills, Run!Finish
<1>9. CASE UNCHANGED runVars
  BY <1>9, LeaderIsOne DEF RunInv, RunStages, ToldStops, WaitCanEnd, OneTrueOutcome,
     Run!OneTrueOutcome, Run!TypeOK, Run!Kinds, Run!Abortable, runVars
<1> QED
  BY <1>1, <1>2, <1>3, <1>4, <1>5, <1>6, <1>7, <1>8, <1>9 DEF Run!Next, Run!Obeys, runVars

\* A behaviour of ProgramWaits is one of a session and one of a program, by itself.
THEOREM WaitsAreApart ==
    WaitSpec => /\ Init /\ [][Next]_vars
                /\ Run!Init /\ [][Run!Next]_runVars
<1>1. WaitInit => Init /\ Run!Init
  BY DEF WaitInit
<1>2. [WaitNext]_waitVars => [Next]_vars /\ [Run!Next]_runVars
  BY DEF WaitNext, InSession, InRun, waitVars
<1> QED
  BY <1>1, <1>2, PTL DEF WaitSpec

\* What is true of a program whenever timer, interrupt, end and first line race.
THEOREM RunInvariant == WaitSpec => []RunInv
<1>1. Run!Init => RunInv
  BY DEF Run!Init, RunInv, RunStages, ToldStops, WaitCanEnd, OneTrueOutcome,
     Run!OneTrueOutcome, Run!TypeOK, Run!Kinds
<1>2. RunInv /\ [Run!Next]_runVars => RunInv'
  BY RunStep
<1> QED
  BY <1>1, <1>2, WaitsAreApart, PTL

\* OneTrueOutcome: the caller is told what happened, however many processes the
\* program starts and whichever event comes first.
THEOREM OutcomeIsTrue == WaitSpec => []OneTrueOutcome
BY RunInvariant, PTL DEF RunInv

\* WaitCanEnd: a wait with a timer always has something that will end it; for a shell
\* line that is the end of processes that have all been told to stop.
THEOREM NobodyWaitsForNothing == WaitSpec => []WaitCanEnd
BY RunInvariant, PTL DEF RunInv
=============================================================================
