--------------------------- MODULE TuiTurnsProofs ---------------------------
(***************************************************************************)
(* That one turn is under way at a time until the operator interrupts one, *)
(* that a prompt that is busy has a turn, and that the session file loses  *)
(* no event, for any number of lines and whatever they are.                *)
(***************************************************************************)
EXTENDS TuiTurns, FiniteSetTheorems, SequenceTheorems, TLAPS

Underway == Live \cup Handed

\* A line waits once.
Once(s) == \A i, j \in 1 .. Len(s) : s[i] = s[j] => i = j

\* Without an interrupt there is one turn, and the prompt is busy with it.
OneTurn ==
    cut = {} => /\ \A l, m \in Underway : l = m
                /\ Underway # {} => busy

\* What is under way has a closure, and only a turn saves.
HasClosure == (\A l \in Underway : closure[l] # None) /\ saving \subseteq Live

\* Without an interrupt the record of the turn under way is as that of App is,
\* and holds what is in the file.
RecordIsApps ==
    cut = {} => /\ file \subseteq records[newest]
                /\ \A l \in Underway : records[closure[l].record] = records[newest]

Inv == TypeOK /\ Once(queue) /\ OneTurn /\ BusyHasTurn /\ HasClosure /\ RecordIsApps

-----------------------------------------------------------------------------
(* Queues *)

\* A line that is not in a queue is appended to it.
LEMMA AppendOnce ==
    ASSUME NEW S, NEW s \in Seq(S), Once(s), NEW e \in S, e \notin ToSet(s)
    PROVE  /\ Append(s, e) \in Seq(S) /\ Once(Append(s, e))
           /\ ToSet(Append(s, e)) = ToSet(s) \cup {e}
<1> DEFINE n == Len(s)
           a == Append(s, e)
<1>1. /\ a \in Seq(S) /\ Len(a) = n + 1 /\ n \in Nat
      /\ \A i \in 1 .. n : a[i] = s[i]
      /\ a[n + 1] = e
  BY AppendProperties
<1>2. DOMAIN a = 1 .. n + 1 /\ DOMAIN s = 1 .. n
  BY <1>1
<1> HIDE DEF n, a
<1>3. 1 .. n + 1 = (1 .. n) \cup {n + 1}
  BY <1>1
<1>4. ToSet(a) = ToSet(s) \cup {e}
  BY <1>1, <1>2, <1>3 DEF ToSet
<1>5. \A i \in 1 .. n : a[i] # e
  BY <1>1, <1>2 DEF ToSet
<1>6. Once(a)
  BY <1>1, <1>3, <1>5 DEF Once, n
<1> QED
  BY <1>1, <1>4, <1>6 DEF a

\* The head of a queue leaves it.
LEMMA TailOnce ==
    ASSUME NEW S, NEW s \in Seq(S), Once(s), s # <<>>
    PROVE  /\ Tail(s) \in Seq(S) /\ Once(Tail(s)) /\ Head(s) \in S
           /\ Head(s) \in ToSet(s) /\ ToSet(Tail(s)) = ToSet(s) \ {Head(s)}
<1> DEFINE n == Len(s)
           t == Tail(s)
<1>1. /\ t \in Seq(S) /\ Len(t) = n - 1 /\ n \in Nat \ {0} /\ Head(s) = s[1] /\ Head(s) \in S
      /\ \A i \in 1 .. Len(t) : t[i] = s[i + 1]
  BY HeadTailProperties
<1>2. DOMAIN t = 1 .. n - 1 /\ DOMAIN s = 1 .. n
  BY <1>1
<1> HIDE DEF n, t
<1>3. Head(s) \in ToSet(s)
  BY <1>1, <1>2 DEF ToSet
<1>4. Once(t)
  <2> SUFFICES ASSUME NEW i \in 1 .. n - 1, NEW j \in 1 .. n - 1, t[i] = t[j]
               PROVE  i = j
    BY <1>1 DEF Once
  <2>1. i + 1 \in 1 .. n /\ j + 1 \in 1 .. n /\ s[i + 1] = s[j + 1]
    BY <1>1
  <2> QED
    BY <2>1 DEF Once, n
<1>5. ASSUME NEW x \in ToSet(t)
      PROVE  x \in ToSet(s) /\ x # Head(s)
  <2>1. PICK i \in 1 .. n - 1 : x = t[i]
    BY <1>2 DEF ToSet
  <2>2. i + 1 \in 1 .. n /\ x = s[i + 1] /\ i + 1 # 1 /\ 1 \in 1 .. n
    BY <1>1, <2>1
  <2> QED
    BY <1>1, <1>2, <2>2 DEF ToSet, Once, n
<1>6. ASSUME NEW x \in ToSet(s), x # Head(s)
      PROVE  x \in ToSet(t)
  <2>1. PICK i \in 1 .. n : x = s[i]
    BY <1>2 DEF ToSet
  <2>2. i - 1 \in 1 .. n - 1 /\ t[i - 1] = x
    BY <1>1, <1>6, <2>1
  <2> QED
    BY <1>2, <2>2 DEF ToSet
<1> QED
  BY <1>1, <1>3, <1>4, <1>5, <1>6 DEF t

\* The last of a queue leaves it.
LEMMA FrontOnce ==
    ASSUME NEW S, NEW s \in Seq(S), Once(s), s # <<>>
    PROVE  /\ Front(s) \in Seq(S) /\ Once(Front(s)) /\ Last(s) \in S
           /\ Last(s) \in ToSet(s) /\ ToSet(Front(s)) = ToSet(s) \ {Last(s)}
<1> DEFINE n == Len(s)
           f == Front(s)
<1>1. n \in Nat \ {0} /\ DOMAIN s = 1 .. n /\ \A i \in 1 .. n : s[i] \in S
  BY EmptySeq, ElementOfSeq
<1>2. f \in Seq(S) /\ Len(f) = n - 1 /\ \A i \in 1 .. n - 1 : f[i] = s[i]
  <2>1. \A i \in 1 .. n - 1 : s[i] \in S
    BY <1>1
  <2>2. /\ SubSeq(s, 1, n - 1) \in Seq(S)
        /\ Len(SubSeq(s, 1, n - 1)) = IF 1 <= n - 1 THEN n - 1 - 1 + 1 ELSE 0
        /\ \A i \in 1 .. n - 1 - 1 + 1 : SubSeq(s, 1, n - 1)[i] = s[1 + i - 1]
    <3>1. n - 1 \in Int
      BY <1>1
    <3> HIDE DEF n
    <3> QED
      BY <2>1, <3>1, SubSeqProperties
  <2> QED
    BY <1>1, <2>2 DEF Front
<1>3. DOMAIN f = 1 .. n - 1
  BY <1>2
<1>4. Last(s) = s[n]
  BY DEF Last
<1> HIDE DEF n, f
<1>5. Once(f)
  BY <1>1, <1>2 DEF Once, n
<1>6. Last(s) \in ToSet(s) /\ Last(s) \in S
  BY <1>1, <1>4 DEF ToSet
<1>7. ASSUME NEW x \in ToSet(f)
      PROVE  x \in ToSet(s) /\ x # Last(s)
  <2>1. PICK i \in 1 .. n - 1 : x = s[i]
    BY <1>2, <1>3 DEF ToSet
  <2>2. i \in 1 .. n /\ n \in 1 .. n /\ i # n
    BY <1>1, <2>1
  <2> QED
    BY <1>1, <1>4, <2>1, <2>2 DEF ToSet, Once, n
<1>8. ASSUME NEW x \in ToSet(s), x # Last(s)
      PROVE  x \in ToSet(f)
  <2>1. PICK i \in 1 .. n : x = s[i]
    BY <1>1 DEF ToSet
  <2>2. i \in 1 .. n - 1 /\ f[i] = x
    BY <1>1, <1>2, <1>4, <1>8, <2>1
  <2> QED
    BY <1>3, <2>2 DEF ToSet
<1> QED
  BY <1>2, <1>5, <1>6, <1>7, <1>8 DEF f

\* Nothing is in an empty queue, and an empty queue is what holds nothing.
LEMMA EmptyQueue ==
    ASSUME NEW S
    PROVE  /\ <<>> \in Seq(S) /\ Once(<<>>) /\ ToSet(<<>>) = {}
<1>1. Len(<<>>) = 0 /\ <<>> \in Seq(S)
  BY EmptySeq
<1>2. DOMAIN <<>> = {}
  BY <1>1
<1> QED
  BY <1>1, <1>2 DEF Once, ToSet

-----------------------------------------------------------------------------
(* Input *)

\* What is under way, of a line.
LEMMA UnderwayOf ==
    ASSUME NEW l \in Lines
    PROVE  /\ l \in Underway <=> turn[l] \in {"running", "unwinding", "handed"}
           /\ l \in Live <=> turn[l] \in {"running", "unwinding"}
           /\ l \in Handed <=> turn[l] = "handed"
BY DEF Underway, Live, Handed

\* A turn that begins is a turn under way, that has not begun before.
LEMMA BeginTypes ==
    ASSUME TypeOK, NEW l \in Lines, NEW with \in Closures, Begin(l, with)
    PROVE  /\ busy' = TRUE /\ current' = l
           /\ turn' \in [Lines -> Stages] /\ turn'[l] = "running"
           /\ \A m \in Lines \ {l} : turn'[m] = turn[m]
           /\ terminal' \in Profiles \cup {None}
<1>1. /\ turn' = [turn EXCEPT ![l] = "running"] /\ busy' = TRUE /\ current' = l
      /\ terminal' \in {terminal, TerminalFor(with)}
  BY DEF Begin
<1>2. turn' \in [Lines -> Stages] /\ turn'[l] = "running"
      /\ \A m \in Lines \ {l} : turn'[m] = turn[m]
  BY <1>1 DEF TypeOK, Stages
<1>3. terminal' \in Profiles \cup {None}
  BY <1>1 DEF TerminalFor, Closures, Settings, TypeOK
<1> QED
  BY <1>1, <1>2, <1>3

\* A turn that begins at a free prompt is the only one, unless a turn has been
\* interrupted, and its record is that of App.
LEMMA SubmitStep ==
    ASSUME Inv, NEW l \in Lines, Submit(l)
    PROVE  Inv'
<1> USE TuiAssumption
<1> DEFINE own == [settings |-> settings, messages |-> messages, record |-> newest']
<1>1. /\ turn[l] = "unused" /\ ~busy
      /\ closure' = [closure EXCEPT ![l] = own]
      /\ UNCHANGED <<settings, messages, heard, aborted, queue, cut, recorded, saving, file>>
      /\ Begin(l, closure'[l])
  BY DEF Submit
<1>2. /\ newest' \in Lines
      /\ records' \in [Lines \cup {None} -> SUBSET Lines]
      /\ records'[newest'] = records[newest]
  <2>1. CASE newest = None
    BY <2>1 DEF Submit, Inv, TypeOK
  <2>2. CASE newest # None
    BY <2>2 DEF Submit, Inv, TypeOK
  <2> QED
    BY <2>1, <2>2
<1>3. own \in Closures /\ own # None /\ own.record = newest'
  BY <1>2 DEF Closures, Inv, TypeOK
<1>4. /\ closure' \in [Lines -> {None} \cup Closures] /\ closure'[l] = own
      /\ \A m \in Lines \ {l} : closure'[m] = closure[m]
  BY <1>1, <1>3 DEF Inv, TypeOK
<1> HIDE DEF own
<1>5. /\ busy' = TRUE /\ current' = l
      /\ turn' \in [Lines -> Stages] /\ turn'[l] = "running"
      /\ \A m \in Lines \ {l} : turn'[m] = turn[m]
      /\ terminal' \in Profiles \cup {None}
  BY <1>1, <1>3, <1>4, BeginTypes DEF Inv
<1>6. Underway' = Underway \cup {l} /\ Live' = Live \cup {l}
      /\ {m \in Lines : turn'[m] = "queued"} = {m \in Lines : turn[m] = "queued"}
  BY <1>1, <1>5 DEF Underway, Live, Handed
<1>7. TypeOK'
  BY <1>1, <1>2, <1>4, <1>5, <1>6 DEF Inv, TypeOK
<1>8. Once(queue)'
  BY <1>1 DEF Inv
<1>9. cut = {} => Underway = {}
  BY <1>1 DEF Inv, OneTurn
<1>10. OneTurn' /\ BusyHasTurn'
  BY <1>1, <1>5, <1>6, <1>9 DEF OneTurn, BusyHasTurn, Underway
<1>11. HasClosure'
  BY <1>1, <1>3, <1>4, <1>6 DEF Inv, HasClosure
<1>12. RecordIsApps'
  BY <1>1, <1>2, <1>3, <1>4, <1>6, <1>9 DEF Inv, RecordIsApps
<1> QED
  BY <1>7, <1>8, <1>10, <1>11, <1>12 DEF Inv

\* What moves lines that are not under way, in and out of the queue.
LEMMA QueueMoves ==
    ASSUME Inv, queue' \in Seq(Lines), Once(queue'), turn' \in [Lines -> Stages],
           ToSet(queue') = {m \in Lines : turn'[m] = "queued"},
           Underway' = Underway, Live' = Live,
           \A m \in Lines : turn[m] = "broken" => turn'[m] = "broken",
           aborted' \subseteq Lines, cut \subseteq cut', cut' \subseteq Lines,
           busy' \in BOOLEAN, heard' \in BOOLEAN, busy' => busy,
           busy = busy' \/ Underway \subseteq cut',
           UNCHANGED <<current, closure>>, UNCHANGED sessionVars
    PROVE  Inv'
<1>1. UNCHANGED <<settings, messages, terminal, newest, records, recorded, saving, file>>
  BY DEF sessionVars, recordVars
<1>2. TypeOK'
  BY <1>1 DEF Inv, TypeOK
<1>3. OneTurn'
  BY DEF Inv, OneTurn
<1>4. BusyHasTurn'
  BY DEF Inv, BusyHasTurn, Underway
<1>5. HasClosure' /\ RecordIsApps'
  BY <1>1 DEF Inv, HasClosure, RecordIsApps
<1> QED
  BY <1>2, <1>3, <1>4, <1>5 DEF Inv

\* A line entered during a turn is queued.
LEMMA EnqueueStep ==
    ASSUME Inv, NEW l \in Lines, Enqueue(l)
    PROVE  Inv'
<1>1. /\ turn[l] = "unused" /\ queue' = Append(queue, l)
      /\ turn' = [turn EXCEPT ![l] = "queued"]
      /\ UNCHANGED <<busy, heard, current, aborted, closure, cut>> /\ UNCHANGED sessionVars
  BY DEF Enqueue
<1>2. queue \in Seq(Lines) /\ Once(queue) /\ l \notin ToSet(queue)
  BY <1>1 DEF Inv, TypeOK
<1>3. queue' \in Seq(Lines) /\ Once(queue') /\ ToSet(queue') = ToSet(queue) \cup {l}
  BY <1>1, <1>2, AppendOnce
<1>4. /\ turn' \in [Lines -> Stages] /\ turn'[l] = "queued"
      /\ \A m \in Lines \ {l} : turn'[m] = turn[m]
  BY <1>1 DEF Inv, TypeOK, Stages
<1>5. Underway' = Underway /\ Live' = Live
  BY <1>1, <1>4 DEF Underway, Live, Handed
<1>6. ToSet(queue') = {m \in Lines : turn'[m] = "queued"}
  BY <1>3, <1>4 DEF Inv, TypeOK
<1>7. aborted' \subseteq Lines /\ cut' \subseteq Lines /\ busy' \in BOOLEAN /\ heard' \in BOOLEAN
  BY <1>1 DEF Inv, TypeOK
<1>8. \A m \in Lines : turn[m] = "broken" => turn'[m] = "broken"
  BY <1>1, <1>4
<1> QED
  BY <1>1, <1>3, <1>4, <1>5, <1>6, <1>7, <1>8, QueueMoves

\* The newest queued line is dropped.
LEMMA DropLastStep ==
    ASSUME Inv, DropLast
    PROVE  Inv'
<1> DEFINE l == Last(queue)
<1>1. /\ queue # <<>> /\ queue' = Front(queue)
      /\ turn' = [turn EXCEPT ![l] = "dropped"]
      /\ UNCHANGED <<busy, heard, current, aborted, closure, cut>> /\ UNCHANGED sessionVars
  BY DEF DropLast
<1>2. /\ queue' \in Seq(Lines) /\ Once(queue') /\ l \in Lines /\ l \in ToSet(queue)
      /\ ToSet(queue') = ToSet(queue) \ {l}
  BY <1>1, FrontOnce DEF Inv, TypeOK
<1> HIDE DEF l
<1>3. turn[l] = "queued"
  BY <1>2 DEF Inv, TypeOK
<1>4. /\ turn' \in [Lines -> Stages] /\ turn'[l] = "dropped"
      /\ \A m \in Lines \ {l} : turn'[m] = turn[m]
  BY <1>1, <1>2 DEF Inv, TypeOK, Stages
<1>5. Underway' = Underway /\ Live' = Live
  BY <1>2, <1>3, <1>4 DEF Underway, Live, Handed
<1>6. ToSet(queue') = {m \in Lines : turn'[m] = "queued"}
  BY <1>2, <1>4 DEF Inv, TypeOK
<1>7. aborted' \subseteq Lines /\ cut' \subseteq Lines /\ busy' \in BOOLEAN /\ heard' \in BOOLEAN
  BY <1>1 DEF Inv, TypeOK
<1>8. \A m \in Lines : turn[m] = "broken" => turn'[m] = "broken"
  BY <1>2, <1>3, <1>4
<1> QED
  BY <1>1, <1>2, <1>4, <1>5, <1>6, <1>7, <1>8, QueueMoves

\* An interrupt empties the queue, and remembers what it cuts off.
LEMMA InterruptStep ==
    ASSUME Inv, Interrupt
    PROVE  Inv'
<1>1. /\ queue' = <<>> /\ turn' = Emptied("dropped")
      /\ aborted' = aborted \cup ({current} \ {None})
      /\ cut' = cut \cup Live \cup Handed /\ busy' = FALSE
      /\ UNCHANGED <<heard, current, closure>> /\ UNCHANGED sessionVars
  BY DEF Interrupt
<1>2. queue' \in Seq(Lines) /\ Once(queue') /\ ToSet(queue') = {}
  BY <1>1, EmptyQueue
<1>3. /\ turn' \in [Lines -> Stages]
      /\ \A m \in Lines : turn'[m] = IF turn[m] = "queued" THEN "dropped" ELSE turn[m]
  BY <1>1 DEF Emptied, Inv, TypeOK, Stages
<1>4. Underway' = Underway /\ Live' = Live
  BY <1>3 DEF Underway, Live, Handed
<1>5. {m \in Lines : turn'[m] = "queued"} = {}
  BY <1>3
<1>6. aborted' \subseteq Lines /\ cut' \subseteq Lines /\ heard' \in BOOLEAN
  BY <1>1 DEF Inv, TypeOK, Live, Handed
<1>7. \A m \in Lines : turn[m] = "broken" => turn'[m] = "broken"
  BY <1>3
<1>8. cut \subseteq cut' /\ Underway \subseteq cut'
  BY <1>1 DEF Underway
<1> QED
  BY <1>1, <1>2, <1>3, <1>4, <1>5, <1>6, <1>7, <1>8, QueueMoves

\* Effects change what the handlers know.
LEMMA EffectsStep ==
    ASSUME Inv, Effects
    PROVE  Inv'
<1>1. /\ heard' = busy
      /\ UNCHANGED <<busy, current, aborted, queue, turn, closure, cut>>
      /\ UNCHANGED sessionVars
  BY DEF Effects
<1>2. Underway' = Underway /\ Live' = Live
  BY <1>1 DEF Underway, Live, Handed
<1> QED
  BY <1>1, <1>2, QueueMoves DEF Inv, TypeOK

-----------------------------------------------------------------------------
(* Turns *)

\* What goes on with a line that stays under way.
LEMMA GoesOn ==
    ASSUME Inv, NEW l \in Underway, turn' \in [Lines -> Stages],
           turn'[l] \in {"running", "unwinding"},
           \A m \in Lines \ {l} : turn'[m] = turn[m],
           settings' \in Settings, messages' \subseteq Lines,
           terminal' \in Profiles \cup {None}, current' \in Lines \cup {None},
           busy' = TRUE \/ busy' = busy, saving' \subseteq saving,
           UNCHANGED <<closure, heard, aborted, queue, cut, newest, records, recorded, file>>
    PROVE  Inv'
<1>1. l \in Lines /\ turn[l] # "queued" /\ turn[l] # "broken"
  BY DEF Underway, Live, Handed
<1>2. Underway' = Underway /\ Live \subseteq Live'
      /\ {m \in Lines : turn'[m] = "queued"} = {m \in Lines : turn[m] = "queued"}
  BY <1>1 DEF Underway, Live, Handed
<1>3. TypeOK'
  BY <1>2 DEF Inv, TypeOK
<1>4. Once(queue)' /\ OneTurn'
  BY <1>2 DEF Inv, OneTurn
<1>5. BusyHasTurn'
  BY <1>2 DEF Underway, BusyHasTurn
<1>6. HasClosure' /\ RecordIsApps'
  BY <1>2 DEF Inv, HasClosure, RecordIsApps
<1> QED
  BY <1>3, <1>4, <1>5, <1>6 DEF Inv

\* The body of a turn ends, or throws, or starts behind its timer.
LEMMA BodySteps ==
    ASSUME Inv, NEW l \in Lines, Finish(l) \/ Throw(l) \/ SaveFails(l) \/ StartHanded(l)
    PROVE  Inv'
<1>1. CASE Finish(l)
  <2>1. /\ turn[l] = "running" /\ turn' = [turn EXCEPT ![l] = "unwinding"]
        /\ settings' = SettingsAfter(What[l]) /\ terminal' = TerminalAfter(What[l])
        /\ messages' = MessagesAfter(l)
        /\ UNCHANGED <<closure, busy, heard, current, aborted, queue, cut, newest, records,
                       recorded, saving, file>>
    BY <1>1 DEF Finish, promptVars, recordVars
  <2>2. turn' \in [Lines -> Stages] /\ turn'[l] = "unwinding"
        /\ \A m \in Lines \ {l} : turn'[m] = turn[m]
    BY <2>1 DEF Inv, TypeOK, Stages
  <2>3. l \in Underway
    BY <2>1 DEF Underway, Live
  <2>4. What[l] \in Kinds
    BY TuiAssumption
  <2>5. settings' \in Settings
    BY <2>1, <2>4 DEF SettingsAfter, Kinds, Settings, Inv, TypeOK
  <2>6. terminal' \in Profiles \cup {None}
    BY <2>1, <2>4 DEF TerminalAfter, Kinds, Inv, TypeOK
  <2>7. messages' \subseteq Lines
    <3>1. closure[l] \in Closures
      BY <2>3 DEF Inv, HasClosure, TypeOK
    <3>2. messages' \in {{}, closure[l].messages \cup {l}, messages}
      BY <2>1 DEF MessagesAfter
    <3> QED
      BY <3>1, <3>2 DEF Closures, Inv, TypeOK
  <2>8. current' \in Lines \cup {None}
    BY <2>1 DEF Inv, TypeOK
  <2> QED
    BY <2>1, <2>2, <2>3, <2>5, <2>6, <2>7, <2>8, GoesOn
<1>2. CASE Throw(l) \/ SaveFails(l)
  <2>1. /\ turn[l] = "running" /\ turn' = [turn EXCEPT ![l] = "unwinding"]
        /\ saving' \subseteq saving
        /\ UNCHANGED <<settings, messages, terminal, closure, busy, heard, current, aborted,
                       queue, cut, newest, records, recorded, file>>
    BY <1>2 DEF Throw, SaveFails, promptVars, recordVars, sessionVars
  <2>2. turn' \in [Lines -> Stages] /\ turn'[l] = "unwinding"
        /\ \A m \in Lines \ {l} : turn'[m] = turn[m]
    BY <2>1 DEF Inv, TypeOK, Stages
  <2>3. l \in Underway
    BY <2>1 DEF Underway, Live
  <2>4. settings' \in Settings /\ messages' \subseteq Lines
        /\ terminal' \in Profiles \cup {None} /\ current' \in Lines \cup {None}
    BY <2>1 DEF Inv, TypeOK
  <2> QED
    BY <2>1, <2>2, <2>3, <2>4, GoesOn
<1>3. CASE StartHanded(l)
  <2>1. /\ turn[l] = "handed" /\ Begin(l, closure[l])
        /\ UNCHANGED <<settings, messages, heard, aborted, queue, closure, cut, newest,
                       records, recorded, saving, file>>
    BY <1>3 DEF StartHanded, recordVars
  <2>2. l \in Underway
    BY <2>1 DEF Underway, Handed
  <2>3. closure[l] \in Closures
    BY <2>2 DEF Inv, HasClosure, TypeOK
  <2>4. /\ busy' = TRUE /\ current' = l
        /\ turn' \in [Lines -> Stages] /\ turn'[l] = "running"
        /\ \A m \in Lines \ {l} : turn'[m] = turn[m]
        /\ terminal' \in Profiles \cup {None}
    BY <2>1, <2>3, BeginTypes DEF Inv
  <2>5. settings' \in Settings /\ messages' \subseteq Lines /\ saving' \subseteq saving
    BY <2>1 DEF Inv, TypeOK
  <2> QED
    BY <2>1, <2>2, <2>4, <2>5, GoesOn
<1> QED
  BY <1>1, <1>2, <1>3

-----------------------------------------------------------------------------
(* The end of a turn *)

\* What is forgotten with a closure is in no other, and not what App has.
LEMMA ForgottenKeeps ==
    ASSUME TypeOK, closure' \in [Lines -> {None} \cup Closures], Forgotten
    PROVE  /\ newest' \in Lines \cup {None}
           /\ records' \in [Lines \cup {None} -> SUBSET Lines]
           /\ records'[newest'] = records[newest]
           /\ \A m \in Lines : closure'[m] # None =>
                  records'[closure'[m].record] = records[closure'[m].record]
           /\ recorded' \subseteq recorded /\ saving' \subseteq saving /\ saving' \subseteq Live'
           /\ file' = file
<1> DEFINE held == {closure'[m].record : m \in {n \in Lines : closure'[n] # None}}
           kept == IF newest \in held THEN newest ELSE None
<1>1. /\ newest' = kept
      /\ records' = [r \in DOMAIN records |->
                        IF r \in held THEN records[r]
                        ELSE IF r = kept THEN records[newest] ELSE {}]
      /\ recorded' = recorded \cap Live' /\ saving' = saving \cap Live' /\ file' = file
  BY DEF Forgotten
<1>2. held \subseteq Lines /\ None \notin held
  BY TuiAssumption DEF Closures
<1>3. /\ DOMAIN records = Lines \cup {None} /\ newest \in Lines \cup {None}
      /\ \A r \in Lines \cup {None} : records[r] \in SUBSET Lines
  BY DEF TypeOK
<1>4. \A m \in Lines : closure'[m] # None => closure'[m].record \in held
  OBVIOUS
<1> HIDE DEF held
<1>5. records' \in [Lines \cup {None} -> SUBSET Lines]
  BY <1>1, <1>3
<1>6. \A r \in held : records'[r] = records[r]
  BY <1>1, <1>2, <1>3
<1>7. newest' \in Lines \cup {None} /\ records'[newest'] = records[newest]
  BY <1>1, <1>2, <1>3
<1> QED
  BY <1>1, <1>4, <1>5, <1>6, <1>7

\* A turn that ends for good leaves nothing under way, unless one has been
\* interrupted.
LEMMA TurnEnds ==
    ASSUME Inv, NEW l \in Live, Forgotten,
           turn' \in [Lines -> Stages], turn'[l] \in {"done", "broken"},
           \A m \in Lines \ {l} : turn[m] # "queued" => turn'[m] = turn[m],
           \A m \in Lines \ {l} : turn[m] = "queued" => turn'[m] \in {"queued", "lost"},
           closure' = [closure EXCEPT ![l] = None],
           current' \in Lines \cup {None}, queue' \in Seq(Lines), Once(queue'),
           ToSet(queue') = {m \in Lines : turn'[m] = "queued"},
           busy' = FALSE \/ (turn'[l] = "broken" /\ busy' \in BOOLEAN),
           UNCHANGED <<heard, aborted, cut, settings, messages, terminal>>
    PROVE  Inv'
<1>1. l \in Lines /\ turn[l] \in {"running", "unwinding"} /\ l \in Underway
  BY DEF Live, Underway
<1>2. Underway' = Underway \ {l} /\ Live' = Live \ {l}
  BY <1>1 DEF Underway, Live, Handed
<1>3. /\ closure' \in [Lines -> {None} \cup Closures]
      /\ \A m \in Lines \ {l} : closure'[m] = closure[m]
  BY <1>1 DEF Inv, TypeOK
<1>4. /\ newest' \in Lines \cup {None}
      /\ records' \in [Lines \cup {None} -> SUBSET Lines]
      /\ records'[newest'] = records[newest]
      /\ \A m \in Lines : closure'[m] # None =>
              records'[closure'[m].record] = records[closure'[m].record]
      /\ recorded' \subseteq recorded /\ saving' \subseteq saving /\ saving' \subseteq Live'
      /\ file' = file
  BY <1>3, ForgottenKeeps DEF Inv
<1>5. TypeOK'
  BY <1>3, <1>4 DEF Inv, TypeOK
<1>6. OneTurn'
  BY <1>1, <1>2 DEF Inv, OneTurn
<1>7. BusyHasTurn'
  BY <1>1 DEF BusyHasTurn
<1>8. HasClosure'
  BY <1>2, <1>3, <1>4 DEF Inv, HasClosure, Underway, Live, Handed
<1>9. RecordIsApps'
  <2>1. \A m \in Underway' : m \in Underway /\ m \in Lines /\ closure'[m] = closure[m]
                            /\ closure'[m] # None
    BY <1>2, <1>3 DEF Underway, Live, Handed, Inv, HasClosure
  <2> QED
    BY <1>4, <2>1 DEF Inv, RecordIsApps
<1> QED
  BY <1>5, <1>6, <1>7, <1>8, <1>9 DEF Inv

\* A turn that hands over leaves its closure to the line that follows it.
LEMMA HandOver ==
    ASSUME Inv, NEW l \in Lines, UnwindToNext(l)
    PROVE  Inv'
<1> DEFINE next == Head(queue)
<1>1. /\ turn[l] = "unwinding" /\ queue # <<>> /\ Released(l)
      /\ queue' = Tail(queue)
      /\ turn' = [turn EXCEPT ![l] = "done", ![next] = "handed"]
      /\ closure' = [closure EXCEPT ![next] = closure[l], ![l] = None]
      /\ UNCHANGED <<busy, heard, aborted, cut, settings, messages, terminal>>
      /\ Forgotten
  BY DEF UnwindToNext
<1>2. /\ queue' \in Seq(Lines) /\ Once(queue') /\ next \in Lines /\ next \in ToSet(queue)
      /\ ToSet(queue') = ToSet(queue) \ {next}
  BY <1>1, TailOnce DEF Inv, TypeOK
<1> HIDE DEF next
<1>3. turn[next] = "queued" /\ next # l
  BY <1>1, <1>2 DEF Inv, TypeOK
<1>4. /\ turn' \in [Lines -> Stages] /\ turn'[l] = "done" /\ turn'[next] = "handed"
      /\ \A m \in Lines \ {l, next} : turn'[m] = turn[m]
  BY <1>1, <1>2, <1>3 DEF Inv, TypeOK, Stages
<1>5. l \in Underway /\ l \in Live
  BY <1>1 DEF Underway, Live
<1>6. closure[l] \in Closures /\ closure[l] # None
  BY <1>5 DEF Inv, HasClosure, TypeOK
<1>7. /\ closure' \in [Lines -> {None} \cup Closures] /\ closure'[next] = closure[l]
      /\ \A m \in Lines \ {l, next} : closure'[m] = closure[m]
  BY <1>1, <1>2, <1>3, <1>6 DEF Inv, TypeOK
<1>8. Underway' = (Underway \ {l}) \cup {next}
  BY <1>2, <1>3, <1>4 DEF Underway, Live, Handed
<1>9. Live' = Live \ {l}
  BY <1>3, <1>4 DEF Live
<1>10. /\ newest' \in Lines \cup {None}
       /\ records' \in [Lines \cup {None} -> SUBSET Lines]
       /\ records'[newest'] = records[newest]
       /\ \A m \in Lines : closure'[m] # None =>
               records'[closure'[m].record] = records[closure'[m].record]
       /\ recorded' \subseteq recorded /\ saving' \subseteq saving /\ saving' \subseteq Live'
       /\ file' = file
  BY <1>1, <1>7, ForgottenKeeps DEF Inv
<1>11. TypeOK'
  <2>1. current' \in Lines \cup {None}
    BY <1>1 DEF Released, Inv, TypeOK
  <2>2. ToSet(queue') = {m \in Lines : turn'[m] = "queued"}
    BY <1>1, <1>2, <1>3, <1>4 DEF Inv, TypeOK
  <2> QED
    BY <1>1, <1>2, <1>4, <1>7, <1>10, <2>1, <2>2 DEF Inv, TypeOK
<1>12. OneTurn'
  BY <1>1, <1>5, <1>8 DEF Inv, OneTurn
<1>13. BusyHasTurn'
  BY <1>8 DEF BusyHasTurn, Underway
<1>14. \A m \in Underway' : m \in Lines /\ closure'[m] # None
                           /\ closure'[m] = closure[IF m = next THEN l ELSE m]
                           /\ (m # next => m \in Underway)
  <2>1. \A m \in Underway : m \in Lines /\ closure[m] # None
    BY DEF Inv, HasClosure, Underway, Live, Handed
  <2> QED
    BY <1>2, <1>6, <1>7, <1>8, <2>1
<1>15. HasClosure'
  BY <1>10, <1>14 DEF HasClosure
<1>16. RecordIsApps'
  <2> SUFFICES ASSUME cut = {}
               PROVE  /\ file \subseteq records[newest]
                      /\ \A m \in Underway' : records'[closure'[m].record] = records[newest]
    BY <1>1, <1>10 DEF RecordIsApps
  <2>1. file \subseteq records[newest] /\ \A k \in Underway : records[closure[k].record] = records[newest]
    BY DEF Inv, RecordIsApps
  <2>2. ASSUME NEW m \in Underway'
        PROVE  records'[closure'[m].record] = records[newest]
    <3>1. PICK k \in Underway : closure'[m] = closure[k]
      BY <1>5, <1>14
    <3>2. records'[closure'[m].record] = records[closure'[m].record]
      BY <1>10, <1>14
    <3> QED
      BY <2>1, <3>1, <3>2
  <2> QED
    BY <2>1, <2>2
<1> QED
  BY <1>2, <1>11, <1>12, <1>13, <1>15, <1>16 DEF Inv

\* A turn ends in its finally block, or hands over.
LEMMA UnwindsStep ==
    ASSUME Inv, NEW l \in Lines, Unwinds(l)
    PROVE  Inv'
<1>1. ASSUME turn[l] = "unwinding"
      PROVE  l \in Live
  BY <1>1 DEF Live
<1>2. CASE UnwindAborted(l)
  <2>1. /\ turn[l] = "unwinding" /\ Released(l) /\ queue' = <<>> /\ busy' = FALSE
        /\ turn' = [Emptied("lost") EXCEPT ![l] = "done"]
        /\ closure' = [closure EXCEPT ![l] = None]
        /\ UNCHANGED <<heard, aborted, cut, settings, messages, terminal>>
        /\ Forgotten
    BY <1>2 DEF UnwindAborted
  <2>2. Emptied("lost") \in [Lines -> Stages]
    BY DEF Emptied, Inv, TypeOK, Stages
  <2>3. /\ turn' \in [Lines -> Stages] /\ turn'[l] = "done"
        /\ \A m \in Lines \ {l} : turn'[m] = IF turn[m] = "queued" THEN "lost" ELSE turn[m]
    BY <2>1, <2>2 DEF Emptied, Stages
  <2>4. queue' \in Seq(Lines) /\ Once(queue') /\ ToSet(queue') = {m \in Lines : turn'[m] = "queued"}
    BY <2>1, <2>3, EmptyQueue
  <2>5. current' \in Lines \cup {None}
    BY <2>1 DEF Released, Inv, TypeOK
  <2> QED
    BY <1>1, <2>1, <2>3, <2>4, <2>5, TurnEnds
<1>3. CASE UnwindToPrompt(l)
  <2>1. /\ turn[l] = "unwinding" /\ Released(l) /\ queue = <<>> /\ busy' = FALSE
        /\ turn' = [turn EXCEPT ![l] = "done"]
        /\ closure' = [closure EXCEPT ![l] = None]
        /\ UNCHANGED <<heard, aborted, queue, cut, settings, messages, terminal>>
        /\ Forgotten
    BY <1>3 DEF UnwindToPrompt
  <2>2. /\ turn' \in [Lines -> Stages] /\ turn'[l] = "done"
        /\ \A m \in Lines \ {l} : turn'[m] = turn[m]
    BY <2>1 DEF Inv, TypeOK, Stages
  <2>3. queue' \in Seq(Lines) /\ Once(queue') /\ ToSet(queue') = {m \in Lines : turn'[m] = "queued"}
    BY <2>1, <2>2 DEF Inv, TypeOK
  <2>4. current' \in Lines \cup {None}
    BY <2>1 DEF Released, Inv, TypeOK
  <2> QED
    BY <1>1, <2>1, <2>2, <2>3, <2>4, TurnEnds
<1>4. CASE UnwindBreaks(l)
  <2>1. /\ turn[l] = "unwinding" /\ turn' = [turn EXCEPT ![l] = "broken"]
        /\ closure' = [closure EXCEPT ![l] = None]
        /\ UNCHANGED <<busy, heard, current, aborted, queue, cut, settings, messages, terminal>>
        /\ Forgotten
    BY <1>4 DEF UnwindBreaks, promptVars
  <2>2. /\ turn' \in [Lines -> Stages] /\ turn'[l] = "broken"
        /\ \A m \in Lines \ {l} : turn'[m] = turn[m]
    BY <2>1 DEF Inv, TypeOK, Stages
  <2>3. queue' \in Seq(Lines) /\ Once(queue') /\ ToSet(queue') = {m \in Lines : turn'[m] = "queued"}
    BY <2>1, <2>2 DEF Inv, TypeOK
  <2>4. current' \in Lines \cup {None} /\ busy' \in BOOLEAN
    BY <2>1 DEF Inv, TypeOK
  <2> QED
    BY <1>1, <2>1, <2>2, <2>3, <2>4, TurnEnds
<1> QED
  BY <1>2, <1>3, <1>4, HandOver DEF Unwinds

-----------------------------------------------------------------------------
(* The session record *)

\* An event grows the record of the turn and, as a copy, that of App.
LEMMA RecordStep ==
    ASSUME Inv, NEW l \in Lines, Record(l)
    PROVE  Inv'
<1> DEFINE mine == closure[l].record
           grown == records[mine] \cup {l}
<1>1. /\ l \in Live /\ newest' = None
      /\ recorded' = recorded \cup {l} /\ saving' = saving \cup {l}
      /\ records' = [records EXCEPT ![mine] = grown, ![None] = grown]
      /\ UNCHANGED <<settings, messages, terminal, turn, closure, file, busy, heard, current,
                     aborted, queue, cut>>
  BY DEF Record, promptVars
<1>2. Underway' = Underway /\ Live' = Live /\ l \in Underway
  BY <1>1 DEF Underway, Live, Handed
<1>3. closure[l] \in Closures /\ mine \in Lines
  BY <1>2 DEF Inv, HasClosure, TypeOK, Closures
<1>4. grown \in SUBSET Lines
  BY <1>3 DEF Inv, TypeOK
<1> HIDE DEF mine, grown
<1>5. /\ records' \in [Lines \cup {None} -> SUBSET Lines]
      /\ records'[mine] = grown /\ records'[None] = grown
  BY <1>1, <1>3, <1>4 DEF Inv, TypeOK
<1>6. TypeOK'
  BY <1>1, <1>2, <1>5 DEF Inv, TypeOK
<1>7. Once(queue)' /\ OneTurn' /\ HasClosure'
  BY <1>1, <1>2 DEF Inv, OneTurn, HasClosure
<1>8. BusyHasTurn'
  BY <1>1, <1>2 DEF Underway, Inv, BusyHasTurn
<1>9. RecordIsApps'
  <2> SUFFICES ASSUME cut = {}
               PROVE  /\ file \subseteq records'[None]
                      /\ \A m \in Underway : records'[closure[m].record] = records'[None]
    BY <1>1, <1>2 DEF RecordIsApps
  <2>1. \A m \in Underway : m = l
    BY <1>2 DEF Inv, OneTurn
  <2>2. file \subseteq grown
    BY <1>2 DEF Inv, RecordIsApps, mine, grown
  <2> QED
    BY <1>5, <2>1, <2>2 DEF mine
<1> QED
  BY <1>6, <1>7, <1>8, <1>9 DEF Inv

\* A save writes the record of its turn, which without an interrupt holds what
\* was in the file.
LEMMA SaveStep ==
    ASSUME Inv, NEW l \in Lines, Save(l)
    PROVE  Inv' /\ (cut = {} => file \subseteq file')
<1>1. /\ l \in saving /\ file' = records[closure[l].record] /\ saving' = saving \ {l}
      /\ UNCHANGED <<settings, messages, terminal, turn, closure, newest, records, recorded,
                     busy, heard, current, aborted, queue, cut>>
  BY DEF Save, promptVars
<1>2. Underway' = Underway /\ Live' = Live /\ l \in Underway
  BY <1>1 DEF Underway, Live, Handed, Inv, HasClosure
<1>3. closure[l] \in Closures
  BY <1>2 DEF Inv, HasClosure, TypeOK
<1>4. file' \subseteq Lines
  BY <1>1, <1>3 DEF Inv, TypeOK, Closures
<1>5. TypeOK'
  BY <1>1, <1>2, <1>4 DEF Inv, TypeOK
<1>6. Once(queue)' /\ OneTurn' /\ HasClosure'
  BY <1>1, <1>2 DEF Inv, OneTurn, HasClosure
<1>7. BusyHasTurn'
  BY <1>1, <1>2 DEF Underway, Inv, BusyHasTurn
<1>8. cut = {} => file' = records[newest] /\ file \subseteq records[newest]
  BY <1>1, <1>2 DEF Inv, RecordIsApps
<1>9. RecordIsApps'
  BY <1>1, <1>2, <1>8 DEF Inv, RecordIsApps
<1> QED
  BY <1>5, <1>6, <1>7, <1>8, <1>9 DEF Inv

-----------------------------------------------------------------------------
(* All together *)

\* Every step keeps the invariant, and without an interrupt the file.
LEMMA InvStep ==
    ASSUME Inv, [Next]_vars
    PROVE  Inv' /\ (cut = {} => file \subseteq file')
<1>1. ASSUME NEW l \in Lines, Submit(l)
      PROVE  Inv' /\ file' = file
  BY <1>1, SubmitStep DEF Submit
<1>2. ASSUME NEW l \in Lines, Enqueue(l)
      PROVE  Inv' /\ file' = file
  BY <1>2, EnqueueStep DEF Enqueue, sessionVars, recordVars
<1>3. ASSUME NEW l \in Lines, Ends(l) \/ StartHanded(l) \/ SaveFails(l)
      PROVE  Inv' /\ file' = file
  <2>1. Finish(l) \/ Throw(l) \/ StartHanded(l) \/ SaveFails(l)
    BY <1>3 DEF Ends
  <2>2. file' = file
    BY <2>1 DEF Finish, Throw, StartHanded, SaveFails, sessionVars, recordVars
  <2> QED
    BY <2>1, <2>2, BodySteps
<1>4. ASSUME NEW l \in Lines, Unwinds(l)
      PROVE  Inv' /\ file' = file
  <2>1. file' = file
    BY <1>4 DEF Unwinds, UnwindAborted, UnwindToNext, UnwindToPrompt, UnwindBreaks, Forgotten
  <2> QED
    BY <1>4, <2>1, UnwindsStep
<1>5. ASSUME NEW l \in Lines, Record(l)
      PROVE  Inv' /\ file' = file
  BY <1>5, RecordStep DEF Record
<1>6. ASSUME NEW l \in Lines, Save(l)
      PROVE  Inv' /\ (cut = {} => file \subseteq file')
  BY <1>6, SaveStep
<1>7. CASE Effects \/ Interrupt \/ DropLast
  BY <1>7, EffectsStep, InterruptStep, DropLastStep
  DEF Effects, Interrupt, DropLast, sessionVars, recordVars
<1>8. CASE UNCHANGED vars
  <2>1. Underway' = Underway /\ Live' = Live
    BY <1>8 DEF vars, Underway, Live, Handed
  <2>2. UNCHANGED sessionVars
    BY <1>8 DEF vars, sessionVars, recordVars
  <2> QED
    BY <1>8, <2>1, <2>2, QueueMoves DEF vars, Inv, TypeOK
<1> QED
  BY <1>1, <1>2, <1>3, <1>4, <1>5, <1>6, <1>7, <1>8 DEF Next

\* The invariant holds of every state the interface can reach.
THEOREM InductiveInvariant == Spec => []Inv
<1>1. Init => Inv
  <2> SUFFICES ASSUME Init PROVE Inv
    OBVIOUS
  <2>1. queue \in Seq(Lines) /\ Once(queue) /\ ToSet(queue) = {}
    BY EmptyQueue DEF Init
  <2>2. settings \in Settings
    BY DEF Init, Settings
  <2>3. TypeOK
    BY <2>1, <2>2 DEF Init, TypeOK, Stages
  <2>4. Underway = {}
    BY DEF Init, Underway, Live, Handed
  <2> QED
    BY <2>1, <2>3, <2>4 DEF Init, Inv, OneTurn, BusyHasTurn, HasClosure, RecordIsApps
<1> QED
  BY <1>1, InvStep, PTL DEF Spec

-----------------------------------------------------------------------------
(* The properties *)

\* TypeOK: every variable of the interface keeps its type.
THEOREM TypeCorrect == Spec => []TypeOK
<1>1. Inv => TypeOK
  BY DEF Inv
<1> QED
  BY <1>1, InductiveInvariant, PTL

\* OneTurnUntilCut: without an interrupt one turn is under way at a time, also
\* while queued lines are handed over by timer.
THEOREM OneTurnAtATime == Spec => []OneTurnUntilCut
<1>1. Inv => OneTurnUntilCut
  <2> SUFFICES ASSUME Inv, cut = {}
               PROVE  Cardinality(Underway) <= 1
    BY DEF OneTurnUntilCut, Underway
  <2>1. CASE Underway = {}
    BY <2>1, FS_EmptySet
  <2>2. CASE Underway # {}
    <3>1. PICK l \in Underway : TRUE
      BY <2>2
    <3>2. Underway = {l}
      BY <3>1 DEF Inv, OneTurn
    <3> QED
      BY <3>2, FS_Singleton
  <2> QED
    BY <2>1, <2>2
<1> QED
  BY <1>1, InductiveInvariant, PTL

\* BusyHasTurn: the prompt is never stuck, unless a turn failed in its cleanup.
THEOREM PromptIsFreed == Spec => []BusyHasTurn
<1>1. Inv => BusyHasTurn
  BY DEF Inv
<1> QED
  BY <1>1, InductiveInvariant, PTL

\* SessionKept: without an interrupt no save of the session file loses an event
\* that was in it, whichever closure it saves the record of.
THEOREM FileKeepsEvents == Spec => SessionKept
<1>1. Inv /\ [Next]_vars => [cut = {} => file \subseteq file']_vars
  BY InvStep
<1> QED
  BY <1>1, InductiveInvariant, PTL DEF Spec, SessionKept
=============================================================================
