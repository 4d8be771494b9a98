------------------------- MODULE EventJournalProofs -------------------------
(***************************************************************************)
(* The journal's promises for any number of writers, consumers, drafts and *)
(* events.  Four inductive invariants, each over its own variables:        *)
(* WriterInv over the run's row, its events and the transactions, ReaderInv *)
(* over the stream down to the browser, OutboxInv over the messages and    *)
(* what the consumers hold, ProjectionInv over the projections.  The last  *)
(* three rest on the first: the numbers grow at the end only, one by one.  *)
(***************************************************************************)
EXTENDS EventJournal, FiniteSetTheorems, SequenceTheorems, WellFoundedInduction, TLAPS

Calls ==
  [step : {"idle", "called", "locked", "returned", "raised"},
   draft : Drafts \union {Created}, next : 0..MaxEvents + 1, answer : 0..MaxEvents]

WriterTypes ==
  /\ backend \in {"postgres", "memory"}
  /\ events \subseteq [sequence : 1..MaxEvents, draft : Drafts \union {Created}]
  /\ run.next \in 0..MaxEvents + 1
  /\ call \in [Writers -> Calls]

\* Appends are to a run that exists; whoever holds the row lock read the counter
\* as it still is, and holds it alone.
Locking ==
  /\ \A w \in Writers : call[w].step = "called" => RunExists \/ call[w].draft = Created
  /\ \A w \in Writers : call[w].step = "locked" =>
       RunExists /\ call[w].next = run.next /\ HasRoom(call[w].draft)
  /\ \A v, w \in Writers : call[v].step = "locked" /\ call[w].step = "locked" => v = w

FirstStored ==
  RunExists => \E e \in events : e.sequence = 1 /\ e.draft = Created

WriterInv ==
  /\ WriterTypes /\ Locking /\ FirstStored
  /\ GapFree /\ AnswersStored /\ RaisesExplained

-----------------------------------------------------------------------------
(* Writers *)

\* One caller moves, the others stay where they are.
LEMMA Moves ==
  ASSUME NEW w \in Writers, NEW step, NEW draft, NEW next, NEW answer,
         call \in [Writers -> Calls], Goto(w, step, draft, next, answer),
         [step |-> step, draft |-> draft, next |-> next, answer |-> answer] \in Calls
  PROVE  /\ call' \in [Writers -> Calls]
         /\ call'[w] = [step |-> step, draft |-> draft, next |-> next, answer |-> answer]
         /\ \A v \in Writers : v # w => call'[v] = call[v]
<1> DEFINE c == [step |-> step, draft |-> draft, next |-> next, answer |-> answer]
<1>1. c \in Calls /\ call' = [call EXCEPT ![w] = c]
  BY DEF Goto
<1> HIDE DEF c
<1>2. call' \in [Writers -> Calls] /\ call'[w] = c /\ \A v \in Writers : v # w => call'[v] = call[v]
  BY <1>1
<1> QED BY <1>2 DEF c

LEMMA InitWriter == Init => WriterInv
<1> SUFFICES ASSUME Init PROVE WriterInv
  OBVIOUS
<1>1. MaxEvents \in Nat \ {0}
  BY JournalAssumption
<1>2. NoCall \in Calls /\ NoCall.step = "idle"
  BY <1>1 DEF NoCall, Calls
<1>3. call = [w \in Writers |-> NoCall] /\ run.next = 0 /\ events = {}
  BY DEF Init
<1>4. WriterTypes
  BY <1>1, <1>2, <1>3 DEF Init, WriterTypes
<1>5. \A w \in Writers : call[w].step = "idle"
  BY <1>2, <1>3
<1>6. Locking /\ AnswersStored /\ RaisesExplained
  BY <1>5 DEF Locking, AnswersStored, RaisesExplained
<1>7. FirstStored /\ GapFree
  BY <1>3 DEF FirstStored, GapFree, Numbers, RunExists
<1> QED BY <1>4, <1>6, <1>7 DEF WriterInv

\* A step of one writer that leaves the journal alone.
LEMMA Waits ==
  ASSUME WriterInv, NEW w \in Writers, NEW step, NEW draft, NEW next, NEW answer,
         Goto(w, step, draft, next, answer), UNCHANGED journal,
         [step |-> step, draft |-> draft, next |-> next, answer |-> answer] \in Calls,
         step = "called" => RunExists \/ draft = Created,
         step = "locked" => RunFree /\ RunExists /\ next = run.next /\ HasRoom(draft),
         step = "returned" => \E e \in events : /\ e.sequence = answer
                                                /\ e.draft = draft \/ e \in Stored(draft),
         step = "raised" => \/ draft = Created
                            \/ draft.family \in {"work", "subagent"} /\ ~draft.named
  PROVE  WriterInv'
<1> USE DEF WriterInv
<1>1. /\ call' \in [Writers -> Calls]
      /\ call'[w].step = step /\ call'[w].draft = draft
      /\ call'[w].next = next /\ call'[w].answer = answer
      /\ \A v \in Writers : v # w => call'[v] = call[v]
  BY Moves DEF WriterTypes
<1>2. events' = events /\ run' = run /\ backend' = backend
  BY DEF journal
<1>3. RunExists' = RunExists /\ Numbers' = Numbers
  BY <1>2 DEF RunExists, Numbers
<1>4. \A d : Stored(d)' = Stored(d) /\ HasRoom(d)' = HasRoom(d)
  BY <1>2 DEF Stored, HasRoom
<1>5. WriterTypes'
  BY <1>1, <1>2 DEF WriterTypes
<1>6. Locking'
  BY <1>1, <1>2, <1>3, <1>4 DEF Locking, RunFree
<1>7. FirstStored' /\ GapFree'
  BY <1>2, <1>3 DEF FirstStored, GapFree
<1>8. AnswersStored'
  BY <1>1, <1>2, <1>4 DEF AnswersStored
<1>9. RaisesExplained'
  BY <1>1 DEF RaisesExplained, HasRow
<1> QED BY <1>5, <1>6, <1>7, <1>8, <1>9

\* A step that commits a new event: nobody else holds the lock, and the number
\* is the one the row had.
LEMMA Inserts ==
  ASSUME WriterInv, NEW w \in Writers, NEW n \in 1..MaxEvents, NEW before,
         Insert(w, n, before), run.next \in {0, n}, run.next = 0 => n = 1,
         \A v \in Writers : v # w => call[v].step # "locked",
         RunExists \/ call[w].draft = Created
  PROVE  WriterInv'
<1> DEFINE e == [sequence |-> n, draft |-> call[w].draft]
<1> USE DEF WriterInv
<1>1. MaxEvents \in Nat \ {0}
  BY JournalAssumption
<1>2. /\ events' = events \union {e} /\ run'.next = n + 1
      /\ backend' = backend
      /\ Goto(w, "returned", call[w].draft, 0, n)
  BY DEF Insert, Return
<1>3. call[w].draft \in Drafts \union {Created}
  BY DEF WriterTypes, Calls
<1>4. [step |-> "returned", draft |-> call[w].draft, next |-> 0, answer |-> n] \in Calls
  BY <1>1, <1>3 DEF Calls
<1>5. /\ call' \in [Writers -> Calls]
      /\ call'[w].step = "returned" /\ call'[w].draft = call[w].draft /\ call'[w].answer = n
      /\ \A v \in Writers : v # w => call'[v] = call[v]
  BY Moves, <1>2, <1>4 DEF WriterTypes
<1>6. WriterTypes'
  BY <1>1, <1>2, <1>3, <1>5 DEF WriterTypes
<1>7. Locking'
  <2>1. RunExists'
    BY <1>2 DEF RunExists
  <2>2. \A v \in Writers : call'[v].step # "locked"
    BY <1>5
  <2> QED BY <2>1, <2>2 DEF Locking
<1>8. e \in events' /\ e.sequence = n /\ e.draft = call[w].draft
  BY <1>2
<1>9. FirstStored'
  <2>1. CASE RunExists
    BY <2>1, <1>2 DEF FirstStored
  <2>2. CASE ~RunExists
    <3>1. n = 1 /\ call[w].draft = Created
      BY <2>2 DEF RunExists, WriterTypes
    <3> QED BY <3>1, <1>8 DEF FirstStored
  <2> QED BY <2>1, <2>2
<1>10. GapFree'
  <2>1. Numbers' = Numbers \union {n}
    BY <1>2, <1>8 DEF Numbers
  <2>2. n \notin Numbers
    BY DEF GapFree
  <2>3. Numbers' = {m \in 1..run'.next : m < run'.next}
    <3>1. Numbers = {m \in 1..run.next : m < run.next}
      BY DEF GapFree
    <3>2. CASE run.next = n
      BY <3>1, <3>2, <2>1, <1>1, <1>2
    <3>3. CASE run.next = 0 /\ n = 1
      BY <3>1, <3>3, <2>1, <1>1, <1>2
    <3> QED BY <3>2, <3>3
  <2>4. \A f, g \in events' : f.sequence = g.sequence => f = g
    <3> SUFFICES ASSUME NEW f \in events', NEW g \in events', f.sequence = g.sequence
                 PROVE  f = g
      OBVIOUS
    <3>1. \A h \in events : h.sequence # n
      BY <2>2 DEF Numbers
    <3>2. CASE f \in events /\ g \in events
      BY <3>2 DEF GapFree
    <3>3. CASE f = e \/ g = e
      BY <3>1, <3>3, <1>2, <1>8
    <3> QED BY <3>2, <3>3, <1>2
  <2> QED BY <2>3, <2>4 DEF GapFree
<1>11. AnswersStored'
  <2> SUFFICES ASSUME NEW v \in Writers, call'[v].step = "returned"
               PROVE  \E f \in events' : /\ f.sequence = call'[v].answer
                                         /\ f.draft = call'[v].draft \/ f \in Stored(call[v].draft)'
    BY DEF AnswersStored
  <2>1. CASE v = w
    BY <2>1, <1>5, <1>8
  <2>2. CASE v # w
    <3>1. PICK f \in events : /\ f.sequence = call[v].answer
                              /\ f.draft = call[v].draft \/ f \in Stored(call[v].draft)
      BY <2>2, <1>5 DEF AnswersStored
    <3>2. call'[v] = call[v] /\ f \in events'
      BY <2>2, <1>2, <1>5
    <3>3. f \in Stored(call[v].draft) => f \in Stored(call[v].draft)'
      BY <3>2 DEF Stored
    <3> QED BY <3>1, <3>2, <3>3
  <2> QED BY <2>1, <2>2
<1>12. RaisesExplained'
  BY <1>5 DEF RaisesExplained
<1> QED BY <1>6, <1>7, <1>9, <1>10, <1>11, <1>12

LEMMA WriteKeepsWriterInv ==
  ASSUME WriterInv, NEW w \in Writers, Write(w)
  PROVE  WriterInv'
<1> USE DEF WriterInv
<1>1. MaxEvents \in Nat \ {0} /\ call[w] \in Calls /\ run.next \in 0..MaxEvents + 1
  BY JournalAssumption DEF WriterTypes
<1>2. CASE BeginCreate(w)
  <2>1. [step |-> "called", draft |-> Created, next |-> 0, answer |-> 0] \in Calls
    BY <1>1 DEF Calls
  <2> QED BY <1>2, <2>1, Waits DEF BeginCreate
<1>3. CASE Create(w)
  <2>1. call[w].step = "called" /\ ~RunExists /\ call[w].draft = Created
    BY <1>3 DEF Create
  <2>2. \A v \in Writers : call[v].step # "locked"
    BY <2>1 DEF Locking
  <2>3. run.next = 0
    BY <2>1, <1>1 DEF RunExists
  <2> QED BY <1>1, <1>3, <2>1, <2>2, <2>3, Inserts DEF Create
<1>4. CASE CreateAgain(w)
  <2>1. [step |-> "raised", draft |-> call[w].draft, next |-> 0, answer |-> 0] \in Calls
    BY <1>1 DEF Calls
  <2>2. [step |-> "returned", draft |-> call[w].draft, next |-> 0, answer |-> 1] \in Calls
    BY <1>1 DEF Calls
  <2>3. CASE Raise(w)
    BY <1>4, <2>1, <2>3, Waits DEF CreateAgain, Raise
  <2>4. CASE Return(w, 1)
    <3>1. \E e \in events : e.sequence = 1 /\ e.draft = call[w].draft
      BY <1>4 DEF CreateAgain, FirstStored
    <3> QED BY <1>4, <2>2, <2>4, <3>1, Waits DEF CreateAgain, Return
  <2> QED BY <1>4, <2>3, <2>4 DEF CreateAgain
<1>5. ASSUME NEW d \in Drafts, BeginAppend(w, d)
      PROVE  WriterInv'
  <2>1. [step |-> "called", draft |-> d, next |-> 0, answer |-> 0] \in Calls
    BY <1>1 DEF Calls
  <2> QED BY <1>5, <2>1, Waits DEF BeginAppend
<1>6. CASE Lock(w)
  <2>1. [step |-> "locked", draft |-> call[w].draft, next |-> run.next, answer |-> 0] \in Calls
    BY <1>1 DEF Calls
  <2>2. RunExists
    BY <1>6 DEF Lock, Locking
  <2> QED BY <1>6, <2>1, <2>2, Waits DEF Lock
<1>7. CASE ReturnStored(w)
  <2>1. PICK e \in Stored(call[w].draft) : Return(w, e.sequence)
    BY <1>7 DEF ReturnStored
  <2>2. e \in events /\ e.sequence \in 0..MaxEvents
    BY <1>1 DEF Stored, WriterTypes
  <2>3. [step |-> "returned", draft |-> call[w].draft, next |-> 0, answer |-> e.sequence] \in Calls
    BY <1>1, <2>2 DEF Calls
  <2> QED BY <1>7, <2>1, <2>2, <2>3, Waits DEF ReturnStored, Return
<1>8. CASE AppendNew(w)
  <2>1. /\ call[w].step = "locked" /\ Stored(call[w].draft) = {}
        /\ Insert(w, call[w].next, [run |-> run, view |-> view])
    BY <1>8 DEF AppendNew
  <2>2. RunExists /\ call[w].next = run.next /\ run.next <= MaxEvents
    BY <2>1 DEF Locking, HasRoom
  <2>3. call[w].next \in 1..MaxEvents /\ run.next # 0
    BY <1>1, <2>2 DEF RunExists
  <2>4. \A v \in Writers : v # w => call[v].step # "locked"
    BY <2>1 DEF Locking
  <2> QED BY <2>1, <2>2, <2>3, <2>4, Inserts
<1>9. CASE AppendFails(w)
  <2>1. call[w].step = "locked" /\ Stored(call[w].draft) = {}
    BY <1>9 DEF AppendFails
  <2>2. call[w].next = run.next
    BY <2>1 DEF Locking
  <2>3. ~Conflicts(w)
    BY <2>1, <2>2, <1>1 DEF Conflicts, GapFree
  <2>4. call[w].draft.family \in {"work", "subagent"} /\ ~call[w].draft.named
    BY <1>9, <2>3 DEF AppendFails, Malformed, HasRow
  <2>5. [step |-> "raised", draft |-> call[w].draft, next |-> 0, answer |-> 0] \in Calls
    BY <1>1 DEF Calls
  <2> QED BY <1>9, <2>4, <2>5, Waits DEF AppendFails, Raise
<1>10. CASE Drop(w)
  <2>1. NoCall \in Calls
    BY <1>1 DEF Calls, NoCall
  <2>2. Goto(w, "idle", Created, 0, 0)
    BY <1>10 DEF Drop, Goto, NoCall
  <2> QED BY <1>10, <2>1, <2>2, Waits DEF Drop, NoCall
<1> QED
  BY <1>2, <1>3, <1>4, <1>5, <1>6, <1>7, <1>8, <1>9, <1>10 DEF Write

\* Rebuilding changes the run's status and mark, and no number.
LEMMA RebuildKeepsWriterInv ==
  ASSUME WriterInv, Rebuild
  PROVE  WriterInv'
<1> USE DEF WriterInv
<1>1. events' = events /\ call' = call /\ backend' = backend /\ run'.next = run.next
  BY DEF Rebuild
<1>2. RunExists' = RunExists /\ Numbers' = Numbers
  BY <1>1 DEF RunExists, Numbers
<1>3. \A d : Stored(d)' = Stored(d) /\ HasRoom(d)' = HasRoom(d)
  BY <1>1 DEF Stored, HasRoom
<1>4. WriterTypes'
  BY <1>1 DEF WriterTypes
<1>5. Locking'
  BY <1>1, <1>2, <1>3 DEF Locking
<1>6. FirstStored' /\ GapFree'
  BY <1>1, <1>2 DEF FirstStored, GapFree
<1>7. AnswersStored'
  BY <1>1, <1>3 DEF AnswersStored
<1>8. RaisesExplained'
  BY <1>1 DEF RaisesExplained
<1> QED BY <1>4, <1>5, <1>6, <1>7, <1>8

LEMMA OthersKeepWriterInv ==
  ASSUME WriterInv, UNCHANGED <<journal, call>>
  PROVE  WriterInv'
<1> USE DEF WriterInv
<1>1. events' = events /\ call' = call /\ backend' = backend /\ run' = run
  BY DEF journal
<1> QED
  BY <1>1 DEF WriterTypes, Locking, FirstStored, GapFree, AnswersStored, RaisesExplained,
              RunExists, Numbers, Stored, HasRoom

LEMMA StepKeepsWriterInv ==
  ASSUME WriterInv, [Next]_vars
  PROVE  WriterInv'
<1>1. ASSUME NEW w \in Writers, Write(w) PROVE WriterInv'
  BY <1>1, WriteKeepsWriterInv
<1>2. ASSUME NEW c \in Consumers, Consume(c) PROVE UNCHANGED <<journal, call>>
  BY <1>2 DEF Consume, Claim, ConsumerDies, MarkPublished, ReleaseOutbox, journal
<1>3. CASE Rebuild
  BY <1>3, RebuildKeepsWriterInv
<1>4. CASE Time
  <2>1. UNCHANGED <<journal, call>>
    BY <1>4 DEF Time, Lapse, FallDue, journal
  <2> QED BY <2>1, OthersKeepWriterInv
<1>5. CASE Read
  <2>1. UNCHANGED <<journal, call>>
    BY <1>5 DEF Read, Connect, Poll, Yield, Receive, EndOfStream, Disconnect, journal
  <2> QED BY <2>1, OthersKeepWriterInv
<1>6. CASE UNCHANGED vars
  <2>1. UNCHANGED <<journal, call>>
    BY <1>6 DEF vars, journal
  <2> QED BY <2>1, OthersKeepWriterInv
<1> QED
  BY <1>1, <1>2, <1>3, <1>4, <1>5, <1>6, OthersKeepWriterInv DEF Next

LEMMA WriterInvHolds == Spec => []WriterInv
BY InitWriter, StepKeepsWriterInv, PTL DEF Spec

\* The numbers of a run have no gap, whatever was rolled back or dropped.
THEOREM NumbersAreGapFree == Spec => []GapFree
BY WriterInvHolds, PTL DEF WriterInv

\* An acknowledged append is in the journal under the number it was given.
THEOREM AcknowledgedIsStored == Spec => []AnswersStored
BY WriterInvHolds, PTL DEF WriterInv

\* Only a second creator and a first event without its names are refused.
THEOREM ConcurrencyNeverRaises == Spec => []RaisesExplained
BY WriterInvHolds, PTL DEF WriterInv

-----------------------------------------------------------------------------
(* What a step may do to the numbers *)

LEMMA NumbersBelow ==
  ASSUME WriterInv
  PROVE  /\ MaxEvents \in Nat \ {0} /\ run.next \in 0..MaxEvents + 1
         /\ \A n : n \in Numbers <=> n \in Nat /\ 0 < n /\ n < run.next
BY JournalAssumption DEF WriterInv, WriterTypes, GapFree

\* next_event_sequence never goes back.
LEMMA NumbersGrow ==
  ASSUME WriterInv, [Next]_vars
  PROVE  run'.next >= run.next
<1>1. run.next \in Nat
  BY NumbersBelow
<1>2. ASSUME NEW w \in Writers, Write(w) PROVE run'.next >= run.next
  <2>1. CASE Create(w)
    <3>1. run'.next = 2 /\ ~RunExists
      BY <2>1 DEF Create, Insert
    <3> QED BY <3>1, <1>1 DEF RunExists
  <2>2. CASE AppendNew(w)
    <3>1. run'.next = call[w].next + 1 /\ call[w].next = run.next
      BY <2>2 DEF AppendNew, Insert, WriterInv, Locking
    <3> QED BY <3>1, <1>1
  <2>3. CASE ~Create(w) /\ ~AppendNew(w)
    <3>1. run' = run
      BY <1>2, <2>3 DEF Write, BeginCreate, BeginAppend, CreateAgain, Lock, ReturnStored,
                        AppendFails, Drop, journal
    <3> QED BY <3>1, <1>1
  <2> QED BY <2>1, <2>2, <2>3
<1>3. CASE Rebuild
  BY <1>1, <1>3 DEF Rebuild
<1>4. CASE UNCHANGED run
  BY <1>1, <1>4
<1>5. ASSUME NEW c \in Consumers, Consume(c) PROVE UNCHANGED run
  BY <1>5 DEF Consume, Claim, ConsumerDies, MarkPublished, ReleaseOutbox, journal
<1>6. Time => UNCHANGED run
  BY DEF Time, Lapse, FallDue, journal
<1>7. Read => UNCHANGED run
  BY DEF Read, Connect, Poll, Yield, Receive, EndOfStream, Disconnect, journal
<1>8. UNCHANGED vars => UNCHANGED run
  BY DEF vars
<1> QED BY <1>2, <1>3, <1>4, <1>5, <1>6, <1>7, <1>8 DEF Next

\* A page is an initial part of what lies beyond the cursor.
LEMMA PageIsInitial ==
  ASSUME WriterInv, NEW cursor \in Nat
  PROVE  /\ \A n \in Page(cursor) : n \in Numbers /\ n > cursor
         /\ \A n \in Page(cursor), m \in Numbers : cursor < m /\ m < n => m \in Page(cursor)
<1> DEFINE beyond == {n \in Numbers : n > cursor}
<1> DEFINE below(n) == {m \in beyond : m < n}
<1>1. \A n \in Numbers : n \in 1..MaxEvents
  BY NumbersBelow
<1>2. IsFiniteSet(1..MaxEvents)
  BY NumbersBelow, FS_Interval
<1>3. \A n : IsFiniteSet(below(n))
  BY <1>1, <1>2, FS_Subset
<1>4. ASSUME NEW n \in Page(cursor), NEW m \in Numbers, cursor < m, m < n
      PROVE  m \in Page(cursor)
  <2>1. n \in beyond /\ Cardinality(below(n)) < PageSize
    BY <1>4 DEF Page, FirstOf
  <2>2. below(m) \subseteq below(n)
    BY <1>1, <1>4, <2>1
  <2>3. Cardinality(below(m)) <= Cardinality(below(n))
    BY <1>3, <2>2, FS_Subset
  <2>4. Cardinality(below(m)) \in Nat /\ Cardinality(below(n)) \in Nat
    BY <1>3, FS_CardinalityType
  <2>5. Cardinality(below(m)) < PageSize
    BY <2>1, <2>3, <2>4, JournalAssumption
  <2> QED BY <1>4, <2>5 DEF Page, FirstOf
<1> QED BY <1>4 DEF Page, FirstOf

-----------------------------------------------------------------------------
(* The stream *)

\* Everything the server has sent is 1, 2, 3... with what has arrived first, its
\* page continues it, and the Last-Event-ID the browser resumes from says how
\* much it has got.
ReaderInv ==
  /\ stream \in [open : BOOLEAN, cursor : 0..MaxEvents, page : SUBSET Numbers]
  /\ wire \in Seq(1..MaxEvents) /\ received \in Seq(1..MaxEvents)
  /\ \A i \in 1..Len(received) : received[i] = i
  /\ \A i \in 1..Len(wire) : wire[i] = Len(received) + i
  /\ Len(received) + Len(wire) < run.next \/ Len(received) + Len(wire) = 0
  /\ stream.open => stream.cursor = Len(received) + Len(wire)
  /\ ~stream.open => stream.page = {}
  /\ \A n \in stream.page : n > stream.cursor
  /\ \A n \in stream.page, m \in Numbers : stream.cursor < m /\ m < n => m \in stream.page

LEMMA InitReader == Init => ReaderInv
<1> SUFFICES ASSUME Init PROVE ReaderInv
  OBVIOUS
<1>1. stream = [open |-> FALSE, cursor |-> 0, page |-> {}] /\ wire = <<>> /\ received = <<>>
  BY DEF Init
<1>2. MaxEvents \in Nat \ {0}
  BY JournalAssumption
<1> QED BY <1>1, <1>2 DEF ReaderInv

\* New numbers lie beyond every page.
LEMMA GrowthKeepsReaderInv ==
  ASSUME WriterInv, WriterInv', ReaderInv, run'.next >= run.next, UNCHANGED reader
  PROVE  ReaderInv'
<1>1. stream' = stream /\ wire' = wire /\ received' = received
  BY DEF reader
<1>2. /\ run.next \in Nat
      /\ \A n : n \in Numbers <=> n \in Nat /\ 0 < n /\ n < run.next
  BY NumbersBelow
<1>3. run'.next \in Nat /\ \A n : n \in Numbers' <=> n \in Nat /\ 0 < n /\ n < run'.next
  BY JournalAssumption DEF WriterInv, WriterTypes, GapFree
<1>4. \A n \in Numbers : n \in Numbers'
  BY <1>2, <1>3
<1>5. stream' \in [open : BOOLEAN, cursor : 0..MaxEvents, page : SUBSET Numbers']
  BY <1>1, <1>4 DEF ReaderInv
<1>6. Len(received) \in Nat /\ Len(wire) \in Nat /\ stream.cursor \in Nat
  BY DEF ReaderInv
<1>7. \A n \in stream.page, m \in Numbers' : stream.cursor < m /\ m < n => m \in stream.page
  <2> SUFFICES ASSUME NEW n \in stream.page, NEW m \in Numbers', stream.cursor < m, m < n
               PROVE  m \in stream.page
    OBVIOUS
  <2>1. n \in Numbers
    BY DEF ReaderInv
  <2>2. m \in Numbers
    BY <2>1, <1>2, <1>3
  <2> QED BY <2>2 DEF ReaderInv
<1>8. Len(received) + Len(wire) < run'.next \/ Len(received) + Len(wire) = 0
  BY <1>2, <1>3, <1>6 DEF ReaderInv
<1> QED BY <1>1, <1>5, <1>7, <1>8 DEF ReaderInv

LEMMA ReadKeepsReaderInv ==
  ASSUME WriterInv, ReaderInv, Read
  PROVE  ReaderInv'
<1>1. events' = events /\ run' = run
  BY DEF Read, Connect, Poll, Yield, Receive, EndOfStream, Disconnect, journal
<1>2. Numbers' = Numbers
  BY <1>1 DEF Numbers
<1>3. /\ MaxEvents \in Nat \ {0} /\ run.next \in 0..MaxEvents + 1
      /\ \A n : n \in Numbers <=> n \in Nat /\ 0 < n /\ n < run.next
  BY NumbersBelow
<1>4. /\ stream.open \in BOOLEAN /\ stream.cursor \in 0..MaxEvents
      /\ stream.page \subseteq Numbers
      /\ wire \in Seq(1..MaxEvents) /\ received \in Seq(1..MaxEvents)
      /\ Len(received) \in Nat /\ Len(wire) \in Nat
  BY DEF ReaderInv
<1>5. CASE Connect
  <2>1. wire = <<>> /\ wire' = wire /\ received' = received
    BY <1>5 DEF Connect
  <2>2. LastEventId = Len(received)
    <3>1. CASE received = <<>>
      BY <3>1 DEF LastEventId
    <3>2. CASE received # <<>>
      <4>1. Len(received) \in 1..Len(received)
        BY <3>2, <1>4
      <4>2. received[Len(received)] = Len(received)
        BY <4>1 DEF ReaderInv
      <4> QED BY <3>2, <4>2, <1>4 DEF LastEventId, Last
    <3> QED BY <3>1, <3>2
  <2> DEFINE page == IF backend = "memory" THEN Page(LastEventId) ELSE {}
  <2>3. stream' = [open |-> TRUE, cursor |-> Len(received), page |-> page]
    BY <1>5, <2>2 DEF Connect
  <2>4. /\ \A n \in page : n \in Numbers /\ n > Len(received)
        /\ \A n \in page, m \in Numbers : Len(received) < m /\ m < n => m \in page
    BY PageIsInitial, <2>2, <1>4
  <2> HIDE DEF page
  <2>5. Len(received) \in 0..MaxEvents
    BY <1>3, <1>4, <2>1 DEF ReaderInv
  <2>6. stream' \in [open : BOOLEAN, cursor : 0..MaxEvents, page : SUBSET Numbers']
    BY <2>3, <2>4, <2>5, <1>2
  <2>7. Len(received) + Len(wire) = Len(received)
    BY <2>1, <1>4
  <2> QED BY <1>1, <1>2, <2>1, <2>3, <2>4, <2>6, <2>7 DEF ReaderInv
<1>6. CASE Poll
  <2> DEFINE page == Page(stream.cursor)
  <2>1. /\ stream.open /\ wire' = wire /\ received' = received
        /\ stream' = [stream EXCEPT !.page = page]
    BY <1>6 DEF Poll
  <2>2. /\ \A n \in page : n \in Numbers /\ n > stream.cursor
        /\ \A n \in page, m \in Numbers : stream.cursor < m /\ m < n => m \in page
    BY PageIsInitial, <1>4
  <2> HIDE DEF page
  <2>3. stream' \in [open : BOOLEAN, cursor : 0..MaxEvents, page : SUBSET Numbers']
    BY <2>1, <2>2, <1>2 DEF ReaderInv
  <2>4. stream'.open = stream.open /\ stream'.cursor = stream.cursor /\ stream'.page = page
    BY <2>1 DEF ReaderInv
  <2> QED BY <1>1, <1>2, <2>1, <2>2, <2>3, <2>4 DEF ReaderInv
<1>7. CASE Yield
  <2>1. PICK n \in stream.page :
          /\ \A m \in stream.page : n <= m
          /\ IF n > stream.cursor
             THEN /\ stream' = [open |-> TRUE, cursor |-> n, page |-> stream.page \ {n}]
                  /\ wire' = Append(wire, n)
             ELSE /\ stream' = Closed /\ wire' = wire
    BY <1>7 DEF Yield
  <2>2. n > stream.cursor /\ n \in Numbers /\ n \in Nat /\ n < run.next /\ n \in 1..MaxEvents
    BY <1>3, <1>4 DEF ReaderInv
  <2>3. /\ stream' = [open |-> TRUE, cursor |-> n, page |-> stream.page \ {n}]
        /\ wire' = Append(wire, n) /\ received' = received
    BY <2>1, <2>2, <1>7 DEF Yield
  <2>4. n = Len(received) + Len(wire) + 1
    <3>1. stream.cursor = Len(received) + Len(wire)
      BY <1>7 DEF ReaderInv, Yield
    <3>2. ~(stream.cursor + 1 < n)
      <4> SUFFICES ASSUME stream.cursor + 1 < n PROVE FALSE
        OBVIOUS
      <4> DEFINE k == stream.cursor + 1
      <4>1. k \in Nat /\ 0 < k /\ k < run.next /\ stream.cursor < k /\ k < n
        BY <1>3, <1>4, <2>2
      <4> HIDE DEF k
      <4>2. k \in Numbers
        BY <4>1, <1>3
      <4>3. k \in stream.page
        BY <4>1, <4>2 DEF ReaderInv
      <4> QED BY <4>1, <4>3, <2>1, <2>2, <1>4
    <3> QED BY <3>1, <3>2, <2>2, <1>4
  <2>5. /\ wire' \in Seq(1..MaxEvents) /\ Len(wire') = Len(wire) + 1
        /\ \A i \in 1..Len(wire') : wire'[i] = Len(received) + i
    <3>1. /\ wire' \in Seq(1..MaxEvents) /\ Len(wire') = Len(wire) + 1
          /\ wire'[Len(wire) + 1] = n
          /\ \A i \in 1..Len(wire) : wire'[i] = wire[i]
      BY <2>2, <2>3, <1>4
    <3>2. \A i \in 1..Len(wire) : wire'[i] = Len(received) + i
      BY <3>1 DEF ReaderInv
    <3>3. \A i \in 1..Len(wire') : i \in 1..Len(wire) \/ i = Len(wire) + 1
      BY <3>1, <1>4
    <3>4. n = Len(received) + (Len(wire) + 1)
      BY <2>4, <1>4
    <3> QED BY <3>1, <3>2, <3>3, <3>4
  <2>6. stream' \in [open : BOOLEAN, cursor : 0..MaxEvents, page : SUBSET Numbers']
    BY <2>2, <2>3, <1>2, <1>4
  <2>7. \A m \in stream.page \ {n} : m > n
    BY <2>1, <2>2, <1>3, <1>4
  <2>8. \A m \in stream.page \ {n}, k \in Numbers : n < k /\ k < m => k \in stream.page \ {n}
    BY <2>2, <1>3, <1>4 DEF ReaderInv
  <2>9. Len(received) + Len(wire') = n
    BY <2>4, <2>5, <1>4
  <2> QED BY <1>1, <1>2, <1>4, <2>2, <2>3, <2>5, <2>6, <2>7, <2>8, <2>9 DEF ReaderInv
<1>8. CASE Receive
  <2>1. /\ wire # <<>> /\ received' = Append(received, Head(wire)) /\ wire' = Tail(wire)
        /\ stream' = stream
    BY <1>8 DEF Receive
  <2>2. Head(wire) = Len(received) + 1 /\ Head(wire) \in 1..MaxEvents
    <3>1. Len(wire) > 0
      BY <2>1, <1>4
    <3>2. Head(wire) = wire[1]
      BY <1>4, <3>1
    <3>3. 1 \in 1..Len(wire)
      BY <1>4, <3>1
    <3>4. wire[1] \in 1..MaxEvents
      BY <1>4, <3>3, ElementOfSeq
    <3> QED BY <3>2, <3>3, <3>4 DEF ReaderInv
  <2>3. /\ received' \in Seq(1..MaxEvents) /\ Len(received') = Len(received) + 1
        /\ \A i \in 1..Len(received') : received'[i] = i
    BY <2>1, <2>2, <1>4 DEF ReaderInv
  <2>4. /\ wire' \in Seq(1..MaxEvents) /\ Len(wire') = Len(wire) - 1 /\ Len(wire) > 0
        /\ \A i \in 1..Len(wire') : wire'[i] = wire[i + 1]
    BY <2>1, <1>4
  <2>5. \A i \in 1..Len(wire') : wire'[i] = Len(received') + i
    BY <2>3, <2>4, <1>4 DEF ReaderInv
  <2>6. Len(received') + Len(wire') = Len(received) + Len(wire)
    BY <2>3, <2>4, <1>4
  <2> QED BY <1>1, <1>2, <2>1, <2>3, <2>4, <2>5, <2>6 DEF ReaderInv
<1>9. CASE EndOfStream
  <2>1. stream' = Closed /\ wire' = wire /\ received' = received
    BY <1>9 DEF EndOfStream
  <2>2. stream' \in [open : BOOLEAN, cursor : 0..MaxEvents, page : SUBSET Numbers']
    BY <2>1, <1>4 DEF Closed
  <2> QED BY <1>1, <2>1, <2>2 DEF ReaderInv, Closed
<1>10. CASE Disconnect
  <2>1. stream' = Closed /\ wire' = <<>> /\ received' = received
    BY <1>10 DEF Disconnect
  <2>2. stream' \in [open : BOOLEAN, cursor : 0..MaxEvents, page : SUBSET Numbers']
    BY <2>1, <1>4 DEF Closed
  <2>3. Len(received) + Len(<<>>) < run.next \/ Len(received) + Len(<<>>) = 0
    BY <1>3, <1>4 DEF ReaderInv
  <2> QED BY <1>1, <2>1, <2>2, <2>3, <1>4 DEF ReaderInv, Closed
<1> QED BY <1>5, <1>6, <1>7, <1>8, <1>9, <1>10 DEF Read

LEMMA StepKeepsReaderInv ==
  ASSUME WriterInv, WriterInv', ReaderInv, [Next]_vars
  PROVE  ReaderInv'
<1>1. ASSUME NEW w \in Writers, Write(w) PROVE UNCHANGED reader
  BY <1>1 DEF Write, BeginCreate, BeginAppend, Create, CreateAgain, Lock, ReturnStored,
              AppendNew, AppendFails, Drop, Insert
<1>2. ASSUME NEW c \in Consumers, Consume(c) PROVE UNCHANGED reader
  BY <1>2 DEF Consume, Claim, ConsumerDies, MarkPublished, ReleaseOutbox
<1>3. Rebuild => UNCHANGED reader
  BY DEF Rebuild
<1>4. Time => UNCHANGED reader
  BY DEF Time, Lapse, FallDue
<1>5. UNCHANGED vars => UNCHANGED reader
  BY DEF vars, reader
<1>6. UNCHANGED reader => ReaderInv'
  BY NumbersGrow, GrowthKeepsReaderInv
<1> QED BY <1>1, <1>2, <1>3, <1>4, <1>5, <1>6, ReadKeepsReaderInv DEF Next

LEMMA ReaderInvHolds == Spec => []ReaderInv
BY InitReader, WriterInvHolds, StepKeepsReaderInv, PTL DEF Spec

\* Over any number of broken connections the browser gets every event once and
\* in order.
THEOREM ReplayIsExact == Spec => []ReplayExactly
<1>1. WriterInv /\ ReaderInv => ReplayExactly
  <2> SUFFICES ASSUME WriterInv, ReaderInv PROVE ReplayExactly
    OBVIOUS
  <2>1. Len(received) \in Nat /\ Len(wire) \in Nat /\ run.next \in Nat
    BY NumbersBelow DEF ReaderInv
  <2>2. Len(received) < run.next \/ Len(received) = 0
    BY <2>1 DEF ReaderInv
  <2>3. Len(received) = 0 => received = <<>>
    BY EmptySeq DEF ReaderInv
  <2> QED BY <2>2, <2>3 DEF ReplayExactly, ReaderInv
<1> QED BY <1>1, WriterInvHolds, ReaderInvHolds, PTL

-----------------------------------------------------------------------------
(* The outbox *)

Message ==
  [holder : Consumers \union {Nobody}, lease : {"none", "live", "lapsed"},
   due : BOOLEAN, published : BOOLEAN]

\* A message is leased to the consumer that holds it and to nobody else; a
\* published one is leased to nobody, and for good.
OutboxInv ==
  /\ DOMAIN outbox \subseteq Numbers
  /\ outbox \in [DOMAIN outbox -> Message]
  /\ held \in [Consumers -> SUBSET Numbers]
  /\ \A n \in DOMAIN outbox :
       /\ outbox[n].lease = "none" <=> outbox[n].holder = Nobody
       /\ outbox[n].published => outbox[n].holder = Nobody /\ outbox[n].due

LEMMA InitOutbox == Init => OutboxInv
BY DEF Init, OutboxInv, Message

\* The steps that leave the messages alone: new numbers are not among them.
LEMMA GrowthKeepsOutboxInv ==
  ASSUME WriterInv, WriterInv', OutboxInv, run'.next >= run.next, UNCHANGED <<outbox, held>>
  PROVE  OutboxInv'
<1>1. \A n : n \in Numbers <=> n \in Nat /\ 0 < n /\ n < run.next
  BY NumbersBelow
<1>2. run'.next \in Nat /\ \A n : n \in Numbers' <=> n \in Nat /\ 0 < n /\ n < run'.next
  BY JournalAssumption DEF WriterInv, WriterTypes, GapFree
<1>3. run.next \in Nat
  BY NumbersBelow
<1>4. \A n \in Numbers : n \in Numbers'
  BY <1>1, <1>2, <1>3
<1>5. held \in [Consumers -> SUBSET Numbers']
  BY <1>4 DEF OutboxInv
<1> QED BY <1>4, <1>5 DEF OutboxInv

\* What a step may do to one message: nothing, a claim of what is claimable, a
\* settlement by its holder, or the passing of time.
Touched(n) ==
  \/ outbox'[n] = outbox[n]
  \/ /\ n \in Claimable
     /\ \E c \in Consumers : outbox'[n] = Leased(c)
  \/ \E c \in Consumers :
       /\ n \in held[c] /\ Settles(c, n) /\ n \notin held'[c]
       /\ outbox'[n] \in {Published, Delayed}
  \/ outbox[n].lease = "live" /\ outbox'[n] = [outbox[n] EXCEPT !.lease = "lapsed"]
  \/ ~outbox[n].due /\ outbox'[n] = [outbox[n] EXCEPT !.due = TRUE]

LEMMA WriteTouchesNoMessage ==
  ASSUME WriterInv, OutboxInv, NEW w \in Writers, Write(w)
  PROVE  /\ UNCHANGED held
         /\ \/ UNCHANGED outbox
            \/ \E n \in Numbers' \ Numbers :
                 outbox' = [m \in DOMAIN outbox \union {n} |-> IF m = n THEN Fresh ELSE outbox[m]]
<1>1. CASE ~Create(w) /\ ~AppendNew(w)
  BY <1>1 DEF Write, BeginCreate, BeginAppend, CreateAgain, Lock, ReturnStored, AppendFails, Drop
<1>2. ASSUME NEW n, NEW before, Insert(w, n, before), n \notin Numbers
      PROVE  /\ UNCHANGED held
             /\ \/ UNCHANGED outbox
                \/ \E k \in Numbers' \ Numbers :
                     outbox' = [m \in DOMAIN outbox \union {k} |->
                                  IF m = k THEN Fresh ELSE outbox[m]]
  <2>1. n \in Numbers'
    BY <1>2 DEF Insert, Numbers
  <2>2. held' = held /\ \/ outbox' = outbox
                        \/ outbox' = [m \in DOMAIN outbox \union {n} |->
                                        IF m = n THEN Fresh ELSE outbox[m]]
    BY <1>2 DEF Insert
  <2> QED BY <1>2, <2>1, <2>2
<1>3. CASE Create(w)
  <2>1. 1 \notin Numbers
    BY <1>3, NumbersBelow DEF Create, RunExists
  <2> QED BY <1>2, <1>3, <2>1 DEF Create
<1>4. CASE AppendNew(w)
  <2>1. call[w].next \notin Numbers
    BY <1>4 DEF AppendNew, Conflicts
  <2> QED BY <1>2, <1>4, <2>1 DEF AppendNew
<1> QED BY <1>1, <1>3, <1>4

LEMMA MessagesTouched ==
  ASSUME WriterInv, OutboxInv, [Next]_vars, NEW n \in DOMAIN outbox
  PROVE  Touched(n)
<1>1. ASSUME NEW w \in Writers, Write(w) PROVE Touched(n)
  <2>1. n \in Numbers
    BY DEF OutboxInv
  <2> QED BY <1>1, <2>1, WriteTouchesNoMessage DEF Touched
<1>2. ASSUME NEW c \in Consumers, Consume(c) PROVE Touched(n)
  <2>1. CASE Claim(c)
    <3>1. \A m \in FirstOf(Claimable, ClaimLimit) : m \in Claimable
      BY DEF FirstOf
    <3> QED BY <2>1, <3>1 DEF Claim, Touched
  <2>2. CASE ConsumerDies(c)
    BY <2>2 DEF ConsumerDies, Touched
  <2>3. ASSUME NEW m \in held[c], MarkPublished(c, m) PROVE Touched(n)
    <3>1. m \notin held'[c]
      BY <2>3 DEF MarkPublished, OutboxInv
    <3> QED BY <2>3, <3>1 DEF MarkPublished, Touched
  <2>4. ASSUME NEW m \in held[c], ReleaseOutbox(c, m) PROVE Touched(n)
    <3>1. m \notin held'[c]
      BY <2>4 DEF ReleaseOutbox, OutboxInv
    <3> QED BY <2>4, <3>1 DEF ReleaseOutbox, Touched
  <2> QED BY <1>2, <2>1, <2>2, <2>3, <2>4 DEF Consume
<1>3. CASE Rebuild
  BY <1>3 DEF Rebuild, Touched
<1>4. CASE Time
  <2>1. ASSUME NEW m \in DOMAIN outbox, Lapse(m) PROVE Touched(n)
    BY <2>1 DEF Lapse, Touched
  <2>2. ASSUME NEW m \in DOMAIN outbox, FallDue(m) PROVE Touched(n)
    BY <2>2 DEF FallDue, Touched
  <2> QED BY <1>4, <2>1, <2>2 DEF Time
<1>5. CASE Read
  BY <1>5 DEF Read, Connect, Poll, Yield, Receive, EndOfStream, Disconnect, Touched
<1>6. CASE UNCHANGED vars
  BY <1>6 DEF vars, Touched
<1> QED BY <1>1, <1>2, <1>3, <1>4, <1>5, <1>6 DEF Next

LEMMA TouchedKeepsMessage ==
  ASSUME OutboxInv, NEW n \in DOMAIN outbox, Touched(n)
  PROVE  /\ outbox'[n] \in Message
         /\ outbox'[n].lease = "none" <=> outbox'[n].holder = Nobody
         /\ outbox'[n].published => outbox'[n].holder = Nobody /\ outbox'[n].due
<1>1. /\ outbox[n] \in Message
      /\ outbox[n].lease = "none" <=> outbox[n].holder = Nobody
      /\ outbox[n].published => outbox[n].holder = Nobody /\ outbox[n].due
  BY DEF OutboxInv
<1>2. CASE outbox'[n] = outbox[n]
  BY <1>1, <1>2
<1>3. ASSUME NEW c \in Consumers, outbox'[n] = Leased(c)
      PROVE  /\ outbox'[n] \in Message
             /\ outbox'[n].lease = "none" <=> outbox'[n].holder = Nobody
             /\ outbox'[n].published => outbox'[n].holder = Nobody /\ outbox'[n].due
  BY <1>3, JournalAssumption DEF Leased, Message
<1>4. CASE outbox'[n] \in {Published, Delayed}
  <2>1. /\ Published \in Message /\ Published.lease = "none"
        /\ Published.holder = Nobody /\ Published.due
    BY DEF Published, Message
  <2>2. /\ Delayed \in Message /\ Delayed.lease = "none"
        /\ Delayed.holder = Nobody /\ ~Delayed.published
    BY DEF Delayed, Message
  <2> QED BY <1>4, <2>1, <2>2
<1>5. CASE outbox[n].lease = "live" /\ outbox'[n] = [outbox[n] EXCEPT !.lease = "lapsed"]
  BY <1>1, <1>5 DEF Message
<1>6. CASE ~outbox[n].due /\ outbox'[n] = [outbox[n] EXCEPT !.due = TRUE]
  BY <1>1, <1>6 DEF Message
<1> QED BY <1>2, <1>3, <1>4, <1>5, <1>6 DEF Touched

LEMMA StepKeepsOutboxInv ==
  ASSUME WriterInv, WriterInv', OutboxInv, [Next]_vars
  PROVE  OutboxInv'
<1> DEFINE Good(m) == /\ m \in Message
                      /\ m.lease = "none" <=> m.holder = Nobody
                      /\ m.published => m.holder = Nobody /\ m.due
<1>1. \A n \in DOMAIN outbox : Good(outbox'[n])
  BY MessagesTouched, TouchedKeepsMessage
<1>2. DOMAIN outbox \subseteq Numbers /\ held \in [Consumers -> SUBSET Numbers]
  BY DEF OutboxInv
<1>3. \A n : n \in Numbers <=> n \in Nat /\ 0 < n /\ n < run.next
  BY NumbersBelow
<1>4. run'.next \in Nat /\ \A n : n \in Numbers' <=> n \in Nat /\ 0 < n /\ n < run'.next
  BY JournalAssumption DEF WriterInv, WriterTypes, GapFree
<1>5. run.next \in Nat /\ run'.next >= run.next
  BY NumbersBelow, NumbersGrow
<1>6. \A n \in Numbers : n \in Numbers'
  BY <1>3, <1>4, <1>5
<1>7. held \in [Consumers -> SUBSET Numbers']
  BY <1>2, <1>6
<1> HIDE DEF Good
<1>8. ASSUME DOMAIN outbox' = DOMAIN outbox, outbox' = [n \in DOMAIN outbox |-> outbox'[n]],
             held' \in [Consumers -> SUBSET Numbers']
      PROVE  OutboxInv'
  BY <1>1, <1>2, <1>6, <1>8 DEF OutboxInv, Good
<1>9. ASSUME NEW w \in Writers, Write(w) PROVE OutboxInv'
  <2>1. CASE UNCHANGED outbox /\ UNCHANGED held
    BY <2>1, <1>5, GrowthKeepsOutboxInv
  <2>2. ASSUME UNCHANGED held, NEW k \in Numbers' \ Numbers,
               outbox' = [m \in DOMAIN outbox \union {k} |-> IF m = k THEN Fresh ELSE outbox[m]]
        PROVE  OutboxInv'
    <3>1. Good(Fresh)
      BY DEF Good, Fresh, Message
    <3>2. DOMAIN outbox' = DOMAIN outbox \union {k}
      BY <2>2
    <3>3. \A n \in DOMAIN outbox' : Good(outbox'[n])
      BY <1>1, <2>2, <3>1, <3>2
    <3>4. outbox' = [n \in DOMAIN outbox' |-> outbox'[n]]
      BY <2>2
    <3>5. outbox' \in [DOMAIN outbox' -> Message]
      BY <3>3, <3>4 DEF Good
    <3> QED BY <1>2, <1>6, <1>7, <2>2, <3>2, <3>3, <3>5 DEF OutboxInv, Good
  <2> QED BY <1>9, <2>1, <2>2, WriteTouchesNoMessage
<1>10. ASSUME NEW c \in Consumers, Consume(c) PROVE OutboxInv'
  <2>1. CASE Claim(c)
    <3>1. \A m \in FirstOf(Claimable, ClaimLimit) : m \in DOMAIN outbox
      BY DEF FirstOf, Claimable
    <3>2. held' \in [Consumers -> SUBSET Numbers']
      BY <2>1, <3>1, <1>2, <1>6, <1>7 DEF Claim
    <3>3. DOMAIN outbox' = DOMAIN outbox /\ outbox' = [n \in DOMAIN outbox |-> outbox'[n]]
      BY <2>1 DEF Claim
    <3> QED BY <1>8, <3>2, <3>3
  <2>2. CASE ~Claim(c)
    <3>1. held' \in [Consumers -> SUBSET Numbers']
      BY <1>10, <2>2, <1>7 DEF Consume, ConsumerDies, MarkPublished, ReleaseOutbox
    <3>2. DOMAIN outbox' = DOMAIN outbox /\ outbox' = [n \in DOMAIN outbox |-> outbox'[n]]
      BY <1>10, <2>2 DEF Consume, ConsumerDies, MarkPublished, ReleaseOutbox, OutboxInv
    <3> QED BY <1>8, <3>1, <3>2
  <2> QED BY <2>1, <2>2
<1>11. CASE Time
  <2>1. held' = held
    BY <1>11 DEF Time, Lapse, FallDue
  <2>2. DOMAIN outbox' = DOMAIN outbox /\ outbox' = [n \in DOMAIN outbox |-> outbox'[n]]
    BY <1>11 DEF Time, Lapse, FallDue, OutboxInv
  <2> QED BY <1>7, <1>8, <2>1, <2>2
<1>12. CASE UNCHANGED <<outbox, held>>
  BY <1>12, <1>5, GrowthKeepsOutboxInv
<1>13. Rebuild => UNCHANGED <<outbox, held>>
  BY DEF Rebuild
<1>14. Read => UNCHANGED <<outbox, held>>
  BY DEF Read, Connect, Poll, Yield, Receive, EndOfStream, Disconnect
<1>15. UNCHANGED vars => UNCHANGED <<outbox, held>>
  BY DEF vars
<1> QED BY <1>9, <1>10, <1>11, <1>12, <1>13, <1>14, <1>15 DEF Next

LEMMA OutboxInvHolds == Spec => []OutboxInv
BY InitOutbox, WriterInvHolds, StepKeepsOutboxInv, PTL DEF Spec

\* While a lease is live its message belongs to one consumer.
THEOREM LeasesAreRespected == Spec => LeaseRespected
<1>1. ASSUME WriterInv, OutboxInv, [Next]_vars
      PROVE  [\A n \in DOMAIN outbox :
                outbox[n].lease = "live" /\ outbox'[n].lease = "live"
                  => outbox'[n].holder = outbox[n].holder]_vars
  <2> SUFFICES ASSUME NEW n \in DOMAIN outbox, outbox[n].lease = "live",
                      outbox'[n].lease = "live"
               PROVE  outbox'[n].holder = outbox[n].holder
    OBVIOUS
  <2>1. Touched(n) /\ outbox[n] \in Message
    BY <1>1, MessagesTouched DEF OutboxInv
  <2>2. n \notin Claimable
    BY DEF Claimable
  <2>3. \A m \in {Published, Delayed} : m.lease = "none"
    BY DEF Published, Delayed
  <2>4. outbox[n].due \/ outbox'[n] # [outbox[n] EXCEPT !.due = TRUE]
          \/ outbox'[n].holder = outbox[n].holder
    BY <2>1 DEF Message
  <2>5. outbox'[n] = [outbox[n] EXCEPT !.lease = "lapsed"] => outbox'[n].lease = "lapsed"
    BY <2>1 DEF Message
  <2> QED BY <2>1, <2>2, <2>3, <2>4, <2>5 DEF Touched
<1> QED BY <1>1, WriterInvHolds, OutboxInvHolds, PTL DEF Spec, LeaseRespected

\* Only a consumer that still owns a message settles it, and what is published
\* stays as it is.
THEOREM OnlyTheOwnerSettles == Spec => SettledByOwner
<1>1. ASSUME WriterInv, OutboxInv, [Next]_vars
      PROVE  [\A n \in DOMAIN outbox :
                /\ outbox[n].published => outbox'[n] = outbox[n]
                /\ outbox[n].holder # Nobody /\ outbox'[n].holder = Nobody
                     => /\ n \in held[outbox[n].holder]
                        /\ n \notin held'[outbox[n].holder]]_vars
  <2> SUFFICES ASSUME NEW n \in DOMAIN outbox
               PROVE  /\ outbox[n].published => outbox'[n] = outbox[n]
                      /\ outbox[n].holder # Nobody /\ outbox'[n].holder = Nobody
                           => /\ n \in held[outbox[n].holder]
                              /\ n \notin held'[outbox[n].holder]
    OBVIOUS
  <2>1. /\ Touched(n) /\ outbox[n] \in Message
        /\ outbox[n].lease = "none" <=> outbox[n].holder = Nobody
        /\ outbox[n].published => outbox[n].holder = Nobody /\ outbox[n].due
    BY <1>1, MessagesTouched DEF OutboxInv
  <2>2. CASE outbox'[n] = outbox[n]
    BY <2>2
  <2>3. ASSUME n \in Claimable, NEW c \in Consumers, outbox'[n] = Leased(c)
        PROVE  ~outbox[n].published /\ outbox'[n].holder # Nobody
    BY <2>3, JournalAssumption DEF Claimable, Leased
  <2>4. ASSUME NEW c \in Consumers, n \in held[c], Settles(c, n), n \notin held'[c]
        PROVE  ~outbox[n].published /\ outbox[n].holder = c
    BY <2>4 DEF Settles
  <2>5. CASE outbox[n].lease = "live" /\ outbox'[n] = [outbox[n] EXCEPT !.lease = "lapsed"]
    BY <2>1, <2>5 DEF Message
  <2>6. CASE ~outbox[n].due /\ outbox'[n] = [outbox[n] EXCEPT !.due = TRUE]
    BY <2>1, <2>6 DEF Message
  <2> QED BY <2>1, <2>2, <2>3, <2>4, <2>5, <2>6 DEF Touched
<1> QED BY <1>1, WriterInvHolds, OutboxInvHolds, PTL DEF Spec, SettledByOwner

\* Every variable keeps its type: the run's rows, the messages, the calls, and
\* what is in flight to the browser.
THEOREM JournalTypes == Spec => []TypeOK
<1>1. WriterInv /\ ReaderInv /\ OutboxInv => TypeOK
  BY DEF WriterInv, WriterTypes, ReaderInv, OutboxInv, Message, Calls, TypeOK
<1> QED BY <1>1, WriterInvHolds, ReaderInvHolds, OutboxInvHolds, PTL

-----------------------------------------------------------------------------
(* The projections: what a row shows after an event, the rows after an     *)
(* event, the rows after a replay - a fold over the events in the order of *)
(* their numbers - and so after every append and every rebuild.            *)

\* Rows, and what an event makes of them.
Words == STRING \union {"unset"}
RunRows == [next : Nat, status : Words, mark : BOOLEAN]
Rows == [status : Words, mark : BOOLEAN, last : Nat]

LEMMA UpdatedRun ==
  ASSUME NEW row \in RunRows, NEW d \in Draft
  PROVE  /\ Updated(row, d) \in RunRows
         /\ Updated(row, d).status = IF d.status = "unset" THEN row.status ELSE d.status
         /\ Updated(row, d).mark <=> ~Reopens(d) /\ Marked(d, row.mark)
         /\ Updated(row, d).next = row.next
<1>1. Marked(d, row.mark) \in BOOLEAN
  BY DEF Marked, RunRows
<1> QED
  BY <1>1 DEF Updated, RunRows, Words, Draft

LEMMA UpdatedRow ==
  ASSUME NEW row \in Rows, NEW d \in Draft
  PROVE  /\ Updated(row, d) \in Rows
         /\ Updated(row, d).status = IF d.status = "unset" THEN row.status ELSE d.status
         /\ Updated(row, d).mark <=> ~Reopens(d) /\ Marked(d, row.mark)
         /\ Updated(row, d).last = row.last
<1>1. Marked(d, row.mark) \in BOOLEAN
  BY DEF Marked, Rows
<1> QED
  BY <1>1 DEF Updated, Rows, Words, Draft

ViewRows(RS, CS) == [status : Words, mark : BOOLEAN, last : Nat, rows : RS, counts : CS]
LEMMA UpdatedView ==
  ASSUME NEW RS, NEW CS, NEW row \in ViewRows(RS, CS), NEW d \in Draft
  PROVE  /\ Updated(row, d) \in ViewRows(RS, CS)
         /\ Updated(row, d).status = IF d.status = "unset" THEN row.status ELSE d.status
         /\ Updated(row, d).mark <=> ~Reopens(d) /\ Marked(d, row.mark)
<1>1. Marked(d, row.mark) \in BOOLEAN
  BY DEF Marked, ViewRows
<1> QED
  BY <1>1 DEF Updated, ViewRows, Words, Draft

\* Events as they are stored, and one that comes after all of some others.
StoredEvent == [sequence : Nat \ {0}, draft : Drafts \union {Created}]
After(e, es) == \A f \in es : f.sequence < e.sequence

\* The mark of a row that starts with mark m and sees the events es.
Keeps(f) == f.draft.mark # "clear" /\ ~Reopens(f.draft)
MarkedBy(es) ==
  \E e \in es : e.draft.mark = "set" /\ \A f \in es : f.sequence >= e.sequence => Keeps(f)
Setting(es) == {e \in es : e.draft.status # "unset"}
Tells(row, es, m) ==
  /\ Setting(es) # {} => row.status = Latest(Setting(es)).draft.status
  /\ row.mark <=> MarkedBy(es) \/ (m /\ \A f \in es : Keeps(f))

LEMMA StoredDrafts ==
  ASSUME NEW e \in StoredEvent
  PROVE  /\ e.draft \in Draft /\ e.sequence \in Nat \ {0}
         /\ HasRow(e.draft) => e.draft.status # "unset"
         /\ e.draft.family = "run" /\ e.draft.mark = "set" => e.draft.status # "unset"
BY JournalAssumption DEF StoredEvent, HasRow

LEMMA LatestIsNew ==
  ASSUME NEW es \in SUBSET StoredEvent, NEW e \in StoredEvent, After(e, es)
  PROVE  Latest(es \union {e}) = e
<1>1. \A f \in es \union {e} : f.sequence <= e.sequence
  BY DEF After, StoredEvent
<1>2. ASSUME NEW f \in es \union {e}, \A g \in es \union {e} : g.sequence <= f.sequence
      PROVE  f = e
  BY <1>2 DEF After, StoredEvent
<1> QED
  BY <1>1, <1>2 DEF Latest

\* One more event: its status if it has one, and its mark unless it reopens.
LEMMA TellsMore ==
  ASSUME NEW es \in SUBSET StoredEvent, NEW e \in StoredEvent, After(e, es),
         NEW row, NEW after, NEW m \in BOOLEAN, Tells(row, es, m), row.mark \in BOOLEAN,
         after.status = IF e.draft.status = "unset" THEN row.status ELSE e.draft.status,
         after.mark <=> ~Reopens(e.draft) /\ Marked(e.draft, row.mark)
  PROVE  Tells(after, es \union {e}, m)
<1> DEFINE new == es \union {e}
<1>1. Setting(new) # {} => after.status = Latest(Setting(new)).draft.status
  <2>1. CASE e.draft.status = "unset"
    <3>1. Setting(new) = Setting(es)
      BY <2>1 DEF Setting
    <3> QED
      BY <2>1, <3>1 DEF Tells
  <2>2. CASE e.draft.status # "unset"
    <3>1. Setting(new) = Setting(es) \union {e}
      BY <2>2 DEF Setting
    <3>2. Setting(es) \in SUBSET StoredEvent /\ After(e, Setting(es))
      BY DEF Setting, After
    <3> QED
      BY <2>2, <3>1, <3>2, LatestIsNew
  <2> QED
    BY <2>1, <2>2
<1>2. e.draft.mark \in {"keep", "set", "clear"}
  BY StoredDrafts DEF Draft
<1>3. \A f \in es : f.sequence < e.sequence /\ ~(f.sequence >= e.sequence) /\ e.sequence >= f.sequence
  BY DEF After, StoredEvent
<1>4. e.sequence >= e.sequence
  BY DEF StoredEvent
<1>5. CASE ~Keeps(e)
  <2>1. ~MarkedBy(new) /\ ~(\A f \in new : Keeps(f))
    BY <1>3, <1>4, <1>5 DEF MarkedBy
  <2>2. ~after.mark
    BY <1>2, <1>5 DEF Keeps, Marked
  <2> QED
    BY <1>1, <2>1, <2>2 DEF Tells
<1>6. CASE Keeps(e) /\ e.draft.mark = "set"
  <2>1. MarkedBy(new)
    BY <1>3, <1>6 DEF MarkedBy
  <2>2. after.mark
    BY <1>6 DEF Keeps, Marked
  <2> QED
    BY <1>1, <2>1, <2>2 DEF Tells
<1>7. CASE Keeps(e) /\ e.draft.mark # "set"
  <2>1. MarkedBy(new) <=> MarkedBy(es)
    BY <1>7 DEF MarkedBy
  <2>2. (\A f \in new : Keeps(f)) <=> \A f \in es : Keeps(f)
    BY <1>7
  <2>3. after.mark <=> row.mark
    BY <1>2, <1>7 DEF Keeps, Marked
  <2> QED
    BY <1>1, <2>1, <2>2, <2>3 DEF Tells
<1> QED
  BY <1>5, <1>6, <1>7

\* Without events before it, only the mark may be left over.
LEMMA TellsNothing ==
  ASSUME NEW row, NEW m \in BOOLEAN, row.mark <=> m
  PROVE  Tells(row, {}, m)
BY DEF Tells, Setting, MarkedBy

\* The projections of a run, as a pair [run, view], against some of its events.
IsView(v) ==
  /\ v \in ViewRows({v.rows}, {v.counts})
  /\ v.rows = [s \in DOMAIN v.rows |-> v.rows[s]]
  /\ \A s \in DOMAIN v.rows : v.rows[s] \in Rows

AboutRun(es) == {e \in es : e.draft.family = "run"}
AboutRow(es, s) == {e \in es : HasRow(e.draft) /\ RowOf(e.draft) = s}

\* Under PostgreSQL what is active has not completed.
NotBoth(row) == backend = "postgres" /\ row.status \in Active => ~row.mark

RowAgrees(rows, es, s) ==
  /\ AboutRow(es, s) # {} /\ Tells(rows[s], AboutRow(es, s), FALSE)
  /\ Latest(AboutRow(es, s)) \in AboutRow(es, s)
  /\ rows[s].last = Latest(AboutRow(es, s)).sequence
  /\ s[1] = "subagent" => NotBoth(rows[s])

RowsAgree(rows, es) ==
  /\ \A s \in DOMAIN rows : RowAgrees(rows, es, s)
  /\ \A e \in es : HasRow(e.draft) => RowOf(e.draft) \in DOMAIN rows

RunAgrees(row, es, m) == Tells(row, AboutRun(es), m) /\ NotBoth(row)

Agrees(p, es, m) ==
  /\ p.run \in RunRows /\ IsView(p.view)
  /\ RunAgrees(p.run, es, m) /\ RunAgrees(p.view, es, m)
  /\ RowsAgree(p.view.rows, es)
  /\ p.view.counts = Counted(p.view.rows)

\* What reopens is not completed.
LEMMA StayApart ==
  ASSUME NEW d \in Draft, d.family \in {"run", "subagent"},
         d.mark = "set" => d.status # "unset",
         NEW row, NEW after, NotBoth(row), row.mark \in BOOLEAN,
         after.status = IF d.status = "unset" THEN row.status ELSE d.status,
         after.mark <=> ~Reopens(d) /\ Marked(d, row.mark)
  PROVE  NotBoth(after)
<1>1. CASE d.status = "unset"
  <2>1. d.mark = "keep" \/ d.mark = "clear"
    BY <1>1 DEF Draft
  <2> QED
    BY <1>1, <2>1 DEF NotBoth, Marked
<1>2. CASE d.status # "unset"
  BY <1>2 DEF NotBoth, Reopens
<1> QED
  BY <1>1, <1>2

LEMMA RunAgreesMore ==
  ASSUME NEW es \in SUBSET StoredEvent, NEW e \in StoredEvent, After(e, es),
         NEW row, NEW after, NEW m \in BOOLEAN, RunAgrees(row, es, m), row.mark \in BOOLEAN,
         e.draft.family = "run",
         after.status = IF e.draft.status = "unset" THEN row.status ELSE e.draft.status,
         after.mark <=> ~Reopens(e.draft) /\ Marked(e.draft, row.mark)
  PROVE  RunAgrees(after, es \union {e}, m)
<1>1. AboutRun(es \union {e}) = AboutRun(es) \union {e}
  BY DEF AboutRun
<1>2. AboutRun(es) \in SUBSET StoredEvent /\ After(e, AboutRun(es))
  BY DEF AboutRun, After
<1>3. Tells(after, AboutRun(es) \union {e}, m)
  BY <1>2, TellsMore DEF RunAgrees
<1>4. NotBoth(after)
  BY StoredDrafts, StayApart DEF RunAgrees
<1> QED
  BY <1>1, <1>3, <1>4 DEF RunAgrees

LEMMA RunAgreesStill ==
  ASSUME NEW es, NEW e, NEW row, NEW after, NEW m, RunAgrees(row, es, m),
         e.draft.family # "run", after.status = row.status, after.mark = row.mark
  PROVE  RunAgrees(after, es \union {e}, m)
<1>1. AboutRun(es \union {e}) = AboutRun(es)
  BY DEF AboutRun
<1> QED
  BY <1>1 DEF RunAgrees, Tells, NotBoth

\* An event of a row of its own: that row follows, the others stay.
LEMMA UpsertedAgree ==
  ASSUME NEW es \in SUBSET StoredEvent, NEW e \in StoredEvent, After(e, es), HasRow(e.draft),
         NEW rows, rows = [s \in DOMAIN rows |-> rows[s]], \A s \in DOMAIN rows : rows[s] \in Rows,
         RowsAgree(rows, es)
  PROVE  /\ RowsAgree(Upserted(rows, e), es \union {e})
         /\ \A s \in DOMAIN Upserted(rows, e) : Upserted(rows, e)[s] \in Rows
         /\ Upserted(rows, e) = [s \in DOMAIN Upserted(rows, e) |-> Upserted(rows, e)[s]]
<1> DEFINE k      == RowOf(e.draft)
           before == IF k \in DOMAIN rows THEN rows[k]
                     ELSE [status |-> "unset", mark |-> FALSE, last |-> 0]
           after  == [Updated(before, e.draft) EXCEPT !.last = e.sequence]
           new    == Upserted(rows, e)
           all    == es \union {e}
<1>1. new = [t \in DOMAIN rows \union {k} |->
              IF t # k THEN rows[t] ELSE IF before.last < e.sequence THEN after ELSE before]
  BY DEF Upserted
<1>2. e.draft \in Draft /\ e.sequence \in Nat \ {0} /\ e.draft.status # "unset"
  BY StoredDrafts
<1>3. before \in Rows
  <2>1. [status |-> "unset", mark |-> FALSE, last |-> 0] \in Rows
    BY DEF Rows, Words
  <2>2. k \in DOMAIN rows => rows[k] \in Rows
    OBVIOUS
  <2> QED
    BY <2>1, <2>2
<1>4. /\ Tells(before, AboutRow(es, k), FALSE) /\ before.last < e.sequence
      /\ k[1] = "subagent" => NotBoth(before)
  <2>1. CASE k \in DOMAIN rows
    <3>1. RowAgrees(rows, es, k)
      BY <2>1 DEF RowsAgree
    <3>2. before = rows[k]
      BY <2>1
    <3>3. Latest(AboutRow(es, k)) \in es /\ before.last = Latest(AboutRow(es, k)).sequence
      BY <3>1, <3>2 DEF RowAgrees, AboutRow
    <3> QED
      BY <3>1, <3>2, <3>3 DEF RowAgrees, After
  <2>2. CASE k \notin DOMAIN rows
    <3>1. AboutRow(es, k) = {}
      BY <2>2 DEF RowsAgree, AboutRow
    <3>2. before = [status |-> "unset", mark |-> FALSE, last |-> 0]
      BY <2>2
    <3>3. ~before.mark /\ before.last = 0
      BY <3>2
    <3>4. Tells(before, {}, FALSE)
      BY <3>3, TellsNothing
    <3>5. NotBoth(before)
      BY <3>3 DEF NotBoth
    <3>6. Tells(before, AboutRow(es, k), FALSE)
      BY <3>1, <3>4
    <3>7. before.last < e.sequence
      BY <1>2, <3>3
    <3> HIDE DEF before
    <3> QED
      BY <3>5, <3>6, <3>7
  <2> QED
    BY <2>1, <2>2
<1>5. /\ after \in Rows /\ after.last = e.sequence
      /\ after.status = IF e.draft.status = "unset" THEN before.status ELSE e.draft.status
      /\ after.mark <=> ~Reopens(e.draft) /\ Marked(e.draft, before.mark)
  <2>1. Updated(before, e.draft) \in Rows
    BY <1>2, <1>3, UpdatedRow
  <2>2. /\ after \in Rows /\ after.last = e.sequence
        /\ after.status = Updated(before, e.draft).status
        /\ after.mark = Updated(before, e.draft).mark
    BY <1>2, <2>1 DEF Rows
  <2> QED
    BY <1>2, <1>3, <2>2, UpdatedRow
<1>6. before.mark \in BOOLEAN
  BY <1>3 DEF Rows
<1> HIDE DEF before, after
<1>7. DOMAIN new = DOMAIN rows \union {k} /\ new[k] = after /\ \A t \in DOMAIN rows : t # k => new[t] = rows[t]
  BY <1>1, <1>4
<1> HIDE DEF new
<1>8. AboutRow(all, k) = AboutRow(es, k) \union {e}
  BY DEF AboutRow
<1>9. AboutRow(es, k) \in SUBSET StoredEvent /\ After(e, AboutRow(es, k))
  BY DEF AboutRow, After
<1>10. RowAgrees(new, all, k)
  <2>1. Latest(AboutRow(all, k)) = e
    BY <1>8, <1>9, LatestIsNew
  <2>2. Tells(after, AboutRow(all, k), FALSE)
    BY <1>4, <1>5, <1>6, <1>8, <1>9, TellsMore
  <2>3. k[1] = "subagent" => NotBoth(after)
    <3> SUFFICES ASSUME k[1] = "subagent" PROVE NotBoth(after)
      OBVIOUS
    <3>1. e.draft.family = "subagent"
      BY DEF RowOf
    <3> QED
      BY <1>2, <1>4, <1>5, <1>6, <3>1, StayApart
  <2> QED
    BY <1>5, <1>7, <1>8, <2>1, <2>2, <2>3 DEF RowAgrees
<1>11. ASSUME NEW t \in DOMAIN rows, t # k PROVE RowAgrees(new, all, t)
  <2>1. AboutRow(all, t) = AboutRow(es, t)
    BY <1>11 DEF AboutRow
  <2> QED
    BY <1>7, <1>11, <2>1 DEF RowsAgree, RowAgrees
<1>12. \A f \in all : HasRow(f.draft) => RowOf(f.draft) \in DOMAIN new
  BY <1>7 DEF RowsAgree
<1> QED
  BY <1>1, <1>5, <1>7, <1>10, <1>11, <1>12 DEF RowsAgree, new

\* One more event, projected: the pair agrees with one more event.
LEMMA ProjectedAgrees ==
  ASSUME NEW es \in SUBSET StoredEvent, NEW e \in StoredEvent, After(e, es),
         NEW p, NEW m \in BOOLEAN, Agrees(p, es, m)
  PROVE  /\ Agrees(Projected(p, e), es \union {e}, m)
         /\ Projected(p, e).run.next = p.run.next
         /\ Projected(p, e).view.last = e.sequence
<1> DEFINE isRun == e.draft.family = "run"
           rows  == IF HasRow(e.draft) THEN Upserted(p.view.rows, e) ELSE p.view.rows
           fresh == IF isRun THEN Updated(p.view, e.draft) ELSE p.view
           new   == [fresh EXCEPT !.last = e.sequence, !.rows = rows, !.counts = Counted(rows)]
           first == IF isRun THEN Updated(p.run, e.draft) ELSE p.run
           all   == es \union {e}
<1>1. Projected(p, e) = [run |-> first, view |-> new]
  BY DEF Projected
<1>2. e.draft \in Draft /\ e.sequence \in Nat
  BY StoredDrafts
<1>3. /\ p.run \in RunRows /\ p.view \in ViewRows({p.view.rows}, {p.view.counts})
      /\ p.view.rows = [s \in DOMAIN p.view.rows |-> p.view.rows[s]]
      /\ \A s \in DOMAIN p.view.rows : p.view.rows[s] \in Rows
      /\ RunAgrees(p.run, es, m) /\ RunAgrees(p.view, es, m) /\ RowsAgree(p.view.rows, es)
  BY DEF Agrees, IsView
<1>4. p.run.mark \in BOOLEAN /\ p.view.mark \in BOOLEAN
  BY <1>3 DEF RunRows, ViewRows
<1>5. first \in RunRows /\ first.next = p.run.next
  BY <1>2, <1>3, UpdatedRun
<1>6. fresh \in ViewRows({p.view.rows}, {p.view.counts})
  BY <1>2, <1>3, UpdatedView
<1>7. RunAgrees(first, all, m) /\ RunAgrees(fresh, all, m)
  <2>1. CASE isRun
    <3>1. /\ first.status = IF e.draft.status = "unset" THEN p.run.status ELSE e.draft.status
          /\ first.mark <=> ~Reopens(e.draft) /\ Marked(e.draft, p.run.mark)
      BY <1>2, <1>3, <2>1, UpdatedRun
    <3>2. /\ fresh.status = IF e.draft.status = "unset" THEN p.view.status ELSE e.draft.status
          /\ fresh.mark <=> ~Reopens(e.draft) /\ Marked(e.draft, p.view.mark)
      BY <1>2, <1>3, <2>1, UpdatedView
    <3> HIDE DEF first, fresh
    <3>3. RunAgrees(first, all, m)
      BY <1>3, <1>4, <2>1, <3>1, RunAgreesMore
    <3>4. RunAgrees(fresh, all, m)
      BY <1>3, <1>4, <2>1, <3>2, RunAgreesMore
    <3> QED
      BY <3>3, <3>4
  <2>2. CASE ~isRun
    <3>1. first = p.run /\ fresh = p.view
      BY <2>2
    <3> QED
      BY <1>3, <2>2, <3>1, RunAgreesStill
  <2> QED
    BY <2>1, <2>2
<1>8. /\ RowsAgree(rows, all)
      /\ \A s \in DOMAIN rows : rows[s] \in Rows
      /\ rows = [s \in DOMAIN rows |-> rows[s]]
  <2>1. CASE HasRow(e.draft)
    BY <1>3, <2>1, UpsertedAgree
  <2>2. CASE ~HasRow(e.draft)
    <3>1. rows = p.view.rows
      BY <2>2
    <3>2. \A s : AboutRow(all, s) = AboutRow(es, s)
      BY <2>2 DEF AboutRow
    <3>3. RowsAgree(p.view.rows, all)
      BY <1>3, <2>2, <3>2 DEF RowsAgree, RowAgrees
    <3> QED
      BY <1>3, <3>1, <3>3
  <2> QED
    BY <2>1, <2>2
<1> HIDE DEF rows, fresh, first
<1>9. /\ new \in ViewRows({rows}, {Counted(rows)}) /\ new.rows = rows /\ new.counts = Counted(rows)
      /\ new.last = e.sequence /\ new.status = fresh.status /\ new.mark = fresh.mark
  BY <1>2, <1>6 DEF ViewRows
<1> HIDE DEF new
<1>10. IsView(new)
  BY <1>8, <1>9 DEF IsView
<1>11. RunAgrees(new, all, m)
  BY <1>7, <1>9 DEF RunAgrees, Tells, NotBoth
<1>12. Agrees([run |-> first, view |-> new], all, m)
  BY <1>5, <1>7, <1>8, <1>9, <1>10, <1>11 DEF Agrees
<1> QED
  BY <1>1, <1>5, <1>9, <1>12

\* Where both the rebuild and the first append begin.
LEMMA UnprojectedAgrees ==
  ASSUME NEW r \in RunRows, NotBoth(r)
  PROVE  Agrees(Unprojected(r), {}, r.mark)
<1> DEFINE v == [status |-> r.status, mark |-> r.mark, last |-> 0, rows |-> NoRows,
                 counts |-> NoCounts]
<1>1. Unprojected(r) = [run |-> r, view |-> v]
  BY DEF Unprojected
<1>2. DOMAIN NoRows = {} /\ NoRows = [s \in DOMAIN NoRows |-> NoRows[s]]
  BY DEF NoRows
<1>3. v \in ViewRows({NoRows}, {NoCounts}) /\ v.rows = NoRows /\ v.counts = NoCounts
      /\ v.mark = r.mark /\ v.status = r.status
  BY DEF ViewRows, RunRows
<1> HIDE DEF v
<1>4. IsView(v)
  BY <1>2, <1>3 DEF IsView
<1>5. AboutRun({}) = {} /\ r.mark \in BOOLEAN
  BY DEF AboutRun, RunRows
<1>6. RunAgrees(r, {}, r.mark) /\ RunAgrees(v, {}, r.mark)
  BY <1>3, <1>5, TellsNothing DEF RunAgrees, NotBoth
<1>7. RowsAgree(NoRows, {})
  BY <1>2 DEF RowsAgree
<1>8. Counted(NoRows) = NoCounts
  <2>1. \A P : {s \in {} : P} = {}
    OBVIOUS
  <2> QED
    BY <1>2, FS_EmptySet DEF Counted, NoCounts
<1> QED
  BY <1>1, <1>3, <1>4, <1>6, <1>7, <1>8 DEF Agrees
\* Induction, for a set of numbers.
LEMMA AllNumbers ==
  ASSUME NEW T, 0 \in T, \A n \in Nat : n \in T => n + 1 \in T
  PROVE  Nat \subseteq T
<1> DEFINE R == {ss \in Nat \X Nat : ss[1] < ss[2]}
           F == Nat \ T
<1>1. IsWellFoundedOn(R, Nat)
  BY NatLessThanWellFounded DEF OpToRel
<1> SUFFICES ASSUME F # {} PROVE FALSE
  OBVIOUS
<1> HIDE DEF R
<1>2. PICK n \in F : \A m \in F : ~(<<m, n>> \in R)
  BY <1>1, WFMin, Zenon
<1>3. n \in Nat /\ n # 0 /\ n - 1 \in Nat
  BY <1>2
<1>4. <<n - 1, n>> \in R
  BY <1>3 DEF R
<1>5. n - 1 \in T
  BY <1>2, <1>3, <1>4
<1>6. n - 1 + 1 = n
  BY <1>3
<1> QED
  BY <1>2, <1>3, <1>5, <1>6

\* A set of positions has a greatest.
LEMMA MaxIs ==
  ASSUME NEW k \in Nat, NEW s \in SUBSET (1..k), s # {}
  PROVE  Max(s) \in s /\ \A y \in s : Max(s) >= y
<1> DEFINE T == {n \in Nat : \A t \in SUBSET (1..n) : t # {} => \E x \in t : \A y \in t : x >= y}
<1>1. 0 \in T
  <2>1. 1..0 = {}
    OBVIOUS
  <2> QED
    BY <2>1
<1>2. ASSUME NEW n \in Nat, n \in T PROVE n + 1 \in T
  <2> SUFFICES ASSUME NEW t \in SUBSET (1..(n + 1)), t # {}
               PROVE  \E x \in t : \A y \in t : x >= y
    OBVIOUS
  <2>1. CASE n + 1 \in t
    BY <2>1
  <2>2. CASE n + 1 \notin t
    <3>1. t \in SUBSET (1..n)
      BY <2>2
    <3> QED
      BY <3>1, <1>2
  <2> QED
    BY <2>1, <2>2
<1> HIDE DEF T
<1>3. k \in T
  BY <1>1, <1>2, AllNumbers
<1>4. \E x \in s : \A y \in s : x >= y
  BY <1>3 DEF T
<1> QED
  BY <1>4 DEF Max

\* FoldLeft is the fixpoint of FoldStep over the subsets of the positions.
FoldStep(base, seq, g, s) ==
  IF s = {} THEN base ELSE Projected(g[s \ {Max(s)}], seq[Max(s)])

\* It exists: a fold over the sets of n positions extends to those of n + 1.
LEMMA FoldExists ==
  ASSUME NEW base, NEW seq, NEW k \in Nat
  PROVE  \E g : g = [s \in SUBSET (1..k) |-> FoldStep(base, seq, g, s)]
<1> DEFINE T == {n \in Nat : \E g : g = [s \in SUBSET (1..n) |-> FoldStep(base, seq, g, s)]}
<1>1. 0 \in T
  <2> DEFINE g == [s \in SUBSET (1..0) |-> base]
  <2>1. SUBSET (1..0) = {{}}
    OBVIOUS
  <2>2. g = [s \in SUBSET (1..0) |-> FoldStep(base, seq, g, s)]
    BY <2>1 DEF FoldStep
  <2> QED
    BY <2>2
<1>2. ASSUME NEW n \in Nat, n \in T PROVE n + 1 \in T
  <2>1. PICK g : g = [s \in SUBSET (1..n) |-> FoldStep(base, seq, g, s)]
    BY <1>2
  <2> DEFINE h == [s \in SUBSET (1..(n + 1)) |-> FoldStep(base, seq, g, s)]
  <2>2. ASSUME NEW s \in SUBSET (1..(n + 1)) PROVE h[s] = FoldStep(base, seq, h, s)
    <3>1. CASE s = {}
      BY <3>1 DEF FoldStep
    <3>2. CASE s # {}
      <4> DEFINE t == s \ {Max(s)}
      <4>1. Max(s) \in s /\ \A y \in s : Max(s) >= y
        <5>1. n + 1 \in Nat
          OBVIOUS
        <5> QED
          BY <3>2, <5>1, MaxIs
      <4>2. t \in SUBSET (1..n) /\ t \in SUBSET (1..(n + 1))
        <5> SUFFICES ASSUME NEW y \in t PROVE y \in 1..n /\ y \in 1..(n + 1)
          OBVIOUS
        <5>1. y \in 1..(n + 1) /\ Max(s) \in 1..(n + 1) /\ y # Max(s) /\ Max(s) >= y
          BY <4>1
        <5> HIDE DEF t
        <5> QED
          BY <5>1
      <4>3. h[t] = FoldStep(base, seq, g, t) /\ g[t] = FoldStep(base, seq, g, t)
            /\ h[s] = FoldStep(base, seq, g, s)
        BY <2>1, <4>2
      <4> HIDE DEF h
      <4> QED
        BY <3>2, <4>3 DEF FoldStep
    <3> QED
      BY <3>1, <3>2
  <2>3. DOMAIN h = SUBSET (1..(n + 1)) /\ h = [s \in SUBSET (1..(n + 1)) |-> h[s]]
    OBVIOUS
  <2> HIDE DEF h
  <2>4. h = [s \in SUBSET (1..(n + 1)) |-> FoldStep(base, seq, h, s)]
    BY <2>2, <2>3
  <2> QED
    BY <2>4
<1> HIDE DEF T
<1>3. k \in T
  BY <1>1, <1>2, AllNumbers
<1> QED
  BY <1>3 DEF T

\* A replay goes through a state for every event.
LEMMA ReplaySteps ==
  ASSUME NEW base, NEW k \in Nat, NEW seq, DOMAIN seq = 1..k
  PROVE  \E f : /\ f[0] = base
                /\ \A n \in 1..k : f[n] = Projected(f[n - 1], seq[n])
                /\ f[k] = FoldLeft(Projected, base, seq)
<1> DEFINE it == CHOOSE g : g = [s \in SUBSET (1..k) |-> FoldStep(base, seq, g, s)]
           f == [n \in 0..k |-> it[1..n]]
<1>1. it = [s \in SUBSET (1..k) |-> FoldStep(base, seq, it, s)]
  BY FoldExists
<1>2. FoldLeft(Projected, base, seq) = it[1..k]
  BY DEF FoldLeft, MapThenFoldSet, FoldStep
<1> HIDE DEF it
<1>3. f[0] = base
  <2>1. 1..0 = {} /\ 1..0 \in SUBSET (1..k)
    OBVIOUS
  <2>2. it[1..0] = base
    BY <1>1, <2>1 DEF FoldStep
  <2> QED
    BY <2>2
<1>4. ASSUME NEW n \in 1..k PROVE f[n] = Projected(f[n - 1], seq[n])
  <2>1. 1..n \in SUBSET (1..k) /\ 1..n # {} /\ n \in Nat
    OBVIOUS
  <2>2. Max(1..n) \in 1..n /\ \A y \in 1..n : Max(1..n) >= y
    BY <2>1, MaxIs
  <2>3. Max(1..n) = n
    BY <2>1, <2>2
  <2>4. (1..n) \ {n} = 1..(n - 1)
    BY <2>1
  <2>5. it[1..n] = Projected(it[1..(n - 1)], seq[n])
    BY <1>1, <2>1, <2>3, <2>4 DEF FoldStep
  <2> QED
    BY <2>5
<1>5. f[k] = it[1..k]
  OBVIOUS
<1> QED
  BY <1>2, <1>3, <1>4, <1>5

LEMMA StoredAre ==
  ASSUME WriterInv
  PROVE  events \in SUBSET StoredEvent
BY DEF WriterInv, WriterTypes, StoredEvent

\* There are n - 1 events before number n.
LEMMA OneForEach ==
  ASSUME WriterInv, RunExists, NEW n \in 1..run.next
  PROVE  Cardinality({f \in events : f.sequence < n}) = n - 1
<1> DEFINE S == {f \in events : f.sequence < n}
           g == [i \in 1..(n - 1) |-> CHOOSE e \in events : e.sequence = i]
<1>1. n \in Nat /\ n - 1 \in Nat /\ run.next \in Nat
  BY DEF WriterInv, WriterTypes
<1>2. \A i \in 1..(n - 1) : g[i] \in events /\ g[i].sequence = i
  <2> SUFFICES ASSUME NEW i \in 1..(n - 1) PROVE \E e \in events : e.sequence = i
    OBVIOUS
  <2>1. i \in Numbers
    BY <1>1 DEF WriterInv, GapFree
  <2> QED
    BY <2>1 DEF Numbers
<1> HIDE DEF g
<1>3. \A f \in S : f.sequence \in 1..(n - 1) /\ g[f.sequence] = f
  <2> SUFFICES ASSUME NEW f \in S PROVE f.sequence \in 1..(n - 1) /\ g[f.sequence] = f
    OBVIOUS
  <2>1. f.sequence \in 1..(n - 1)
    BY <1>1, StoredAre DEF StoredEvent
  <2> QED
    BY <1>2, <2>1 DEF WriterInv, GapFree
<1>4. g \in [1..(n - 1) -> S]
  <2>1. DOMAIN g = 1..(n - 1) /\ g = [i \in 1..(n - 1) |-> g[i]]
    BY DEF g
  <2>2. \A i \in 1..(n - 1) : i < n
    BY <1>1
  <2> QED
    BY <1>2, <2>1, <2>2
<1>5. g \in Injection(1..(n - 1), S)
  BY <1>2, <1>4 DEF Injection, IsInjective
<1>6. g \in Surjection(1..(n - 1), S)
  BY <1>3, <1>4 DEF Surjection
<1>7. ExistsBijection(1..(n - 1), S)
  BY <1>5, <1>6 DEF ExistsBijection, Bijection
<1> QED
  BY <1>1, <1>7, FS_CountingElements

\* The events in order are those with the numbers 1, 2, 3...
LEMMA OrderIs ==
  ASSUME WriterInv, RunExists
  PROVE  /\ DOMAIN InOrder(events) = 1..(run.next - 1)
         /\ \A i \in 1..(run.next - 1) :
              InOrder(events)[i] \in events /\ InOrder(events)[i].sequence = i
<1>1. run.next \in Nat \ {0}
  BY DEF WriterInv, WriterTypes, RunExists
<1>2. Cardinality(events) = run.next - 1
  <2>1. \A f \in events : f.sequence \in Numbers
    BY DEF Numbers
  <2>2. {f \in events : f.sequence < run.next} = events
    BY <2>1 DEF WriterInv, GapFree
  <2> QED
    BY <1>1, <2>2, OneForEach
<1>3. ASSUME NEW i \in 1..(run.next - 1)
      PROVE  InOrder(events)[i] \in events /\ InOrder(events)[i].sequence = i
  <2>1. \A e \in events : e.sequence \in 1..run.next
    <3>1. \A f \in events : f.sequence \in Numbers
      BY DEF Numbers
    <3> QED
      BY <3>1 DEF WriterInv, GapFree
  <2>2. \A e \in events : Cardinality({f \in events : f.sequence < e.sequence}) = e.sequence - 1
    BY <2>1, OneForEach
  <2>3. \E e \in events : e.sequence = i
    <3>1. i \in Numbers
      BY <1>1 DEF WriterInv, GapFree
    <3> QED
      BY <3>1 DEF Numbers
  <2>4. \E e \in events : Cardinality({f \in events : f.sequence < e.sequence}) = i - 1
    BY <2>2, <2>3
  <2>5. /\ InOrder(events)[i] \in events
        /\ Cardinality({f \in events : f.sequence < InOrder(events)[i].sequence}) = i - 1
    BY <1>2, <2>4 DEF InOrder
  <2>6. InOrder(events)[i].sequence - 1 = i - 1 /\ InOrder(events)[i].sequence \in 1..run.next
    BY <2>1, <2>2, <2>5
  <2> QED
    BY <1>1, <2>5, <2>6
<1> QED
  BY <1>2, <1>3 DEF InOrder

-----------------------------------------------------------------------------
\* The rows agree with the events, and the view is of the last of them.
ProjectionInv ==
  /\ \A p, es : p = [run |-> run, view |-> view] /\ es = events => Agrees(p, es, FALSE)
  /\ view.last = run.next - (IF RunExists THEN 1 ELSE 0)

\* The store never changes under a run.
LEMMA SameBackend ==
  ASSUME backend' = backend, NEW p, NEW es, NEW m
  PROVE  Agrees(p, es, m)' <=> Agrees(p, es, m)
<1>1. \A d : Reopens(d)' <=> Reopens(d)
  BY DEF Reopens
<1>2. \A f : Keeps(f)' <=> Keeps(f)
  BY <1>1 DEF Keeps
<1>3. \A fs : MarkedBy(fs)' <=> MarkedBy(fs)
  BY <1>2 DEF MarkedBy
<1>4. \A row, fs, b : Tells(row, fs, b)' <=> Tells(row, fs, b)
  BY <1>2, <1>3 DEF Tells
<1>5. \A row : NotBoth(row)' <=> NotBoth(row)
  BY DEF NotBoth
<1>6. \A row, fs, b : RunAgrees(row, fs, b)' <=> RunAgrees(row, fs, b)
  BY <1>4, <1>5 DEF RunAgrees
<1>7. \A rows, fs, s : RowAgrees(rows, fs, s)' <=> RowAgrees(rows, fs, s)
  BY <1>4, <1>5 DEF RowAgrees
<1>8. \A rows, fs : RowsAgree(rows, fs)' <=> RowsAgree(rows, fs)
  BY <1>7 DEF RowsAgree
<1>9. \A rows : Counted(rows)' = Counted(rows)
  <2>1. \A row : (IsActive(row)' <=> IsActive(row)) /\ (IsBlocked(row)' <=> IsBlocked(row))
    BY DEF IsActive, IsBlocked
  <2> QED
    BY <2>1 DEF Counted
<1> QED
  BY <1>6, <1>8, <1>9 DEF Agrees

LEMMA Committed ==
  ASSUME NEW q, NEW es, Agrees(q, es, FALSE), NEW n \in Nat
  PROVE  Agrees([run |-> [next |-> n, status |-> q.run.status, mark |-> q.run.mark],
                 view |-> q.view], es, FALSE)
<1> DEFINE r == [next |-> n, status |-> q.run.status, mark |-> q.run.mark]
<1>1. r \in RunRows /\ r.status = q.run.status /\ r.mark = q.run.mark
  BY DEF Agrees, RunRows
<1> HIDE DEF r
<1>2. RunAgrees(r, es, FALSE)
  BY <1>1 DEF Agrees, RunAgrees, Tells, NotBoth
<1>3. Agrees([run |-> r, view |-> q.view], es, FALSE)
  BY <1>1, <1>2 DEF Agrees
<1> QED
  BY <1>3 DEF r

LEMMA InitProjection == Init => ProjectionInv
<1> SUFFICES ASSUME Init PROVE ProjectionInv
  OBVIOUS
<1>1. run \in RunRows /\ run.mark = FALSE /\ run.next = 0
  BY DEF Init, RunRows, Words
<1>2. Unprojected(run) = [run |-> run, view |-> view] /\ view.last = 0 /\ events = {}
  BY DEF Init, Unprojected
<1>3. NotBoth(run)
  BY <1>1 DEF NotBoth
<1>4. Agrees([run |-> run, view |-> view], {}, FALSE)
  BY <1>1, <1>2, <1>3, UnprojectedAgrees
<1>5. view.last = run.next - (IF RunExists THEN 1 ELSE 0)
  BY <1>1, <1>2 DEF RunExists
<1>6. \A p, es : p = [run |-> run, view |-> view] /\ es = events => Agrees(p, es, FALSE)
  BY <1>2, <1>4
<1> QED
  BY <1>5, <1>6 DEF ProjectionInv

\* What is committed agrees with what is stored.
LEMMA CommitAgrees ==
  ASSUME backend' = backend, NEW es, events' = es, NEW n \in Nat \ {0}, NEW q, Agrees(q, es, FALSE),
         run' = [next |-> n, status |-> q.run.status, mark |-> q.run.mark],
         view' = q.view, q.view.last = n - 1
  PROVE  ProjectionInv'
<1> DEFINE p == [run |-> [next |-> n, status |-> q.run.status, mark |-> q.run.mark],
                 view |-> q.view]
<1>1. Agrees(p, es, FALSE)
  BY Committed
<1>2. [run |-> run', view |-> view'] = p
  OBVIOUS
<1>3. RunExists' /\ run'.next = n
  BY DEF RunExists
<1> HIDE DEF p
<1>4. Agrees(p, es, FALSE)'
  BY <1>1, SameBackend
<1> QED
  BY <1>2, <1>3, <1>4 DEF ProjectionInv

LEMMA InsertProjects ==
  ASSUME WriterInv, NEW w \in Writers, NEW n \in Nat \ {0}, NEW before, Insert(w, n, before),
         Agrees(before, events, FALSE), \A f \in events : f.sequence < n
  PROVE  ProjectionInv'
<1> DEFINE e == [sequence |-> n, draft |-> call[w].draft]
           after == Projected(before, e)
           all == events \union {e}
<1>1. /\ events' = all /\ backend' = backend
      /\ run' = [next |-> n + 1, status |-> after.run.status, mark |-> after.run.mark]
      /\ view' = after.view
  BY DEF Insert
<1>2. call[w].draft \in Drafts \union {Created}
  BY DEF WriterInv, WriterTypes, Calls
<1>3. e \in StoredEvent /\ e.sequence = n
  BY <1>2 DEF StoredEvent
<1>4. After(e, events)
  BY <1>3 DEF After
<1> HIDE DEF e
<1>5. Agrees(after, all, FALSE) /\ after.view.last = n
  BY <1>3, <1>4, StoredAre, ProjectedAgrees
<1> HIDE DEF after, all
<1>6. n + 1 \in Nat \ {0} /\ (n + 1) - 1 = n
  OBVIOUS
<1> QED
  BY <1>1, <1>5, <1>6, CommitAgrees

\* The events numbered up to n.
Upto(n) == {e \in events : e.sequence <= n}

\* By induction over the numbers: after n events the replay agrees with n of them,
\* up to the mark it began with.
LEMMA ReplayAgrees ==
  ASSUME WriterInv, ProjectionInv, RunExists
  PROVE  Agrees(Replayed(run), events, FALSE) /\ Replayed(run).view.last = run.next - 1
<1> DEFINE k == run.next - 1
           seq == InOrder(events)
           base == Unprojected(run)
           m == run.mark
<1>1. k \in Nat /\ k # 0
  <2>1. run.next \in Nat \ {0}
    BY DEF WriterInv, WriterTypes, RunExists
  <2>2. 1 \in Numbers
    BY DEF WriterInv, FirstStored, Numbers
  <2> QED
    BY <2>1, <2>2 DEF WriterInv, GapFree
<1>2. DOMAIN seq = 1..k /\ \A i \in 1..k : seq[i] \in events /\ seq[i].sequence = i
  BY OrderIs
<1>3. Agrees([run |-> run, view |-> view], events, FALSE)
  BY DEF ProjectionInv
<1>4. run \in RunRows /\ RunAgrees(run, events, FALSE) /\ m \in BOOLEAN
  BY <1>3 DEF Agrees, RunRows
<1>5. Agrees(base, {}, m)
  BY <1>4, UnprojectedAgrees DEF RunAgrees
<1> HIDE DEF k, seq, base
<1>6. PICK f : /\ f[0] = base
               /\ \A n \in 1..k : f[n] = Projected(f[n - 1], seq[n])
               /\ f[k] = FoldLeft(Projected, base, seq)
  <2>1. k \in Nat /\ DOMAIN seq = 1..k
    BY <1>1, <1>2
  <2> QED
    BY <2>1, ReplaySteps, Zenon
<1>7. Replayed(run) = f[k]
  BY <1>6 DEF Replayed, base, seq
<1> DEFINE T == {n \in Nat : n <= k => /\ Agrees(f[n], Upto(n), m)
                                       /\ n # 0 => f[n].view.last = n}
<1>8. 0 \in T
  <2>1. Upto(0) = {}
    BY StoredAre DEF Upto, StoredEvent
  <2> QED
    BY <1>5, <1>6, <2>1
<1>9. ASSUME NEW n \in Nat, n \in T PROVE n + 1 \in T
  <2> SUFFICES ASSUME n + 1 <= k
               PROVE  Agrees(f[n + 1], Upto(n + 1), m) /\ f[n + 1].view.last = n + 1
    OBVIOUS
  <2> DEFINE e == seq[n + 1]
  <2>1. n + 1 \in 1..k /\ n <= k /\ (n + 1) - 1 = n
    BY <1>1
  <2>2. e \in events /\ e.sequence = n + 1 /\ e \in StoredEvent
    BY <1>2, <2>1, StoredAre
  <2>3. f[n + 1] = Projected(f[n], e)
    BY <1>6, <2>1
  <2> HIDE DEF e
  <2>4. Upto(n) \in SUBSET StoredEvent /\ After(e, Upto(n))
    BY <2>2, StoredAre DEF Upto, After, StoredEvent
  <2>5. Upto(n + 1) = Upto(n) \union {e}
    <3>1. \A g \in events : g.sequence \in Nat /\ (g.sequence = n + 1 => g = e)
      BY <2>2, StoredAre DEF StoredEvent, WriterInv, GapFree
    <3> QED
      BY <2>2, <3>1 DEF Upto
  <2>6. Agrees(f[n], Upto(n), m)
    BY <1>9, <2>1
  <2> QED
    BY <1>4, <2>2, <2>3, <2>4, <2>5, <2>6, ProjectedAgrees
<1> HIDE DEF T
<1>10. k \in T
  BY <1>1, <1>8, <1>9, AllNumbers
<1>11. Agrees(f[k], Upto(k), m) /\ f[k].view.last = k
  BY <1>1, <1>10 DEF T
<1>12. Upto(k) = events
  <2>1. \A g \in events : g.sequence \in Numbers
    BY DEF Numbers
  <2>2. run.next \in Nat
    BY DEF WriterInv, WriterTypes
  <2> QED
    BY <2>1, <2>2 DEF Upto, k, WriterInv, GapFree
\* The mark the replay began with is one the events explain.
<1>13. ASSUME NEW row, RunAgrees(row, events, m) PROVE RunAgrees(row, events, FALSE)
  BY <1>4, <1>13 DEF RunAgrees, Tells
<1>14. Agrees(f[k], events, FALSE)
  BY <1>11, <1>12, <1>13 DEF Agrees
<1> QED
  BY <1>7, <1>11, <1>14 DEF k

LEMMA RebuildProjects ==
  ASSUME WriterInv, ProjectionInv, Rebuild
  PROVE  ProjectionInv'
<1>1. /\ RunExists /\ backend' = backend /\ events' = events
      /\ run' = [next |-> run.next, status |-> Replayed(run).run.status,
                 mark |-> Replayed(run).run.mark]
      /\ view' = Replayed(run).view
  BY DEF Rebuild
<1>2. run.next \in Nat \ {0}
  BY <1>1 DEF WriterInv, WriterTypes, RunExists
<1>3. Agrees(Replayed(run), events, FALSE) /\ Replayed(run).view.last = run.next - 1
  BY <1>1, ReplayAgrees
<1> QED
  BY <1>1, <1>2, <1>3, CommitAgrees

LEMMA CreateProjects ==
  ASSUME WriterInv, NEW w \in Writers, Create(w)
  PROVE  ProjectionInv'
<1> DEFINE r == [next |-> 1, status |-> Created.status, mark |-> FALSE]
<1>1. ~RunExists /\ Insert(w, 1, Unprojected(r))
  BY DEF Create
<1>2. events = {}
  <2>1. run.next = 0
    BY <1>1 DEF RunExists, WriterInv, WriterTypes
  <2>2. Numbers = {}
    BY <2>1 DEF WriterInv, GapFree
  <2> QED
    BY <2>2 DEF Numbers
<1>3. r \in RunRows /\ r.mark = FALSE /\ NotBoth(r)
  BY JournalAssumption DEF RunRows, Words, Draft, NotBoth
<1> HIDE DEF r
<1>4. Agrees(Unprojected(r), events, FALSE)
  BY <1>2, <1>3, UnprojectedAgrees
<1>5. 1 \in Nat \ {0} /\ \A f \in events : f.sequence < 1
  BY <1>2
<1> QED
  BY <1>1, <1>4, <1>5, InsertProjects

LEMMA AppendProjects ==
  ASSUME WriterInv, ProjectionInv, NEW w \in Writers, AppendNew(w)
  PROVE  ProjectionInv'
<1>1. call[w].step = "locked" /\ Insert(w, call[w].next, [run |-> run, view |-> view])
  BY DEF AppendNew
<1>2. RunExists /\ call[w].next = run.next
  BY <1>1 DEF WriterInv, Locking
<1>3. run.next \in Nat \ {0}
  BY <1>2 DEF WriterInv, WriterTypes, RunExists
<1>4. \A f \in events : f.sequence < run.next
  <2>1. \A f \in events : f.sequence \in Numbers
    BY DEF Numbers
  <2> QED
    BY <2>1 DEF WriterInv, GapFree
<1>5. Agrees([run |-> run, view |-> view], events, FALSE)
  BY DEF ProjectionInv
<1> QED
  BY <1>1, <1>2, <1>3, <1>4, <1>5, InsertProjects

LEMMA OthersKeepProjections ==
  ASSUME ProjectionInv, UNCHANGED journal
  PROVE  ProjectionInv'
<1>1. backend' = backend /\ events' = events /\ run' = run /\ view' = view
  BY DEF journal
<1> QED
  BY <1>1, SameBackend DEF ProjectionInv, RunExists

LEMMA StepKeepsProjections ==
  ASSUME WriterInv, ProjectionInv, [Next]_vars
  PROVE  ProjectionInv'
<1>1. ASSUME NEW w \in Writers, Write(w) PROVE ProjectionInv'
  <2>1. CASE Create(w)
    BY <2>1, CreateProjects
  <2>2. CASE AppendNew(w)
    BY <2>2, AppendProjects
  <2>3. CASE ~Create(w) /\ ~AppendNew(w)
    <3>1. UNCHANGED journal
      BY <1>1, <2>3 DEF Write, BeginCreate, CreateAgain, BeginAppend, Lock, ReturnStored,
                        AppendFails, Drop
    <3> QED
      BY <3>1, OthersKeepProjections
  <2> QED
    BY <2>1, <2>2, <2>3
<1>2. ASSUME NEW c \in Consumers, Consume(c) PROVE UNCHANGED journal
  BY <1>2 DEF Consume, Claim, ConsumerDies, MarkPublished, ReleaseOutbox
<1>3. CASE Rebuild
  BY <1>3, RebuildProjects
<1>4. Time \/ Read \/ UNCHANGED vars => UNCHANGED journal
  BY DEF Time, Lapse, FallDue, Read, Connect, Poll, Yield, Receive, EndOfStream, Disconnect,
         vars, journal
<1> QED
  BY <1>1, <1>2, <1>3, <1>4, OthersKeepProjections DEF Next

LEMMA ProjectionInvHolds == Spec => []ProjectionInv
BY InitProjection, StepKeepsProjections, WriterInvHolds, PTL DEF Spec

\* After every append and every rebuild the operator's rows are what the events
\* say (_apply_projection and rebuild_projections).
THEOREM ProjectionsAgree == Spec => []ProjectionAgrees
<1>1. ASSUME ProjectionInv PROVE ProjectionAgrees
  <2> DEFINE of(s) == {e \in events : HasRow(e.draft) /\ RowOf(e.draft) = s}
             runEvents == {e \in events : e.draft.family = "run"}
  <2>1. Agrees([run |-> run, view |-> view], events, FALSE)
        /\ view.last = run.next - (IF RunExists THEN 1 ELSE 0)
    BY <1>1 DEF ProjectionInv
  <2>2. \A row, es : Tells(row, es, FALSE) => Shows(row, es)
    BY DEF Tells, Shows, Setting, MarkedBy, Keeps
  <2>3. AboutRun(events) = runEvents /\ \A s : AboutRow(events, s) = of(s)
    BY DEF AboutRun, AboutRow
  <2>4. Shows(run, runEvents) /\ Shows(view, runEvents)
    BY <2>1, <2>2, <2>3 DEF Agrees, RunAgrees
  <2>5. \A s \in DOMAIN view.rows :
          /\ of(s) # {} /\ Shows(view.rows[s], of(s))
          /\ view.rows[s].last = Latest(of(s)).sequence
    BY <2>1, <2>2, <2>3 DEF Agrees, RowsAgree, RowAgrees
  <2>6. \A e \in events : HasRow(e.draft) => RowOf(e.draft) \in DOMAIN view.rows
    BY <2>1 DEF Agrees, RowsAgree
  <2>7. view.counts = Counted(view.rows)
    BY <2>1 DEF Agrees
  <2>8. backend = "postgres" =>
           /\ run.status \in Active => ~run.mark /\ ~view.mark
           /\ \A s \in DOMAIN view.rows :
                s[1] = "subagent" /\ view.rows[s].status \in Active => ~view.rows[s].mark
    <3>1. (view.mark <=> MarkedBy(AboutRun(events))) /\ (run.mark <=> MarkedBy(AboutRun(events)))
      BY <2>1 DEF Agrees, RunAgrees, Tells
    <3>2. NotBoth(run) /\ \A s \in DOMAIN view.rows : s[1] = "subagent" => NotBoth(view.rows[s])
      BY <2>1 DEF Agrees, RunAgrees, RowsAgree, RowAgrees
    <3> QED
      BY <3>1, <3>2 DEF NotBoth
  <2> HIDE DEF of, runEvents
  <2> QED
    BY <2>1, <2>4, <2>5, <2>6, <2>7, <2>8 DEF ProjectionAgrees, of, runEvents
<1> QED
  BY <1>1, ProjectionInvHolds, PTL
=============================================================================
