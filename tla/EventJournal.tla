---------------------------- MODULE EventJournal ----------------------------
(***************************************************************************)
(* The journal of one run: PostgresEventStore (persistence/postgres.py)    *)
(* with the tables of migrations 0001 and 0002, its projections, its       *)
(* outbox, and the resumable stream (realtime.py, routes/events.py) down   *)
(* to the browser's EventSource.  The backend "memory" is the store that   *)
(* stands in for PostgreSQL locally (integration/event_store.py).          *)
(*                                                                         *)
(* A writer is one caller of create_run or append_event; its transaction   *)
(* holds the row lock of sentinel.runs from Lock to its commit or its      *)
(* rollback, and between the two everybody else moves.  Statements of one  *)
(* transaction that only it can see are one step.                          *)
(***************************************************************************)
EXTENDS Naturals, Sequences, FiniteSets, SequencesExt

CONSTANTS
  Drafts,      \* the EventDrafts that callers append
  Created,     \* the draft of create_run
  Writers,     \* concurrent callers
  Consumers,   \* consumer_ids that poll the outbox
  PageSize,    \* ResumableEventStream.batch_size
  ClaimLimit,  \* claim_outbox(limit)
  MaxEvents,   \* bound on the journal
  NoKey, NoSubject, Nobody

Active == {"queued", "running", "recovering"}
Draft ==
  [key : STRING \union {NoKey},
   family : {"run", "work", "subagent", "tool"},
   subject : STRING \union {NoSubject},   \* work_item_id or payload.subagent_id
   status : STRING,                       \* what it makes of the row's, or "unset"
   mark : {"keep", "set", "clear"},       \* completed_at; a work item's blocker
   named : BOOLEAN]                       \* has what a first event must carry

\* The payloads of work items and subagents have a status, and a run's that has
\* a completed_at has a status too.
ASSUME JournalAssumption ==
  /\ Drafts \union {Created} \subseteq Draft
  /\ Created.family = "run" /\ Created.status # "unset"
  /\ \A d \in Drafts : d.family \in {"work", "subagent"} =>
       d.status # "unset" /\ d.subject # NoSubject
  /\ \A d \in Drafts \union {Created} :
       d.family = "run" /\ d.mark = "set" => d.status # "unset"
  /\ PageSize \in Nat \ {0} /\ ClaimLimit \in Nat \ {0} /\ MaxEvents \in Nat \ {0}
  /\ Nobody \notin Consumers

VARIABLES
  backend,   \* "postgres" or "memory"
  events,    \* run_events: records [sequence, draft]
  run,       \* the row of runs: [next, status, mark], next = 0 before create_run
  view,      \* the projections: [status, mark, last, rows, counts]
  outbox,    \* event_outbox, by per_run_sequence
  call,      \* by writer: its transaction
  held,      \* by consumer: the messages it has claimed and not settled
  stream,    \* the server's generator: [open, cursor, page]
  wire,      \* messages sent and not received
  received   \* what the browser has got, its Last-Event-ID last

journal == <<backend, events, run, view>>
reader  == <<stream, wire, received>>
vars    == <<backend, events, run, view, outbox, call, held, stream, wire, received>>

Numbers   == {e.sequence : e \in events}
RunExists == run.next > 0
Stored(d) == {e \in events : d.key # NoKey /\ e.draft.key = d.key}

-----------------------------------------------------------------------------
(* Projections *)

NoRows   == [s \in {} |-> 0]
NoCounts == [completed |-> 0, total |-> 0, active |-> 0, blockers |-> 0]

Marked(d, before) ==
  CASE d.mark = "keep" -> before [] d.mark = "set" -> TRUE [] OTHER -> FALSE

\* A run or subagent that is active again has not completed; a work item
\* keeps its blocker, and so does everything in the memory store.
Reopens(d) ==
  backend = "postgres" /\ d.family \in {"run", "subagent"} /\ d.status \in Active

Updated(row, d) ==
  [row EXCEPT !.status = IF d.status = "unset" THEN @ ELSE d.status,
              !.mark = ~Reopens(d) /\ Marked(d, @)]

\* Work items and subagents have tables of their own.
HasRow(d) == d.family \in {"work", "subagent"}
RowOf(d)  == <<d.family, d.subject>>

\* INSERT ... ON CONFLICT DO UPDATE ... WHERE last_sequence < EXCLUDED
Upserted(rows, e) ==
  LET s      == RowOf(e.draft)
      before == IF s \in DOMAIN rows THEN rows[s]
                ELSE [status |-> "unset", mark |-> FALSE, last |-> 0]
      after  == [Updated(before, e.draft) EXCEPT !.last = e.sequence]
  IN  [t \in DOMAIN rows \union {s} |->
         IF t # s THEN rows[t] ELSE IF before.last < e.sequence THEN after ELSE before]

\* What the two stores count as an active subagent and as a blocker.
IsActive(row)  == row.status \in IF backend = "postgres" THEN Active ELSE {"running"}
IsBlocked(row) == row.mark \/ (backend = "postgres" /\ row.status = "blocked")

Counted(rows) ==
  LET work   == {s \in DOMAIN rows : s[1] = "work"}
      agents == DOMAIN rows \ work
  IN  [completed |-> Cardinality({s \in work : rows[s].status = "completed"}),
       total     |-> Cardinality(work),
       active    |-> Cardinality({s \in agents : IsActive(rows[s])}),
       blockers  |-> Cardinality({s \in work : IsBlocked(rows[s])})]

\* p is a pair [run, view]: a run event changes both rows.
Projected(p, e) ==
  LET isRun == e.draft.family = "run"
      rows  == IF HasRow(e.draft) THEN Upserted(p.view.rows, e) ELSE p.view.rows
      fresh == IF isRun THEN Updated(p.view, e.draft) ELSE p.view
  IN  [run  |-> IF isRun THEN Updated(p.run, e.draft) ELSE p.run,
       view |-> [fresh EXCEPT !.last = e.sequence, !.rows = rows, !.counts = Counted(rows)]]

Unprojected(r) ==
  [run  |-> r,
   view |-> [status |-> r.status, mark |-> r.mark, last |-> 0, rows |-> NoRows,
             counts |-> NoCounts]]

InOrder(es) ==
  [i \in 1..Cardinality(es) |->
     CHOOSE e \in es : Cardinality({f \in es : f.sequence < e.sequence}) = i - 1]

\* Slip: the events are read through list_events, with its limit.
ReplayedFirstPage(r) ==
  FoldLeft(Projected, Unprojected(r), InOrder({e \in events : e.sequence <= PageSize}))
Replayed(r) == FoldLeft(Projected, Unprojected(r), InOrder(events))

\* InvalidProjectionEventError: the first event of a row lacks its names.
Malformed(d) ==
  /\ backend = "postgres" /\ HasRow(d)
  /\ RowOf(d) \notin DOMAIN view.rows /\ ~d.named

-----------------------------------------------------------------------------
NoCall == [step |-> "idle", draft |-> Created, next |-> 0, answer |-> 0]

\* A row of event_outbox, as inserted, claimed, published and released.
Fresh     == [holder |-> Nobody, lease |-> "none", due |-> TRUE, published |-> FALSE]
Leased(c) == [holder |-> c, lease |-> "live", due |-> TRUE, published |-> FALSE]
Published == [holder |-> Nobody, lease |-> "none", due |-> TRUE, published |-> TRUE]
Delayed   == [holder |-> Nobody, lease |-> "none", due |-> FALSE, published |-> FALSE]

Init ==
  /\ backend \in {"postgres", "memory"}
  /\ events = {}
  /\ run = [next |-> 0, status |-> "unset", mark |-> FALSE]
  /\ view = Unprojected(run).view
  /\ outbox = [n \in {} |-> Fresh]
  /\ call = [w \in Writers |-> NoCall]
  /\ held = [c \in Consumers |-> {}]
  /\ stream = [open |-> FALSE, cursor |-> 0, page |-> {}]
  /\ wire = <<>> /\ received = <<>>

TypeOK ==
  /\ backend \in {"postgres", "memory"}
  /\ events \subseteq [sequence : 1..MaxEvents, draft : Drafts \union {Created}]
  /\ run.next \in 0..MaxEvents + 1
  /\ DOMAIN outbox \subseteq Numbers
  /\ outbox \in [DOMAIN outbox ->
       [holder : Consumers \union {Nobody}, lease : {"none", "live", "lapsed"},
        due : BOOLEAN, published : BOOLEAN]]
  /\ call \in [Writers ->
       [step : {"idle", "called", "locked", "returned", "raised"},
        draft : Drafts \union {Created}, next : 0..MaxEvents + 1, answer : 0..MaxEvents]]
  /\ held \in [Consumers -> SUBSET Numbers]
  /\ stream \in [open : BOOLEAN, cursor : 0..MaxEvents, page : SUBSET Numbers]
  /\ wire \in Seq(1..MaxEvents) /\ received \in Seq(1..MaxEvents)

(* Writers *)

Resting(w) == call[w].step \in {"idle", "returned", "raised"}

Goto(w, step, draft, next, answer) ==
  call' = [call EXCEPT ![w] =
             [step |-> step, draft |-> draft, next |-> next, answer |-> answer]]

\* A caller appends only to a run it knows.  The journal's bound is kept here
\* and in Lock.
HasRoom(d) == run.next <= MaxEvents \/ Stored(d) # {}

BeginAppend(w, d) ==
  /\ Resting(w) /\ RunExists /\ HasRoom(d)
  /\ Goto(w, "called", d, 0, 0)
  /\ UNCHANGED <<journal, outbox, held, reader>>

\* create_run after ensure_child_run found no run.
BeginCreate(w) ==
  /\ Resting(w) /\ ~RunExists
  /\ Goto(w, "called", Created, 0, 0)
  /\ UNCHANGED <<journal, outbox, held, reader>>

Return(w, n) == Goto(w, "returned", call[w].draft, 0, n)
Raise(w)     == Goto(w, "raised", call[w].draft, 0, 0)

\* The rest of _append_locked for a draft that is new: number, event,
\* outbox row and projections, committed together.
Insert(w, n, before) ==
  LET e     == [sequence |-> n, draft |-> call[w].draft]
      after == Projected(before, e)
  IN  /\ events' = events \union {e}
      /\ run' = [next |-> n + 1, status |-> after.run.status, mark |-> after.run.mark]
      /\ view' = after.view
      /\ outbox' = IF backend = "postgres"
                   THEN [m \in DOMAIN outbox \union {n} |-> IF m = n THEN Fresh ELSE outbox[m]]
                   ELSE outbox
      /\ Return(w, n)
      /\ UNCHANGED <<backend, held, reader>>

Create(w) ==
  /\ call[w].step = "called" /\ call[w].draft = Created /\ ~RunExists
  /\ Insert(w, 1, Unprojected([next |-> 1, status |-> Created.status, mark |-> FALSE]))

\* The primary key of runs refuses the second of two creators; the memory
\* store returns the first event to it.
CreateAgain(w) ==
  /\ call[w].step = "called" /\ call[w].draft = Created /\ RunExists
  /\ IF backend = "postgres" THEN Raise(w) ELSE Return(w, 1)
  /\ UNCHANGED <<journal, outbox, held, reader>>

\* Slip: without FOR UPDATE.
NoLock == TRUE
RunFree == \A w \in Writers : call[w].step # "locked"

\* SELECT next_event_sequence ... FOR UPDATE
Lock(w) ==
  /\ call[w].step = "called" /\ call[w].draft # Created /\ RunFree
  /\ HasRoom(call[w].draft)
  /\ Goto(w, "locked", call[w].draft, run.next, 0)
  /\ UNCHANGED <<journal, outbox, held, reader>>

\* Slip: the event handed back is the draft with the number it would get.
ReturnDraft(w) ==
  /\ call[w].step = "locked" /\ Stored(call[w].draft) # {}
  /\ Return(w, call[w].next)
  /\ UNCHANGED <<journal, outbox, held, reader>>
ReturnStored(w) ==
  /\ call[w].step = "locked"
  /\ \E e \in Stored(call[w].draft) : Return(w, e.sequence)
  /\ UNCHANGED <<journal, outbox, held, reader>>

\* UNIQUE (run_id, per_run_sequence) and run_events_idempotency_idx
Conflicts(w) == call[w].next \in Numbers \/ Stored(call[w].draft) # {}

AppendNew(w) ==
  /\ call[w].step = "locked" /\ Stored(call[w].draft) = {}
  /\ ~Malformed(call[w].draft) /\ ~Conflicts(w)
  /\ Insert(w, call[w].next, [run |-> run, view |-> view])

\* Slip: the counter is committed on its own and not rolled back.
AppendFailsKeepingNumber(w) ==
  /\ call[w].step = "locked" /\ Stored(call[w].draft) = {}
  /\ Malformed(call[w].draft) \/ Conflicts(w)
  /\ Raise(w) /\ run' = [run EXCEPT !.next = @ + 1]
  /\ UNCHANGED <<backend, events, view, outbox, held, reader>>

\* Everything the transaction wrote is rolled back.
AppendFails(w) ==
  /\ call[w].step = "locked" /\ Stored(call[w].draft) = {}
  /\ Malformed(call[w].draft) \/ Conflicts(w)
  /\ Raise(w)
  /\ UNCHANGED <<journal, outbox, held, reader>>

\* The connection or the process dies before the commit.
Drop(w) ==
  /\ ~Resting(w)
  /\ call' = [call EXCEPT ![w] = NoCall]
  /\ UNCHANGED <<journal, outbox, held, reader>>

\* rebuild_projections starts from the run's current row, not from its first,
\* and leaves the counter alone.
Rebuild ==
  /\ RunExists /\ RunFree
  /\ LET after == Replayed(run)
     IN  /\ run' = [next |-> run.next, status |-> after.run.status, mark |-> after.run.mark]
         /\ view' = after.view
  /\ UNCHANGED <<backend, events, outbox, call, held, reader>>

-----------------------------------------------------------------------------
(* Outbox consumers *)

\* Slips: the lease is not looked at; a lapsed lease is not taken over.
ClaimableAnyLease == {n \in DOMAIN outbox : ~outbox[n].published /\ outbox[n].due}
ClaimableNeverLeased ==
  {n \in DOMAIN outbox : ~outbox[n].published /\ outbox[n].due /\ outbox[n].lease = "none"}
Claimable ==
  {n \in DOMAIN outbox : ~outbox[n].published /\ outbox[n].due /\ outbox[n].lease # "live"}

FirstOf(ns, limit) == {n \in ns : Cardinality({m \in ns : m < n}) < limit}

Claim(c) ==
  LET batch == FirstOf(Claimable, ClaimLimit)
  IN  /\ batch # {}
      /\ outbox' = [n \in DOMAIN outbox |->
                      IF n \in batch THEN Leased(c) ELSE outbox[n]]
      /\ held' = [held EXCEPT ![c] = @ \union batch]
      /\ UNCHANGED <<journal, call, reader>>

\* Slip: without claimed_by = consumer_id.
SettlesForAnyone(c, n) == ~outbox[n].published
Settles(c, n) == outbox[n].holder = c /\ ~outbox[n].published

\* A call that finds the row in other hands changes nothing and says so.
MarkPublished(c, n) ==
  /\ n \in held[c]
  /\ held' = [held EXCEPT ![c] = @ \ {n}]
  /\ outbox' = IF Settles(c, n) THEN [outbox EXCEPT ![n] = Published] ELSE outbox
  /\ UNCHANGED <<journal, call, reader>>

\* available_at moves into the future
ReleaseOutbox(c, n) ==
  /\ n \in held[c]
  /\ held' = [held EXCEPT ![c] = @ \ {n}]
  /\ outbox' = IF Settles(c, n) THEN [outbox EXCEPT ![n] = Delayed] ELSE outbox
  /\ UNCHANGED <<journal, call, reader>>

ConsumerDies(c) ==
  /\ held[c] # {}
  /\ held' = [held EXCEPT ![c] = {}]
  /\ UNCHANGED <<journal, outbox, call, reader>>

\* The clock passes claimed_until, and available_at.
Lapse(n) ==
  /\ outbox[n].lease = "live"
  /\ outbox' = [outbox EXCEPT ![n].lease = "lapsed"]
  /\ UNCHANGED <<journal, call, held, reader>>

FallDue(n) ==
  /\ ~outbox[n].due
  /\ outbox' = [outbox EXCEPT ![n].due = TRUE]
  /\ UNCHANGED <<journal, call, held, reader>>

-----------------------------------------------------------------------------
(* The stream *)

\* Slip: the limit is applied before the cursor.
PageOfFirst(cursor) == {n \in FirstOf(Numbers, PageSize) : n > cursor}
Page(cursor) == FirstOf({n \in Numbers : n > cursor}, PageSize)
Closed == [open |-> FALSE, cursor |-> stream.cursor, page |-> {}]
LastEventId == IF received = <<>> THEN 0 ELSE Last(received)

\* Slip: the server resumes where it had stopped sending.
ConnectAtCursor ==
  /\ ~stream.open /\ wire = <<>> /\ RunExists
  /\ stream' = [stream EXCEPT !.open = TRUE]
  /\ UNCHANGED <<journal, outbox, call, held, wire, received>>

\* The memory store's stream is one page, read when the request arrives.
Connect ==
  /\ ~stream.open /\ wire = <<>> /\ RunExists
  /\ stream' = [open |-> TRUE, cursor |-> LastEventId,
                page |-> IF backend = "memory" THEN Page(LastEventId) ELSE {}]
  /\ UNCHANGED <<journal, outbox, call, held, wire, received>>

Poll ==
  /\ stream.open /\ stream.page = {} /\ backend = "postgres"
  /\ Page(stream.cursor) # {}
  /\ stream' = [stream EXCEPT !.page = Page(stream.cursor)]
  /\ UNCHANGED <<journal, outbox, call, held, wire, received>>

\* A sequence that does not grow is an error of the store: the stream ends.
Yield ==
  /\ stream.open /\ stream.page # {}
  /\ \E n \in stream.page :
       /\ \A m \in stream.page : n <= m
       /\ IF n > stream.cursor
          THEN /\ stream' = [open |-> TRUE, cursor |-> n, page |-> stream.page \ {n}]
               /\ wire' = Append(wire, n)
          ELSE /\ stream' = Closed
               /\ wire' = wire
  /\ UNCHANGED <<journal, outbox, call, held, received>>

Receive ==
  /\ wire # <<>>
  /\ received' = Append(received, Head(wire))
  /\ wire' = Tail(wire)
  /\ UNCHANGED <<journal, outbox, call, held, stream>>

\* The response of a finite stream ends.
EndOfStream ==
  /\ stream.open /\ backend = "memory" /\ stream.page = {} /\ wire = <<>>
  /\ stream' = Closed
  /\ UNCHANGED <<journal, outbox, call, held, wire, received>>

\* The connection breaks: what is in flight is lost.
Disconnect ==
  /\ stream.open
  /\ stream' = Closed /\ wire' = <<>>
  /\ UNCHANGED <<journal, outbox, call, held, received>>

-----------------------------------------------------------------------------
Write(w) ==
  \/ BeginCreate(w) \/ Create(w) \/ CreateAgain(w)
  \/ \E d \in Drafts : BeginAppend(w, d)
  \/ Lock(w) \/ ReturnStored(w) \/ AppendNew(w) \/ AppendFails(w) \/ Drop(w)

Consume(c) ==
  \/ Claim(c) \/ ConsumerDies(c)
  \/ \E n \in held[c] : MarkPublished(c, n) \/ ReleaseOutbox(c, n)

Time == \E n \in DOMAIN outbox : Lapse(n) \/ FallDue(n)

Read == Connect \/ Poll \/ Yield \/ Receive \/ EndOfStream \/ Disconnect

Next ==
  \/ \E w \in Writers : Write(w)
  \/ \E c \in Consumers : Consume(c)
  \/ Rebuild \/ Time \/ Read

Spec == Init /\ [][Next]_vars

\* An open browser reconnects, and its connection is not cut every time
\* before it has brought something.  Nobody is obliged to write.
ReaderFairness ==
  WF_vars(Connect) /\ WF_vars(EndOfStream) /\ SF_vars(Poll) /\ SF_vars(Yield) /\ SF_vars(Receive)

\* Consumers poll; leases and delays run out; a message is not lost by its
\* consumer, or held past its lease, every time it is claimed.
Publishes(n) ==
  \E c \in Consumers : MarkPublished(c, n) /\ Settles(c, n)
ConsumerFairness ==
  /\ WF_vars(\E c \in Consumers : Claim(c))
  /\ \A n \in 1..MaxEvents :
       /\ WF_vars(n \in DOMAIN outbox /\ (Lapse(n) \/ FallDue(n)))
       /\ SF_vars(n \in DOMAIN outbox /\ Publishes(n))

FairSpec == Spec /\ ReaderFairness /\ ConsumerFairness

-----------------------------------------------------------------------------
(* Properties *)

\* The numbers of a run are 1, 2, 3... with no gap, whatever was rolled back
\* or dropped in between (next_event_sequence under FOR UPDATE).
GapFree ==
  /\ Numbers = {n \in 1..run.next : n < run.next}
  /\ \A e, f \in events : e.sequence = f.sequence => e = f

\* What append_event acknowledged is in the journal, under the number it
\* returned, and stays: a caller that repeats its call hears of the first.
AnswersStored ==
  \A w \in Writers : call[w].step = "returned" =>
    \E e \in events : /\ e.sequence = call[w].answer
                      /\ e.draft = call[w].draft \/ e \in Stored(call[w].draft)

\* Concurrency alone never makes an append fail: only the second creator of a
\* run and a first event without its names are refused (what the tables check
\* about titles, times and references is not modelled).
RaisesExplained ==
  \A w \in Writers : call[w].step = "raised" =>
    LET d == call[w].draft
    IN  d = Created \/ (HasRow(d) /\ ~d.named)

Latest(es) == CHOOSE e \in es : \A f \in es : f.sequence <= e.sequence
Shows(row, es) ==
  /\ LET setting == {e \in es : e.draft.status # "unset"}
     IN  setting # {} => row.status = Latest(setting).draft.status
  /\ row.mark <=> \E e \in es :
       /\ e.draft.mark = "set"
       /\ \A f \in es : f.sequence >= e.sequence => f.draft.mark # "clear" /\ ~Reopens(f.draft)

\* The rows the operator's views read are what the events say, after every
\* append and after every rebuild: the last status, the completion or blocker
\* nothing has cleared since, a row for every subject and the counts over them;
\* under PostgreSQL a run or subagent that works again is not shown as completed
\* (_apply_run_event and _apply_subagent_event clear completed_at).
ProjectionAgrees ==
  LET of(s) == {e \in events : HasRow(e.draft) /\ RowOf(e.draft) = s}
      runEvents == {e \in events : e.draft.family = "run"}
  IN  /\ Shows(run, runEvents) /\ Shows(view, runEvents)
      /\ view.last = run.next - (IF RunExists THEN 1 ELSE 0)
      /\ \A s \in DOMAIN view.rows :
           /\ of(s) # {} /\ Shows(view.rows[s], of(s))
           /\ view.rows[s].last = Latest(of(s)).sequence
      /\ \A e \in events : HasRow(e.draft) => RowOf(e.draft) \in DOMAIN view.rows
      /\ view.counts = Counted(view.rows)
      /\ backend = "postgres" =>
           /\ run.status \in Active => ~run.mark /\ ~view.mark
           /\ \A s \in DOMAIN view.rows : LET row == view.rows[s] IN
                s[1] = "subagent" /\ row.status \in Active => ~row.mark

\* Over any number of broken connections the browser gets every event once,
\* in order, none skipped (Last-Event-ID and the polling cursor).
ReplayExactly ==
  /\ \A i \in 1..Len(received) : received[i] = i
  /\ Len(received) < run.next \/ received = <<>>

\* A stored event reaches an open browser.
ReaderCatchesUp ==
  \A n \in 1..MaxEvents : n \in Numbers ~> n \in ToSet(received)

\* While a lease is live its message belongs to one consumer.
LeaseRespected ==
  [][\A n \in DOMAIN outbox :
       outbox[n].lease = "live" /\ outbox'[n].lease = "live"
         => outbox'[n].holder = outbox[n].holder]_vars

\* Only a consumer that still owns a message settles it, and what is published
\* is never claimed, released or published again.
SettledByOwner ==
  [][\A n \in DOMAIN outbox :
       /\ outbox[n].published => outbox'[n] = outbox[n]
       /\ outbox[n].holder # Nobody /\ outbox'[n].holder = Nobody
            => /\ n \in held[outbox[n].holder]
               /\ n \notin held'[outbox[n].holder]]_vars

\* Every committed event is published in the end, although consumers die,
\* fail and outlive their leases.
EveryEventDelivered ==
  \A n \in 1..MaxEvents : n \in DOMAIN outbox ~> (n \in DOMAIN outbox /\ outbox[n].published)
=============================================================================
