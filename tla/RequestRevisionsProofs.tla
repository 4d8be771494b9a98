----------------------- MODULE RequestRevisionsProofs -----------------------
(***************************************************************************)
(* Of redirects, however many commands and callers there are: the service  *)
(* and the workflow implement RevisionLineage, and a redirect that is      *)
(* submitted once is what every attempt of its revision loads.             *)
(*                                                                         *)
(* Neither is inductive.  What a request may do next depends on what it    *)
(* has read: the number it goes on with is at most one beyond the visible  *)
(* one, because it was when it was computed and the visible one only       *)
(* grows; its command is stored as it holds it; one that is about to       *)
(* promote was accepted.                                                   *)
(***************************************************************************)
EXTENDS RequestRevisions, TLAPS

\* A revision has one record of a kind.
PutOnce ==
  \A i, j \in DOMAIN stored :
    stored[i].kind = stored[j].kind /\ stored[i].number = stored[j].number => i = j

\* What the operator sees are revisions 1..Visible, as they were accepted, and
\* the workflow is ahead by one at most.
Chain ==
  /\ Visible \in Nat /\ {1} \cup Numbers("promoted") = 1..Visible
  /\ \A i \in DOMAIN accepted : accepted[i].number = i + 1
  /\ Len(accepted) = Visible - 1 \/ Len(accepted) = Visible
  /\ \A i \in DOMAIN stored : stored[i].kind = "promoted" =>
       /\ stored[i].number - 1 \in DOMAIN accepted
       /\ stored[i].text = accepted[stored[i].number - 1].text

\* An intent is never beyond the next revision; an accepted one is stored.
Intents ==
  /\ \A c \in Command : intent[c] # None => intent[c].number \in 2..(Visible + 1)
  /\ \A i \in DOMAIN accepted :
       intent[accepted[i].command] =
         [text |-> accepted[i].text, number |-> accepted[i].number]

\* What a request holds when it has passed its reads.
Requests ==
  \A r \in Caller : request[r] # None =>
    LET q == request[r] IN
    /\ q.step = "command" => q.number \in 2..(Visible + 1)
    /\ q.step \notin {"list", "command"} =>
         intent[q.command] = [text |-> q.text, number |-> q.number]
    /\ q.step = "promote" => Known(q.command)

\* The prepared record of a revision exists, with this text.
Prepared(text, n) ==
  /\ Records("prepared", n) # {}
  /\ \A i \in Records("prepared", n) : stored[i].text = text

\* A command that was submitted once was prepared before it left.
Once ==
  /\ \A c \in Command : intent[c] # None => submitted[c] >= 1
  /\ \A r \in Caller : request[r] # None =>
       LET q == request[r] IN
       /\ submitted[q.command] >= 1
       /\ q.step \in {"runtime", "orphan", "promote"} /\ submitted[q.command] = 1 =>
            Prepared(q.text, q.number)
  /\ \A i \in DOMAIN accepted : submitted[accepted[i].command] = 1 =>
       Prepared(accepted[i].text, accepted[i].number)

\* Attempts are made for revisions that were accepted.
Attempted ==
  \A a \in DOMAIN attempts : attempts[a].revision \in 1..AcceptedNumber

IInv == TypeOK /\ PutOnce /\ Chain /\ Intents /\ Requests
OInv == IInv /\ Once /\ Attempted /\ LoadsWhatWasAccepted

-----------------------------------------------------------------------------
(* The records.                                                            *)

LEMMA MaxOfInterval ==
  ASSUME NEW k \in Nat \ {0}
  PROVE  Max(1..k) = k
<1>1. k \in 1..k /\ \A y \in 1..k : k >= y
  OBVIOUS
<1>2. \A x \in 1..k : (\A y \in 1..k : x >= y) => x = k
  BY <1>1
<1> QED
  BY <1>1, <1>2 DEF Max

\* What is read of the records depends on nothing else.
LEMMA SameRecords ==
  ASSUME stored' = stored
  PROVE  /\ Visible' = Visible
         /\ \A kind : Numbers(kind)' = Numbers(kind)
         /\ \A kind, n : Records(kind, n)' = Records(kind, n)
         /\ \A text, n : Prepared(text, n)' <=> Prepared(text, n)
         /\ \A n : PromotedText(n)' = PromotedText(n)
BY DEF Visible, Numbers, Records, Prepared, PromotedText

LEMMA AppendRecords ==
  ASSUME stored \in Seq(RevisionRecord), NEW e \in RevisionRecord,
         stored' = Append(stored, e)
  PROVE  \A kind, n :
           Records(kind, n)' = Records(kind, n)
              \cup (IF e.kind = kind /\ e.number = n THEN {Len(stored) + 1} ELSE {})
<1>1. DOMAIN stored' = DOMAIN stored \cup {Len(stored) + 1}
  OBVIOUS
<1>2. stored'[Len(stored) + 1] = e /\ \A i \in DOMAIN stored : stored'[i] = stored[i]
  OBVIOUS
<1>3. Len(stored) + 1 \notin DOMAIN stored
  OBVIOUS
<1> QED
  BY <1>1, <1>2, <1>3 DEF Records

LEMMA NumbersOfRecords ==
  \A kind, n : /\ n \in Numbers(kind) <=> Records(kind, n) # {}
               /\ n \in Numbers(kind)' <=> Records(kind, n)' # {}
BY DEF Numbers, Records

\* What is prepared stays prepared, whatever is put.
LEMMA PutKeeps ==
  ASSUME TypeOK, NEW q \in Request, NEW kind \in {"prepared", "promoted"}, Put(kind, q)
  PROVE  /\ stored' \in Seq(RevisionRecord)
         /\ \A text, n : Prepared(text, n) => Prepared(text, n)'
         /\ kind = "prepared" => Visible' = Visible /\ Numbers("promoted")' = Numbers("promoted")
<1> DEFINE e == [kind |-> kind, number |-> q.number, text |-> q.text]
<1>1. e \in RevisionRecord /\ stored \in Seq(RevisionRecord)
  BY DEF Request, RevisionRecord, TypeOK
<1>2. CASE stored' = stored
  BY <1>2, <1>1, SameRecords
<1>3. CASE stored' = Append(stored, e) /\ Records(kind, q.number) = {}
  <2>1. stored' \in Seq(RevisionRecord)
    BY <1>1, <1>3
  <2>2. \A k, n : Records(k, n)' = Records(k, n)
            \cup (IF e.kind = k /\ e.number = n THEN {Len(stored) + 1} ELSE {})
    BY <1>1, <1>3, AppendRecords
  <2>3. \A text, n : Prepared(text, n) => Prepared(text, n)'
    <3> SUFFICES ASSUME NEW text, NEW n, Prepared(text, n) PROVE Prepared(text, n)'
      OBVIOUS
    <3>1. Records("prepared", n)' = Records("prepared", n)
      BY <2>2, <1>3 DEF Prepared
    <3>2. \A i \in Records("prepared", n) : stored'[i] = stored[i]
      BY <1>1, <1>3 DEF Records
    <3> QED
      BY <3>1, <3>2 DEF Prepared
  <2>4. ASSUME kind = "prepared"
        PROVE  Numbers("promoted")' = Numbers("promoted") /\ Visible' = Visible
    <3>1. \A n : Records("promoted", n)' = Records("promoted", n)
      BY <2>2, <2>4
    <3>2. \A n : n \in Numbers("promoted")' <=> n \in Numbers("promoted")
      BY <3>1, NumbersOfRecords
    <3>3. Numbers("promoted")' = Numbers("promoted")
      BY <3>2
    <3> QED
      BY <3>3 DEF Visible
  <2> QED
    BY <2>1, <2>3, <2>4
<1> QED
  BY <1>2, <1>3 DEF Put

LEMMA PutKeepsOnce ==
  ASSUME TypeOK, PutOnce, NEW q \in Request, NEW kind \in {"prepared", "promoted"},
         Put(kind, q)
  PROVE  PutOnce'
<1> DEFINE e == [kind |-> kind, number |-> q.number, text |-> q.text]
<1>1. CASE stored' = stored
  BY <1>1 DEF PutOnce
<1>2. CASE stored' = Append(stored, e) /\ Records(kind, q.number) = {}
  <2>1. stored \in Seq(RevisionRecord)
    BY DEF TypeOK
  <2>2. \A i \in DOMAIN stored : ~(stored[i].kind = kind /\ stored[i].number = q.number)
    BY <1>2 DEF Records
  <2>3. DOMAIN stored' = DOMAIN stored \cup {Len(stored) + 1}
    BY <1>2, <2>1
  <2>4. stored'[Len(stored) + 1] = e /\ \A i \in DOMAIN stored : stored'[i] = stored[i]
    BY <1>2, <2>1
  <2> QED
    BY <2>2, <2>3, <2>4 DEF PutOnce
<1> QED
  BY <1>1, <1>2 DEF Put

\* The last record of a revision is one of its at most two.
LEMMA LastIsOne ==
  ASSUME TypeOK, PutOnce, NEW n,
         Records("prepared", n) \cup Records("promoted", n) # {}
  PROVE  Max(Records("prepared", n) \cup Records("promoted", n))
           \in Records("prepared", n) \cup Records("promoted", n)
<1> DEFINE of == Records("prepared", n) \cup Records("promoted", n)
<1>1. of \subseteq Nat
  BY DEF Records, TypeOK
<1>2. \A i, j, k \in of : i = j \/ j = k \/ i = k
  BY DEF Records, PutOnce
<1>3. \E x \in of : \A y \in of : x >= y
  <2>1. PICK i \in of : TRUE
    OBVIOUS
  <2>2. CASE \E j \in of : j > i
    BY <1>1, <1>2, <2>1, <2>2
  <2>3. CASE \A j \in of : ~(j > i)
    BY <1>1, <2>1, <2>3
  <2> QED
    BY <2>2, <2>3
<1> QED
  BY <1>3 DEF Max

\* What a promotion does to the visible revisions: one that is visible already
\* is left alone, and the only other one it can be is the next.
LEMMA PromoteNext ==
  ASSUME TypeOK, Chain, NEW q \in Request, NEW k \in DOMAIN accepted,
         q.number = accepted[k].number, q.text = accepted[k].text, Put("promoted", q)
  PROVE  \/ stored' = stored
         \/ /\ stored' = Append(stored, [kind |-> "promoted", number |-> q.number, text |-> q.text])
            /\ q.number = Visible + 1 /\ Len(accepted) = Visible /\ k = Visible
            /\ Visible' = Visible + 1
            /\ {1} \cup Numbers("promoted")' = 1..(Visible + 1)
<1> SUFFICES ASSUME Records("promoted", q.number) = {},
                    stored' = Append(stored, [kind |-> "promoted", number |-> q.number,
                                              text |-> q.text])
             PROVE  /\ q.number = Visible + 1 /\ Len(accepted) = Visible /\ k = Visible
                    /\ Visible' = Visible + 1
                    /\ {1} \cup Numbers("promoted")' = 1..(Visible + 1)
  BY DEF Put
<1> DEFINE e == [kind |-> "promoted", number |-> q.number, text |-> q.text]
<1>1. e \in RevisionRecord /\ stored \in Seq(RevisionRecord) /\ accepted \in Seq(Accepted)
  BY DEF Request, RevisionRecord, TypeOK
<1>2. q.number = k + 1 /\ k \in Nat /\ k >= 1 /\ k <= Len(accepted) /\ Len(accepted) \in Nat
  BY <1>1 DEF Chain
<1>3. q.number \notin Numbers("promoted")
  BY NumbersOfRecords
<1>4. q.number = Visible + 1 /\ Len(accepted) = Visible /\ k = Visible
  BY <1>2, <1>3 DEF Chain
<1>5. \A n : Records("promoted", n)' = Records("promoted", n)
            \cup (IF q.number = n THEN {Len(stored) + 1} ELSE {})
  BY <1>1, AppendRecords
<1>6. \A n : n \in Numbers("promoted")' <=> n \in Numbers("promoted") \/ n = q.number
  BY <1>5, NumbersOfRecords
<1>7. Numbers("promoted")' = Numbers("promoted") \cup {Visible + 1}
  BY <1>4, <1>6
<1>8. {1} \cup Numbers("promoted")' = 1..(Visible + 1)
  BY <1>7 DEF Chain
<1>9. Visible' = Visible + 1
  <2>1. Visible + 1 \in Nat \ {0}
    BY DEF Chain
  <2>2. Visible' = Max(1..(Visible + 1))
    BY <1>8 DEF Visible
  <2> QED
    BY <2>1, <2>2, MaxOfInterval
<1> QED
  BY <1>4, <1>8, <1>9

-----------------------------------------------------------------------------
(* The invariant: initially, and after every step.                         *)

LEMMA InitialRecords ==
  ASSUME Init
  PROVE  Visible = 1 /\ \A kind : Numbers(kind) = {}
<1>1. \A kind : Numbers(kind) = {}
  BY DEF Init, Numbers
<1>2. {1} \cup Numbers("promoted") = 1..1
  BY <1>1
<1>3. Max(1..1) = 1
  BY MaxOfInterval
<1> QED
  BY <1>1, <1>2, <1>3 DEF Visible

LEMMA Initially == Init => OInv
<1> SUFFICES ASSUME Init PROVE OInv
  OBVIOUS
<1>1. TypeOK
  <2>1. applied \in 0..Len(accepted)
    BY DEF Init
  <2>2. /\ intent \in [Command -> Intent \cup {None}]
        /\ request \in [Caller -> Request \cup {None}]
        /\ submitted \in [Command -> Nat] /\ faults \in Nat
    BY DEF Init
  <2>3. /\ stored \in Seq(RevisionRecord) /\ accepted \in Seq(Accepted)
        /\ attempts \in Seq(Attempt) /\ proposals \in Seq(Nat)
    BY DEF Init
  <2> QED
    BY <2>1, <2>2, <2>3 DEF Init, TypeOK
<1>5. PutOnce
  BY DEF Init, PutOnce
<1>2. Chain
  <2>1. Visible = 1 /\ Numbers("promoted") = {}
    BY InitialRecords
  <2>2. stored = <<>> /\ accepted = <<>>
    BY DEF Init
  <2> QED
    BY <2>1, <2>2 DEF Chain
<1>3. Intents /\ Requests
  BY DEF Init, Intents, Requests
<1>4. Once /\ Attempted /\ LoadsWhatWasAccepted
  BY DEF Init, Once, Attempted, LoadsWhatWasAccepted
<1> QED
  BY <1>1, <1>2, <1>3, <1>4, <1>5 DEF OInv, IInv

\* The steps of the parent and of the executors leave what a redirect is made of.
LEMMA WorkIsApart ==
  Parent \/ (\E a \in DOMAIN attempts : Working(a)) =>
    UNCHANGED <<intent, stored, request, submitted, accepted>>
BY DEF Parent, ApplyRedirect, Launch, Launched, AwaitChild, ChildEnds, Close, Return,
       Working, Load, Propose, records, api, parent

\* A caller goes on with a request, or without one.
LEMMA GoesOn ==
  ASSUME TypeOK, NEW r \in Caller, request[r] # None
  PROVE  /\ request[r] \in Request
         /\ \A step \in Step : Goto(r, step) =>
              /\ request' \in [Caller -> Request \cup {None}]
              /\ request'[r] = [request[r] EXCEPT !.step = step]
         /\ Finish(r) => request' \in [Caller -> Request \cup {None}] /\ request'[r] = None
<1>1. request[r] \in Request
  BY DEF TypeOK
<1>2. \A step \in Step : [request[r] EXCEPT !.step = step] \in Request
  BY <1>1 DEF Request
<1> QED
  BY <1>1, <1>2 DEF Goto, Finish, Serve, TypeOK

LEMMA StepTypes == IInv /\ [Next]_vars => TypeOK'
<1> SUFFICES ASSUME IInv, [Next]_vars PROVE TypeOK'
  OBVIOUS
<1> USE DEF IInv, records, api, parent
<1>1. ASSUME NEW r \in Caller, NEW s \in Submission, Submit(r, s[1], s[2]) PROVE TypeOK'
  <2>1. s[1] \in Command /\ s[2] \in Text
    BY RevisionsAssumption
  <2>2. intent[s[1]] # None => intent[s[1]].number \in Nat
    BY <2>1 DEF TypeOK, Intent
  <2>3. \E q \in Request : Serve(r, q)
    <3>1. \A n \in Nat, step \in Step :
            [command |-> s[1], text |-> s[2], number |-> n, step |-> step] \in Request
      BY <2>1 DEF Request
    <3> QED
      BY <1>1, <2>1, <2>2, <3>1 DEF Submit, Step
  <2>4. submitted' \in [Command -> Nat]
    BY <1>1, <2>1 DEF Submit, TypeOK
  <2> QED
    BY <1>1, <2>3, <2>4 DEF Submit, Serve, TypeOK
<1>2. ASSUME NEW r \in Caller, ListRecords(r) PROVE TypeOK'
  <2>1. request[r] \in Request /\ Visible + 1 \in Nat
    BY <1>2 DEF ListRecords, At, TypeOK, Chain
  <2>2. [request[r] EXCEPT !.number = Visible + 1, !.step = "command"] \in Request
    BY <2>1 DEF Request, Step
  <2>3. request' \in [Caller -> Request \cup {None}]
    BY <1>2, <2>2 DEF ListRecords, Serve, TypeOK
  <2> QED
    BY <1>2, <2>3 DEF ListRecords, TypeOK
<1>3. ASSUME NEW r \in Caller, PutCommand(r) PROVE TypeOK'
  <2>1. request[r] \in Request /\ request[r] # None
    BY <1>3, GoesOn DEF PutCommand, At
  <2>2. request' \in [Caller -> Request \cup {None}]
    BY <1>3, <2>1, GoesOn DEF PutCommand, Step
  <2>3. intent' \in [Command -> Intent \cup {None}]
    <3>1. request[r].command \in Command
            /\ [text |-> request[r].text, number |-> request[r].number] \in Intent
      BY <2>1 DEF Request, Intent
    <3> QED
      BY <1>3, <3>1 DEF PutCommand, TypeOK
  <2> QED
    BY <1>3, <2>2, <2>3 DEF PutCommand, TypeOK
<1>4. ASSUME NEW r \in Caller, PutPrepared(r) PROVE TypeOK'
  <2>1. request[r] \in Request /\ request[r] # None
    BY <1>4, GoesOn DEF PutPrepared, At
  <2>2. stored' \in Seq(RevisionRecord)
    BY <1>4, <2>1, PutKeeps DEF PutPrepared
  <2>3. request' \in [Caller -> Request \cup {None}]
    BY <1>4, <2>1, GoesOn DEF PutPrepared, Step
  <2> QED
    BY <1>4, <2>2, <2>3 DEF PutPrepared, TypeOK
<1>5. ASSUME NEW r \in Caller, Deliver(r) PROVE TypeOK'
  <2>1. request[r] \in Request /\ request[r] # None
    BY <1>5, GoesOn DEF Deliver, At
  <2>2. request' \in [Caller -> Request \cup {None}]
    BY <1>5, <2>1, GoesOn DEF Deliver, Step
  <2>3. accepted' \in Seq(Accepted) /\ applied' \in 0..Len(accepted')
    <3> DEFINE e == [command |-> request[r].command, text |-> request[r].text,
                     number |-> request[r].number]
    <3>1. e \in Accepted
      BY <2>1 DEF Request, Accepted
    <3>2. accepted' = accepted \/ accepted' = Append(accepted, e)
      BY <1>5 DEF Deliver
    <3>3. accepted \in Seq(Accepted) /\ applied \in 0..Len(accepted) /\ applied' = applied
      BY <1>5 DEF Deliver, TypeOK
    <3> HIDE DEF e
    <3> QED
      BY <3>1, <3>2, <3>3
  <2>4. attempts' \in Seq(Attempt)
    <3>1. attempts \in Seq(Attempt)
      BY DEF TypeOK
    <3>2. \A i \in DOMAIN attempts : attempts[i] \in Attempt
      BY <3>1
    <3>3. \A t \in Attempt : [t EXCEPT !.cancel = TRUE] \in Attempt
      BY DEF Attempt
    <3> QED
      BY <1>5, <3>1, <3>2, <3>3 DEF Deliver
  <2> QED
    BY <1>5, <2>2, <2>3, <2>4 DEF Deliver, TypeOK
<1>6. ASSUME NEW r \in Caller, Promote(r) PROVE TypeOK'
  <2>1. request[r] \in Request /\ request[r] # None
    BY <1>6, GoesOn DEF Promote, At
  <2>2. stored' \in Seq(RevisionRecord)
    BY <1>6, <2>1, PutKeeps DEF Promote
  <2>3. request' \in [Caller -> Request \cup {None}]
    BY <1>6, <2>1, GoesOn DEF Promote
  <2> QED
    BY <1>6, <2>2, <2>3 DEF Promote, TypeOK
<1>7. ASSUME NEW r \in Caller, Break(r) \/ Lose(r) PROVE TypeOK'
  <2>1. request[r] # None
    BY <1>7 DEF Break, Lose, At
  <2>2. request' \in [Caller -> Request \cup {None}]
    BY <1>7, <2>1, GoesOn DEF Break, Lose, Step
  <2> QED
    BY <1>7, <2>2 DEF Break, Lose, TypeOK
<1>8. CASE ApplyRedirect
  BY <1>8 DEF ApplyRedirect, Invalidated, TypeOK
<1>9. CASE Launch
  <2>1. Revision \in Nat
    <3>1. applied # 0 => accepted[applied] \in Accepted
      BY DEF TypeOK
    <3> QED
      BY <3>1 DEF Revision, Accepted
  <2>2. attempts' \in Seq(Attempt)
    BY <1>9, <2>1 DEF Launch, TypeOK, Attempt
  <2> QED
    BY <1>9, <2>2 DEF Launch, TypeOK
<1>10. CASE AwaitChild \/ ChildEnds \/ Close \/ Return
  BY <1>10 DEF AwaitChild, ChildEnds, Close, Return, TypeOK
<1>14. CASE Launched
  <2>1. attempts' \in Seq(Attempt)
    <3>1. attempts \in Seq(Attempt)
      BY DEF TypeOK
    <3>2. \A i \in DOMAIN attempts : attempts[i] \in Attempt
      BY <3>1
    <3>3. \A t \in Attempt : [t EXCEPT !.cancel = TRUE] \in Attempt
      BY DEF Attempt
    <3> QED
      BY <1>14, <3>1, <3>2, <3>3 DEF Launched
  <2>2. work' \in {"launched", "running"}
    BY <1>14 DEF Launched
  <2> QED
    BY <1>14, <2>1, <2>2 DEF Launched, TypeOK
<1>11. ASSUME NEW a \in DOMAIN attempts, Load(a) PROVE TypeOK'
  <2> DEFINE text == Found(attempts[a].revision)
  <2>1. text \in Text \cup {Original, None}
    <3> DEFINE n == attempts[a].revision
               of == Records("prepared", n) \cup Records("promoted", n)
    <3>1. CASE n = 1 \/ of = {}
      BY <3>1 DEF Found
    <3>2. CASE n # 1 /\ of # {}
      <4>1. Found(n) = stored[Max(of)].text
        BY <3>2 DEF Found
      <4>2. Max(of) \in DOMAIN stored
        BY <3>2, LastIsOne DEF Records
      <4>3. stored[Max(of)] \in RevisionRecord
        BY <4>2 DEF TypeOK
      <4> QED
        BY <4>1, <4>3 DEF RevisionRecord
    <3> QED
      BY <3>1, <3>2
  <2> HIDE DEF text
  <2>2. attempts \in Seq(Attempt)
    BY DEF TypeOK
  <2>3. [attempts[a] EXCEPT !.text = text, !.state = IF text = None THEN "failed" ELSE "loaded"]
          \in Attempt
    <3>1. attempts[a] \in Attempt
      BY <2>2
    <3> QED
      BY <2>1, <3>1 DEF Attempt
  <2>4. attempts' = [attempts EXCEPT ![a] =
          [attempts[a] EXCEPT !.text = text, !.state = IF text = None THEN "failed" ELSE "loaded"]]
    BY <1>11, <2>2 DEF Load, text
  <2>5. attempts' \in Seq(Attempt)
    BY <2>2, <2>3, <2>4
  <2> QED
    BY <1>11, <2>5 DEF Load, TypeOK
<1>12. ASSUME NEW a \in DOMAIN attempts, Propose(a) PROVE TypeOK'
  <2>1. attempts \in Seq(Attempt)
    BY DEF TypeOK
  <2>2. [attempts[a] EXCEPT !.state = "stored"] \in Attempt
    <3>1. attempts[a] \in Attempt
      BY <2>1
    <3> QED
      BY <3>1 DEF Attempt
  <2>3. attempts' \in Seq(Attempt)
    BY <1>12, <2>1, <2>2 DEF Propose
  <2>4. proposals' \in Seq(Nat)
    BY <1>12, <2>1 DEF Propose, TypeOK
  <2> QED
    BY <1>12, <2>3, <2>4 DEF Propose, TypeOK
<1>13. CASE UNCHANGED vars
  BY <1>13 DEF vars, TypeOK
<1> QED
  BY <1>1, <1>2, <1>3, <1>4, <1>5, <1>6, <1>7, <1>8, <1>9, <1>10, <1>11, <1>12, <1>13,
     <1>14 DEF Next, Serving, Parent, Working

\* What a step that touches neither the revisions nor the accepted leaves.
LEMMA SameChain ==
  ASSUME IInv, UNCHANGED <<stored, accepted>>
  PROVE  PutOnce' /\ Chain' /\ Visible' = Visible
BY SameRecords DEF IInv, PutOnce, Chain

LEMMA StepChain == IInv /\ [Next]_vars => PutOnce' /\ Chain' /\ Visible' >= Visible
<1> SUFFICES ASSUME IInv, [Next]_vars PROVE PutOnce' /\ Chain' /\ Visible' >= Visible
  OBVIOUS
<1> USE DEF IInv, records, api, parent
<1>1. Visible \in Nat
  BY DEF Chain
<1>2. CASE UNCHANGED <<stored, accepted>>
  BY <1>1, <1>2, SameChain
<1>3. ASSUME NEW r \in Caller, PutPrepared(r) PROVE PutOnce' /\ Chain' /\ Visible' = Visible
  <2> DEFINE q == request[r]
             e == [kind |-> "prepared", number |-> q.number, text |-> q.text]
  <2>1. q \in Request /\ Put("prepared", q) /\ accepted' = accepted
    BY <1>3, GoesOn DEF PutPrepared, At
  <2>2. PutOnce' /\ Visible' = Visible /\ Numbers("promoted")' = Numbers("promoted")
    BY <2>1, PutKeepsOnce, PutKeeps
  <2>3. \A i \in DOMAIN stored' : stored'[i].kind = "promoted" =>
           i \in DOMAIN stored /\ stored'[i] = stored[i]
    <3>1. stored \in Seq(RevisionRecord) /\ (stored' = stored \/ stored' = Append(stored, e))
      BY <2>1 DEF Put, TypeOK
    <3>2. CASE stored' = Append(stored, e)
      <4>1. DOMAIN stored' = DOMAIN stored \cup {Len(stored) + 1}
        BY <3>1, <3>2
      <4>2. stored'[Len(stored) + 1] = e /\ \A i \in DOMAIN stored : stored'[i] = stored[i]
        BY <3>1, <3>2
      <4> QED
        BY <4>1, <4>2
    <3> QED
      BY <3>1, <3>2
  <2> QED
    BY <2>1, <2>2, <2>3 DEF Chain
<1>4. ASSUME NEW r \in Caller, Promote(r) PROVE PutOnce' /\ Chain' /\ Visible' >= Visible
  <2> DEFINE q == request[r]
             e == [kind |-> "promoted", number |-> q.number, text |-> q.text]
  <2>1. q \in Request /\ q # None /\ Put("promoted", q) /\ accepted' = accepted
    BY <1>4, GoesOn DEF Promote, At
  <2>2. PutOnce'
    BY <2>1, PutKeepsOnce
  <2>3. PICK k \in DOMAIN accepted : q.number = accepted[k].number /\ q.text = accepted[k].text
    <3>1. Known(q.command) /\ intent[q.command] = [text |-> q.text, number |-> q.number]
      BY <1>4, <2>1 DEF Promote, At, Requests
    <3>2. PICK k \in DOMAIN accepted : accepted[k].command = q.command
      BY <3>1 DEF Known
    <3>3. [text |-> accepted[k].text, number |-> accepted[k].number]
            = [text |-> q.text, number |-> q.number]
      BY <3>1, <3>2 DEF Intents
    <3> QED
      BY <3>3
  <2>4. CASE stored' = stored
    BY <1>1, <2>1, <2>4, SameChain
  <2>5. CASE /\ stored' = Append(stored, e)
             /\ q.number = Visible + 1 /\ Len(accepted) = Visible /\ k = Visible
             /\ Visible' = Visible + 1
             /\ {1} \cup Numbers("promoted")' = 1..(Visible + 1)
    <3>1. stored \in Seq(RevisionRecord)
      BY DEF TypeOK
    <3>2. DOMAIN stored' = DOMAIN stored \cup {Len(stored) + 1}
      BY <2>5, <3>1
    <3>3. stored'[Len(stored) + 1] = e /\ \A i \in DOMAIN stored : stored'[i] = stored[i]
      BY <2>5, <3>1
    <3>4. e.number - 1 = k /\ e.text = accepted[k].text
      BY <1>1, <2>3, <2>5
    <3>5. \A i \in DOMAIN stored' : stored'[i].kind = "promoted" =>
             /\ stored'[i].number - 1 \in DOMAIN accepted
             /\ stored'[i].text = accepted[stored'[i].number - 1].text
      BY <3>2, <3>3, <3>4 DEF Chain
    <3>6. Visible' \in Nat /\ Visible' >= Visible /\ Len(accepted) = Visible' - 1
      BY <1>1, <2>5
    <3> QED
      BY <2>1, <2>2, <2>5, <3>5, <3>6 DEF Chain
  <2> QED
    BY <2>1, <2>3, <2>4, <2>5, PromoteNext
<1>5. ASSUME NEW r \in Caller, Deliver(r), accepted' # accepted
      PROVE  PutOnce' /\ Chain' /\ Visible' = Visible
  <2> DEFINE q == request[r]
             e == [command |-> q.command, text |-> q.text, number |-> q.number]
  <2>1. q \in Request /\ q # None /\ stored' = stored
    BY <1>5, GoesOn DEF Deliver, At
  <2>2. accepted' = Append(accepted, e) /\ q.number > AcceptedNumber
    BY <1>5 DEF Deliver
  <2>3. accepted \in Seq(Accepted) /\ Len(accepted) \in Nat
    BY DEF TypeOK
  <2>4. AcceptedNumber = Len(accepted) + 1
    BY <2>3 DEF AcceptedNumber, Chain
  <2>5. q.number \in 2..(Visible + 1)
    <3>1. intent[q.command] = [text |-> q.text, number |-> q.number]
      BY <1>5, <2>1 DEF Deliver, At, Requests
    <3>2. intent[q.command] \in Intent
      BY <2>1, <3>1 DEF Request, Intent
    <3>3. intent[q.command] # None /\ q.command \in Command
      BY <2>1, <3>2, RevisionsAssumption DEF Request
    <3> QED
      BY <3>1, <3>3 DEF Intents
  <2>6. Len(accepted) = Visible - 1 /\ q.number = Len(accepted) + 2
    BY <1>1, <2>2, <2>3, <2>4, <2>5 DEF Chain
  <2>7. DOMAIN accepted' = DOMAIN accepted \cup {Len(accepted) + 1} /\ Len(accepted') = Visible
    BY <1>1, <2>2, <2>3, <2>6
  <2>8. accepted'[Len(accepted) + 1] = e /\ \A i \in DOMAIN accepted : accepted'[i] = accepted[i]
    BY <2>2, <2>3
  <2>9. PutOnce' /\ Visible' = Visible /\ Numbers("promoted")' = Numbers("promoted")
    BY <2>1, SameRecords DEF PutOnce
  <2>10. \A i \in DOMAIN accepted' : accepted'[i].number = i + 1
    BY <2>3, <2>6, <2>7, <2>8 DEF Chain
  <2> QED
    BY <1>1, <2>1, <2>7, <2>8, <2>9, <2>10 DEF Chain
<1>6. CASE UNCHANGED vars
  BY <1>2, <1>6 DEF vars
<1>7. CASE Parent \/ \E a \in DOMAIN attempts : Working(a)
  BY <1>2, <1>7, WorkIsApart
<1>8. ASSUME NEW r \in Caller,
             ListRecords(r) \/ PutCommand(r) \/ Break(r) \/ Lose(r)
               \/ \E s \in Submission : Submit(r, s[1], s[2])
      PROVE  UNCHANGED <<stored, accepted>>
  BY <1>8 DEF ListRecords, PutCommand, Break, Lose, Submit
<1>9. ASSUME NEW r \in Caller, Deliver(r), accepted' = accepted
      PROVE  UNCHANGED <<stored, accepted>>
  BY <1>9 DEF Deliver
<1> QED
  BY <1>1, <1>2, <1>3, <1>4, <1>5, <1>6, <1>7, <1>8, <1>9 DEF Next, Serving

\* A command is put once, and its intent stays.
LEMMA IntentsStay ==
  ASSUME IInv, [Next]_vars, NEW c \in Command, intent[c] # None
  PROVE  intent'[c] = intent[c]
<1> USE DEF records, api, parent
<1>1. ASSUME NEW r \in Caller, PutCommand(r) PROVE intent'[c] = intent[c]
  BY <1>1 DEF PutCommand, IInv, TypeOK
<1>2. ASSUME NEW r \in Caller,
             ListRecords(r) \/ PutPrepared(r) \/ Deliver(r) \/ Promote(r) \/ Break(r) \/ Lose(r)
               \/ \E s \in Submission : Submit(r, s[1], s[2])
      PROVE  intent' = intent
  BY <1>2 DEF ListRecords, PutPrepared, Deliver, Promote, Break, Lose, Submit
<1>3. CASE Parent \/ \E a \in DOMAIN attempts : Working(a)
  BY <1>3, WorkIsApart
<1>4. CASE UNCHANGED vars
  BY <1>4 DEF vars
<1> QED
  BY <1>1, <1>2, <1>3, <1>4 DEF Next, Serving

LEMMA StepIntents == IInv /\ [Next]_vars => Intents'
<1> SUFFICES ASSUME IInv, [Next]_vars PROVE Intents'
  OBVIOUS
<1> USE DEF IInv, records, api, parent
<1>1. Visible \in Nat /\ Visible' \in Nat /\ Visible' >= Visible
  BY StepChain DEF Chain
<1>2. \A i \in DOMAIN accepted :
        /\ accepted[i].command \in Command /\ intent[accepted[i].command] # None
        /\ intent[accepted[i].command] = [text |-> accepted[i].text, number |-> accepted[i].number]
  <2> TAKE i \in DOMAIN accepted
  <2>1. accepted[i] \in Accepted
    BY DEF TypeOK
  <2>2. [text |-> accepted[i].text, number |-> accepted[i].number] \in Intent
    BY <2>1 DEF Accepted, Intent
  <2> QED
    BY <2>1, <2>2, RevisionsAssumption DEF Intents, Accepted
<1>3. \A i \in DOMAIN accepted :
        intent'[accepted[i].command] = [text |-> accepted[i].text, number |-> accepted[i].number]
  BY <1>2, IntentsStay
<1>4. ASSUME NEW r \in Caller, PutCommand(r) PROVE Intents'
  <2> DEFINE q == request[r]
             new == [text |-> q.text, number |-> q.number]
  <2>1. q \in Request /\ q # None /\ accepted' = accepted
    BY <1>4, GoesOn DEF PutCommand, At
  <2>2. q.number \in 2..(Visible + 1) /\ q.command \in Command
    BY <1>4, <2>1 DEF PutCommand, At, Requests, Request
  <2>3. \A c \in Command : intent'[c] = intent[c] \/ (c = q.command /\ intent'[c] = new)
    BY <1>4, <2>2 DEF PutCommand, TypeOK
  <2>4. \A c \in Command : intent'[c] # None => intent'[c].number \in 2..(Visible' + 1)
    BY <1>1, <2>2, <2>3 DEF Intents
  <2> QED
    BY <1>3, <2>1, <2>4 DEF Intents
<1>5. ASSUME NEW r \in Caller, Deliver(r) PROVE Intents'
  <2> DEFINE q == request[r]
             e == [command |-> q.command, text |-> q.text, number |-> q.number]
  <2>1. q \in Request /\ q # None /\ intent' = intent
    BY <1>5, GoesOn DEF Deliver, At
  <2>2. intent[q.command] = [text |-> q.text, number |-> q.number]
    BY <1>5, <2>1 DEF Deliver, At, Requests
  <2>3. accepted \in Seq(Accepted) /\ (accepted' = accepted \/ accepted' = Append(accepted, e))
    BY <1>5 DEF Deliver, TypeOK
  <2>4. \A i \in DOMAIN accepted' :
          (i \in DOMAIN accepted /\ accepted'[i] = accepted[i]) \/ accepted'[i] = e
    BY <2>3
  <2>5. \A c \in Command : intent'[c] # None => intent'[c].number \in 2..(Visible' + 1)
    BY <1>1, <2>1 DEF Intents
  <2> QED
    BY <1>3, <2>1, <2>2, <2>4, <2>5 DEF Intents
<1>6. CASE UNCHANGED <<intent, accepted>>
  BY <1>1, <1>6 DEF Intents
<1>7. ASSUME NEW r \in Caller,
             ListRecords(r) \/ PutPrepared(r) \/ Promote(r) \/ Break(r) \/ Lose(r)
               \/ \E s \in Submission : Submit(r, s[1], s[2])
      PROVE  UNCHANGED <<intent, accepted>>
  BY <1>7 DEF ListRecords, PutPrepared, Promote, Break, Lose, Submit
<1>8. CASE Parent \/ \E a \in DOMAIN attempts : Working(a)
  BY <1>6, <1>8, WorkIsApart
<1>9. CASE UNCHANGED vars
  BY <1>6, <1>9 DEF vars
<1> QED
  BY <1>4, <1>5, <1>6, <1>7, <1>8, <1>9 DEF Next, Serving

\* What a request holds, caller by caller.
Holds(r) ==
  request[r] # None =>
    LET q == request[r] IN
    /\ q.step = "command" => q.number \in 2..(Visible + 1)
    /\ q.step \notin {"list", "command"} =>
         intent[q.command] = [text |-> q.text, number |-> q.number]
    /\ q.step = "promote" => Known(q.command)

LEMMA KnownStays ==
  ASSUME IInv, [Next]_vars, NEW c, Known(c)
  PROVE  Known(c)'
<1> USE DEF IInv, records, api, parent, Known
<1>1. accepted \in Seq(Accepted)
  BY DEF TypeOK
<1>2. ASSUME NEW r \in Caller, Deliver(r) PROVE Known(c)'
  <2> DEFINE e == [command |-> request[r].command, text |-> request[r].text,
                   number |-> request[r].number]
  <2>1. accepted' = accepted \/ accepted' = Append(accepted, e)
    BY <1>2 DEF Deliver
  <2>2. \A i \in DOMAIN accepted : i \in DOMAIN accepted' /\ accepted'[i] = accepted[i]
    BY <1>1, <2>1
  <2> QED
    BY <2>2
<1>3. ASSUME NEW r \in Caller,
             ListRecords(r) \/ PutCommand(r) \/ PutPrepared(r) \/ Promote(r) \/ Break(r) \/ Lose(r)
               \/ \E s \in Submission : Submit(r, s[1], s[2])
      PROVE  accepted' = accepted
  BY <1>3 DEF ListRecords, PutCommand, PutPrepared, Promote, Break, Lose, Submit
<1>4. CASE Parent \/ \E a \in DOMAIN attempts : Working(a)
  BY <1>4, WorkIsApart
<1>5. CASE UNCHANGED vars
  BY <1>5 DEF vars
<1> QED
  BY <1>2, <1>3, <1>4, <1>5 DEF Next, Serving

\* A caller whose request stands still holds what it held.
LEMMA HoldsOn ==
  ASSUME IInv, [Next]_vars, NEW r \in Caller, request'[r] = request[r]
  PROVE  Holds(r)'
<1> SUFFICES ASSUME request[r] # None PROVE Holds(r)'
  BY DEF Holds
<1> DEFINE q == request[r]
<1>1. Visible \in Nat /\ Visible' \in Nat /\ Visible' >= Visible
  BY StepChain DEF IInv, Chain
<1>2. Holds(r) /\ q \in Request
  BY DEF IInv, TypeOK, Requests, Holds
<1>3. q.step = "command" => q.number \in 2..(Visible' + 1)
  BY <1>1, <1>2 DEF Holds
<1>4. q.step \notin {"list", "command"} =>
        intent'[q.command] = [text |-> q.text, number |-> q.number]
  <2> SUFFICES ASSUME q.step \notin {"list", "command"}
               PROVE  intent'[q.command] = [text |-> q.text, number |-> q.number]
    OBVIOUS
  <2>1. intent[q.command] = [text |-> q.text, number |-> q.number]
    BY <1>2 DEF Holds
  <2>2. intent[q.command] \in Intent /\ q.command \in Command
    BY <1>2, <2>1 DEF Request, Intent
  <2> QED
    BY <2>1, <2>2, IntentsStay, RevisionsAssumption
<1>5. q.step = "promote" => Known(q.command)'
  BY <1>2, KnownStays DEF Holds
<1> QED
  BY <1>3, <1>4, <1>5 DEF Holds

LEMMA StepRequests == IInv /\ [Next]_vars => Requests'
<1> SUFFICES ASSUME IInv, [Next]_vars, NEW p \in Caller PROVE Holds(p)'
  BY DEF Requests, Holds
<1> USE DEF IInv, records, api, parent
<1>1. CASE request'[p] = request[p]
  BY <1>1, HoldsOn
<1>2. CASE request'[p] = None
  BY <1>2 DEF Holds
<1>3. Visible \in Nat /\ Visible' \in Nat /\ Visible' >= Visible
  BY StepChain DEF Chain
<1>4. ASSUME NEW r \in Caller, NEW s \in Submission, Submit(r, s[1], s[2]) PROVE Holds(p)'
  <2>1. CASE r # p
    BY <1>1, <1>4, <2>1 DEF Submit, Serve, TypeOK
  <2>2. CASE r = p
    <3>1. s[1] \in Command
      BY RevisionsAssumption
    <3>2. CASE intent[s[1]] = None
      BY <1>4, <2>2, <3>2 DEF Submit, Serve, TypeOK, Holds
    <3>3. CASE intent[s[1]] # None
      <4>1. intent[s[1]] = [text |-> s[2], number |-> intent[s[1]].number]
        BY <1>4, <3>1, <3>3 DEF Submit, TypeOK, Intent
      <4>2. request'[p] = [command |-> s[1], text |-> s[2], number |-> intent[s[1]].number,
                           step |-> "runtime"] /\ intent' = intent
        BY <1>4, <2>2, <3>3 DEF Submit, Serve, TypeOK
      <4> QED
        BY <4>1, <4>2 DEF Holds
    <3> QED
      BY <3>2, <3>3
  <2> QED
    BY <2>1, <2>2
<1>5. ASSUME NEW r \in Caller, ListRecords(r) PROVE Holds(p)'
  <2>1. CASE r # p
    BY <1>1, <1>5, <2>1 DEF ListRecords, Serve, TypeOK
  <2>2. CASE r = p
    <3>1. request[r] \in Request
      BY <1>5 DEF ListRecords, At, TypeOK
    <3>2. request'[p].number = Visible + 1 /\ request'[p].step = "command"
      BY <1>5, <2>2, <3>1 DEF ListRecords, Serve, TypeOK, Request
    <3>3. Visible >= 1
      BY DEF Chain
    <3>4. request'[p].number \in 2..(Visible' + 1)
      <4>1. \A v, w \in Nat : w >= v /\ v >= 1 => v + 1 \in 2..(w + 1)
        OBVIOUS
      <4> QED
        BY <1>3, <3>2, <3>3, <4>1
    <3> QED
      BY <3>2, <3>4 DEF Holds
  <2> QED
    BY <2>1, <2>2
<1>6. ASSUME NEW r \in Caller, PutCommand(r) \/ PutPrepared(r) \/ Deliver(r) \/ Promote(r)
                                 \/ Break(r) \/ Lose(r)
      PROVE  Holds(p)'
  <2> DEFINE q == request[r]
  <2>1. q # None /\ q \in Request
    BY <1>6, GoesOn DEF PutCommand, PutPrepared, Deliver, Promote, Break, Lose, At
  <2>c. PICK c : c = q.command
    OBVIOUS
  <2>2. CASE r # p
    BY <1>1, <1>6, <2>2
       DEF PutCommand, PutPrepared, Deliver, Promote, Break, Lose, Goto, Finish, Serve, TypeOK
  <2>3. ASSUME r = p, NEW step \in Step \ {"list", "command"}, Goto(r, step),
               intent'[q.command] = [text |-> q.text, number |-> q.number],
               step = "promote" => Known(c)'
        PROVE  Holds(p)'
    <3>1. request'[p] = [q EXCEPT !.step = step]
      BY <2>1, <2>3, GoesOn
    <3>2. /\ request'[p].step = step /\ request'[p].command = q.command
          /\ request'[p].text = q.text /\ request'[p].number = q.number
      BY <2>1, <3>1 DEF Request
    <3> QED
      BY <2>c, <2>3, <3>2 DEF Holds
  <2>4. CASE Finish(r) /\ r = p
    BY <1>2, <2>1, <2>4, GoesOn
  <2>5. intent[q.command] = [text |-> q.text, number |-> q.number] =>
          intent'[q.command] = [text |-> q.text, number |-> q.number]
    <3>1. [text |-> q.text, number |-> q.number] \in Intent /\ q.command \in Command
      BY <2>1 DEF Request, Intent
    <3> QED
      BY <3>1, IntentsStay, RevisionsAssumption
  <2>6. CASE PutCommand(r) /\ r = p
    <3>1. CASE intent[q.command] \in {None, [text |-> q.text, number |-> q.number]}
      <4>1. intent'[q.command] = [text |-> q.text, number |-> q.number] /\ Goto(r, "prepare")
        BY <2>1, <2>6, <3>1 DEF PutCommand, TypeOK, Request
      <4> QED
        BY <2>3, <2>6, <4>1 DEF Step
    <3>2. CASE Finish(r)
      BY <2>4, <2>6, <3>2
    <3> QED
      BY <2>6, <3>1, <3>2 DEF PutCommand
  <2>7. CASE PutPrepared(r) /\ r = p
    BY <2>1, <2>3, <2>4, <2>5, <2>7 DEF PutPrepared, At, Requests, Step
  <2>8. CASE Deliver(r) /\ r = p
    <3>1. Goto(r, "promote") \/ Finish(r)
      BY <2>8 DEF Deliver
    <3>2. ASSUME ~Finish(r) PROVE Known(c)'
      <4> DEFINE e == [command |-> q.command, text |-> q.text, number |-> q.number]
      <4>1. CASE Known(c)
        BY <4>1, KnownStays
      <4>2. CASE accepted' = Append(accepted, e)
        <5>1. Len(accepted) + 1 \in DOMAIN accepted' /\ accepted'[Len(accepted) + 1] = e
          BY <4>2 DEF TypeOK
        <5> QED
          BY <2>c, <5>1 DEF Known
      <4> QED
        BY <2>c, <2>8, <3>2, <4>1, <4>2 DEF Deliver
    <3> QED
      BY <2>1, <2>3, <2>4, <2>5, <2>8, <3>1, <3>2 DEF Deliver, At, Requests, Step
  <2>9. CASE Promote(r) /\ r = p
    BY <2>4, <2>9 DEF Promote
  <2>10. CASE (Break(r) \/ Lose(r)) /\ r = p
    BY <2>1, <2>3, <2>4, <2>5, <2>10 DEF Break, Lose, At, Requests, Step
  <2> QED
    BY <1>6, <2>2, <2>6, <2>7, <2>8, <2>9, <2>10
<1>7. CASE Parent \/ \E a \in DOMAIN attempts : Working(a)
  BY <1>1, <1>7, WorkIsApart
<1>8. CASE UNCHANGED vars
  BY <1>1, <1>8 DEF vars
<1> QED
  BY <1>4, <1>5, <1>6, <1>7, <1>8 DEF Next, Serving

\* The inductive invariant of the lineage.
THEOREM RevisionsInvariant == Spec => []IInv
<1>1. Init => IInv
  BY Initially DEF OInv
<1>2. IInv /\ [Next]_vars => IInv'
  BY StepTypes, StepChain, StepIntents, StepRequests DEF IInv
<1> QED
  BY <1>1, <1>2, PTL DEF Spec

-----------------------------------------------------------------------------
(* The refinement.                                                         *)

\* What is shown is the first part of what was taken.
LEMMA ShownIsTaken == IInv => Shown = [i \in 1..(Visible - 1) |-> Taken[i]]
<1> SUFFICES ASSUME IInv, NEW i \in 1..(Visible - 1)
             PROVE  [number |-> i + 1, text |-> PromotedText(i + 1)] = Taken[i]
  BY DEF Shown
<1>1. Visible \in Nat /\ i \in Nat /\ i + 1 \in 2..Visible
  BY DEF IInv, Chain
<1>2. i \in DOMAIN accepted
  BY <1>1 DEF IInv, Chain, TypeOK
<1>3. Records("promoted", i + 1) # {}
  <2>1. i + 1 \in Numbers("promoted")
    BY <1>1 DEF IInv, Chain
  <2> QED
    BY <2>1, NumbersOfRecords
<1>4. PICK j \in Records("promoted", i + 1) : PromotedText(i + 1) = stored[j].text
  BY <1>3 DEF PromotedText
<1>5. j \in DOMAIN stored /\ stored[j].kind = "promoted" /\ stored[j].number = i + 1
  BY <1>4 DEF Records
<1>6. stored[j].text = accepted[i].text
  <2>1. stored[j].text = accepted[stored[j].number - 1].text
    BY <1>5 DEF IInv, Chain
  <2> QED
    BY <1>1, <1>5, <2>1
<1>7. accepted[i].number = i + 1
  BY <1>2 DEF IInv, Chain
<1> QED
  BY <1>2, <1>4, <1>6, <1>7 DEF Taken

\* Only an update adds to what was accepted, and it stores nothing.
LEMMA AcceptedGrows ==
  ASSUME IInv, [Next]_vars
  PROVE  \/ accepted' = accepted
         \/ \E e \in Accepted : accepted' = Append(accepted, e) /\ stored' = stored
<1> USE DEF IInv, records, api, parent
<1>1. ASSUME NEW r \in Caller, Deliver(r), accepted' # accepted
      PROVE  \E e \in Accepted : accepted' = Append(accepted, e) /\ stored' = stored
  <2>1. request[r] \in Request
    BY <1>1, GoesOn DEF Deliver, At
  <2>2. [command |-> request[r].command, text |-> request[r].text,
         number |-> request[r].number] \in Accepted
    BY <2>1 DEF Request, Accepted
  <2> QED
    BY <1>1, <2>2 DEF Deliver
<1>2. ASSUME NEW r \in Caller,
             ListRecords(r) \/ PutCommand(r) \/ PutPrepared(r) \/ Promote(r) \/ Break(r) \/ Lose(r)
               \/ \E s \in Submission : Submit(r, s[1], s[2])
      PROVE  accepted' = accepted
  BY <1>2 DEF ListRecords, PutCommand, PutPrepared, Promote, Break, Lose, Submit
<1>3. CASE Parent \/ \E a \in DOMAIN attempts : Working(a)
  BY <1>3, WorkIsApart
<1>4. CASE UNCHANGED vars
  BY <1>4 DEF vars
<1> QED
  BY <1>1, <1>2, <1>3, <1>4 DEF Next, Serving

LEMMA StepRefines ==
  ASSUME IInv, IInv', [Next]_vars
  PROVE  [Lineage!Next]_(Lineage!lineage)
<1> DEFINE v == Visible
           w == Visible'
<1>1. /\ v \in Nat /\ w \in Nat /\ w >= v
      /\ Len(accepted) \in Nat /\ accepted \in Seq(Accepted)
  <2>1. Visible \in Nat /\ Visible' \in Nat /\ Visible' >= Visible
    BY StepChain DEF IInv, Chain
  <2>2. accepted \in Seq(Accepted)
    BY DEF IInv, TypeOK
  <2> QED
    BY <2>1, <2>2
<1>2. /\ Len(accepted) = Visible - 1 \/ Len(accepted) = Visible
      /\ Len(accepted') = Visible' - 1 \/ Len(accepted') = Visible'
  BY DEF IInv, Chain
<1>3. /\ Shown = [i \in 1..(Visible - 1) |-> Taken[i]]
      /\ Shown' = [i \in 1..(Visible' - 1) |-> Taken'[i]]
  <2>1. Shown = [i \in 1..(Visible - 1) |-> Taken[i]]
    BY ShownIsTaken
  <2>2. (Shown = [i \in 1..(Visible - 1) |-> Taken[i]])'
    BY ShownIsTaken, PTL
  <2> QED
    BY <2>1, <2>2
<1>4. Taken = [i \in 1..Len(accepted) |-> [number |-> accepted[i].number, text |-> accepted[i].text]]
  BY <1>1 DEF Taken
<1>5. Len(accepted) = Visible - 1 => Shown = Taken
  BY <1>3, <1>4
<1>6. CASE accepted' = accepted
  <2>1. Taken' = Taken
    BY <1>6 DEF Taken
  <2>2. CASE Visible' = Visible
    BY <1>3, <2>1, <2>2 DEF Lineage!lineage
  <2>3. CASE Visible' # Visible
    <3>1. Visible' - 1 = Len(accepted)
      <4>1. v # w /\ (Len(accepted) = v - 1 \/ Len(accepted) = v)
              /\ (Len(accepted) = w - 1 \/ Len(accepted) = w)
        BY <1>2, <1>6, <2>3
      <4> HIDE DEF v, w
      <4>2. w - 1 = Len(accepted)
        BY <1>1, <4>1
      <4> QED
        BY <4>2 DEF w
    <3>2. Shown' = Taken
      BY <1>3, <1>4, <2>1, <3>1
    <3> QED
      BY <2>1, <3>2 DEF Lineage!Next, Lineage!Show
  <2> QED
    BY <2>2, <2>3
<1>7. ASSUME NEW e \in Accepted, accepted' = Append(accepted, e), stored' = stored
      PROVE  Lineage!Next
  <2>1. Visible' = Visible
    BY <1>7, SameRecords
  <2>2. Len(accepted') = Len(accepted) + 1 /\ DOMAIN accepted' = 1..(Len(accepted) + 1)
    BY <1>1, <1>7
  <2>3. Len(accepted) = Visible - 1
    BY <1>1, <1>2, <2>1, <2>2
  <2>4. accepted'[Len(accepted) + 1] = e
          /\ \A i \in 1..Len(accepted) : accepted'[i] = accepted[i]
    BY <1>1, <1>7
  <2>5. e.number = Len(accepted) + 2
    <3>1. \A i \in DOMAIN accepted' : accepted'[i].number = i + 1
      BY DEF IInv, Chain
    <3>2. Len(accepted) + 1 \in DOMAIN accepted'
      BY <1>1, <2>2
    <3>3. accepted'[Len(accepted) + 1].number = (Len(accepted) + 1) + 1
      BY <3>1, <3>2
    <3> QED
      BY <1>1, <2>4, <3>3
  <2> DEFINE t == [number |-> Len(accepted) + 2, text |-> e.text]
  <2>6. Taken' = [i \in 1..(Len(accepted) + 1) |-> IF i = Len(accepted) + 1 THEN t ELSE Taken[i]]
    <3>1. Taken' = [i \in 1..(Len(accepted) + 1) |->
                      [number |-> accepted'[i].number, text |-> accepted'[i].text]]
      BY <2>2 DEF Taken
    <3>2. \A i \in 1..(Len(accepted) + 1) :
            [number |-> accepted'[i].number, text |-> accepted'[i].text]
              = IF i = Len(accepted) + 1 THEN t ELSE Taken[i]
      BY <1>1, <1>4, <2>4, <2>5
    <3> QED
      BY <3>1, <3>2
  <2>7. Len(Taken) = Len(accepted)
    BY <1>1, <1>4
  <2>8. Taken' = Append(Taken, [number |-> Len(Taken) + 2, text |-> e.text])
    <3> HIDE DEF Taken
    <3>1. Taken \in Seq([number : Nat, text : Text])
      <4>1. \A i \in 1..Len(accepted) : accepted[i] \in Accepted
        BY <1>1
      <4>2. \A i \in 1..Len(accepted) :
              [number |-> accepted[i].number, text |-> accepted[i].text] \in [number : Nat, text : Text]
        BY <4>1 DEF Accepted
      <4> QED
        BY <1>1, <1>4, <4>2
    <3>2. Append(Taken, t) = [i \in 1..(Len(Taken) + 1) |-> IF i = Len(Taken) + 1 THEN t ELSE Taken[i]]
      BY <3>1
    <3> QED
      BY <2>6, <2>7, <3>2
  <2>9. Shown' = Shown
    <3>1. \A i \in 1..(Visible - 1) : Taken'[i] = Taken[i]
      BY <1>1, <2>3, <2>6
    <3> QED
      BY <1>3, <2>1, <3>1
  <2>10. e.text \in Text
    BY DEF Accepted
  <2> QED
    BY <1>5, <2>3, <2>8, <2>9, <2>10 DEF Lineage!Next, Lineage!Take
<1> QED
  BY <1>6, <1>7, AcceptedGrows

\* However requests race, break off and are sent again, the service and the
\* workflow take one revision after the other, and show each as it was taken
\* (redirect in service.py, validate_redirect in parent.py).
THEOREM RevisionsFormALineage == Spec => ImplementsLineage
<1>1. Init => Lineage!Init
  <2> SUFFICES ASSUME Init PROVE Lineage!Init
    OBVIOUS
  <2>1. Visible = 1 /\ accepted = <<>>
    BY InitialRecords DEF Init
  <2>2. Taken = <<>>
    BY <2>1 DEF Taken
  <2>3. Shown = <<>>
    BY <2>1 DEF Shown
  <2> QED
    BY <2>2, <2>3 DEF Lineage!Init
<1>2. IInv /\ IInv' /\ [Next]_vars => [Lineage!Next]_(Lineage!lineage)
  BY StepRefines
<1> QED
  BY <1>1, <1>2, RevisionsInvariant, PTL DEF Spec, ImplementsLineage, Lineage!Spec

-----------------------------------------------------------------------------
(* What an attempt loads.                                                  *)

LEMMA PreparedStays ==
  ASSUME IInv, [Next]_vars, NEW text, NEW n, Prepared(text, n)
  PROVE  Prepared(text, n)'
<1> USE DEF IInv, records, api, parent
<1>1. CASE stored' = stored
  BY <1>1, SameRecords
<1>2. ASSUME NEW r \in Caller, PutPrepared(r) \/ Promote(r) PROVE Prepared(text, n)'
  <2>1. request[r] \in Request
    BY <1>2, GoesOn DEF PutPrepared, Promote, At
  <2> QED
    BY <1>2, <2>1, PutKeeps DEF PutPrepared, Promote
<1>3. ASSUME NEW r \in Caller,
             ListRecords(r) \/ PutCommand(r) \/ Deliver(r) \/ Break(r) \/ Lose(r)
               \/ \E s \in Submission : Submit(r, s[1], s[2])
      PROVE  stored' = stored
  BY <1>3 DEF ListRecords, PutCommand, Deliver, Break, Lose, Submit
<1>4. CASE Parent \/ \E a \in DOMAIN attempts : Working(a)
  BY <1>1, <1>4, WorkIsApart
<1>5. CASE UNCHANGED vars
  BY <1>1, <1>5 DEF vars
<1> QED
  BY <1>1, <1>2, <1>3, <1>4, <1>5 DEF Next, Serving

\* Submissions are only counted up, and only by Submit.
LEMMA SubmittedGrows ==
  ASSUME TypeOK, [Next]_vars
  PROVE  /\ \A c \in Command : /\ submitted[c] \in Nat /\ submitted'[c] \in Nat
                               /\ submitted'[c] >= submitted[c]
         /\ \/ submitted' = submitted
            \/ \E r \in Caller, s \in Submission : Submit(r, s[1], s[2])
<1> USE DEF records, api, parent
<1>1. submitted \in [Command -> Nat]
  BY DEF TypeOK
<1>2. ASSUME NEW r \in Caller, NEW s \in Submission, Submit(r, s[1], s[2])
      PROVE  \A c \in Command : submitted'[c] \in Nat /\ submitted'[c] >= submitted[c]
  BY <1>1, <1>2 DEF Submit
<1>3. ASSUME NEW r \in Caller,
             ListRecords(r) \/ PutCommand(r) \/ PutPrepared(r) \/ Deliver(r) \/ Promote(r)
               \/ Break(r) \/ Lose(r)
      PROVE  submitted' = submitted
  BY <1>3 DEF ListRecords, PutCommand, PutPrepared, Deliver, Promote, Break, Lose
<1>4. ASSUME Parent \/ \E a \in DOMAIN attempts : Working(a) PROVE submitted' = submitted
  BY <1>4, WorkIsApart
<1>5. ASSUME UNCHANGED vars PROVE submitted' = submitted
  BY <1>5 DEF vars
<1>6. \/ submitted' = submitted
      \/ \E r \in Caller, s \in Submission : Submit(r, s[1], s[2])
  BY <1>3, <1>4, <1>5 DEF Next, Serving
<1> QED
  BY <1>1, <1>2, <1>6

\* The second part of Once, caller by caller.
HoldsOnce(r) ==
  request[r] # None =>
    LET q == request[r] IN
    /\ submitted[q.command] >= 1
    /\ q.step \in {"runtime", "orphan", "promote"} /\ submitted[q.command] = 1 =>
         Prepared(q.text, q.number)

\* A caller whose request goes on with the same command, text and number.
LEMMA HoldsOnceOn ==
  ASSUME OInv, [Next]_vars, NEW p \in Caller, request[p] # None,
         request'[p] \in Request,
         request'[p].command = request[p].command,
         request'[p].text = request[p].text, request'[p].number = request[p].number,
         \/ request[p].step \in {"runtime", "orphan", "promote"}
         \/ request'[p].step \notin {"runtime", "orphan", "promote"}
  PROVE  HoldsOnce(p)'
<1> DEFINE q == request[p]
           c == q.command
<1>1. HoldsOnce(p) /\ c \in Command
  BY DEF OInv, Once, HoldsOnce, IInv, TypeOK, Request
<1>2. /\ submitted[c] \in Nat /\ submitted'[c] \in Nat
      /\ submitted'[c] >= submitted[c] /\ submitted[c] >= 1
  BY <1>1, SubmittedGrows DEF OInv, IInv, HoldsOnce
<1>3. Prepared(q.text, q.number) => Prepared(q.text, q.number)'
  BY PreparedStays DEF OInv
<1>4. submitted'[c] = 1 => submitted[c] = 1
  BY <1>2
<1>5. PICK text, n : text = q.text /\ n = q.number
  OBVIOUS
<1>6. request'[p].step \in {"runtime", "orphan", "promote"} /\ submitted'[c] = 1 =>
        Prepared(text, n)'
  BY <1>1, <1>3, <1>4, <1>5 DEF HoldsOnce
<1> QED
  BY <1>2, <1>5, <1>6 DEF HoldsOnce

LEMMA StepHoldsOnce ==
  ASSUME OInv, [Next]_vars, NEW p \in Caller
  PROVE  HoldsOnce(p)'
<1> USE DEF OInv, IInv, records, api, parent
<1>0. TypeOK'
  BY StepTypes
<1>1. CASE request'[p] = request[p]
  BY <1>1, HoldsOnceOn DEF HoldsOnce, TypeOK
<1>2. CASE request'[p] = None
  BY <1>2 DEF HoldsOnce
<1>3. ASSUME NEW r \in Caller, NEW s \in Submission, Submit(r, s[1], s[2]) PROVE HoldsOnce(p)'
  <2>1. CASE r # p
    BY <1>1, <1>3, <2>1 DEF Submit, Serve, TypeOK
  <2>2. CASE r = p
    <3>1. s[1] \in Command
      BY RevisionsAssumption
    <3>2. submitted'[s[1]] = submitted[s[1]] + 1 /\ submitted[s[1]] \in Nat
      BY <1>3, <3>1 DEF Submit, TypeOK
    <3>3. request'[p].command = s[1] /\ request'[p].step \in {"list", "runtime"}
            /\ (request'[p].step = "runtime" => intent[s[1]] # None)
      BY <1>3, <2>2 DEF Submit, Serve, TypeOK
    <3>4. intent[s[1]] # None => submitted[s[1]] >= 1
      BY <3>1 DEF Once
    <3> QED
      BY <3>2, <3>3, <3>4 DEF HoldsOnce
  <2> QED
    BY <2>1, <2>2
<1>4. ASSUME NEW r \in Caller,
             ListRecords(r) \/ PutCommand(r) \/ PutPrepared(r) \/ Deliver(r) \/ Promote(r)
               \/ Break(r) \/ Lose(r),
             r # p
      PROVE  HoldsOnce(p)'
  BY <1>1, <1>4
     DEF ListRecords, PutCommand, PutPrepared, Deliver, Promote, Break, Lose, Goto, Finish, Serve,
         TypeOK
<1>5. ASSUME ListRecords(p) PROVE HoldsOnce(p)'
  <2>1. request[p] \in Request
    BY <1>5 DEF ListRecords, At, TypeOK
  <2>2. /\ request'[p].command = request[p].command
        /\ request'[p].step = "command" /\ submitted' = submitted
    BY <1>5, <2>1 DEF ListRecords, Serve, TypeOK, Request
  <2> QED
    BY <1>5, <2>2 DEF HoldsOnce, Once, ListRecords, At
<1>6. ASSUME request[p] # None, NEW step \in Step, Goto(p, step),
             \/ request[p].step \in {"runtime", "orphan", "promote"}
             \/ step \notin {"runtime", "orphan", "promote"}
      PROVE  HoldsOnce(p)'
  <2>1. request[p] \in Request /\ request'[p] = [request[p] EXCEPT !.step = step]
    BY <1>6, GoesOn
  <2>2. /\ request'[p] \in Request /\ request'[p].step = step
        /\ request'[p].command = request[p].command
        /\ request'[p].text = request[p].text /\ request'[p].number = request[p].number
    BY <2>1 DEF Request
  <2> QED
    BY <1>6, <2>2, HoldsOnceOn
<1>7. ASSUME NEW r \in Caller, r = p, request[p] # None, Finish(p) PROVE HoldsOnce(p)'
  BY <1>2, <1>7, GoesOn
<1>8. ASSUME PutCommand(p) PROVE HoldsOnce(p)'
  BY <1>6, <1>7, <1>8 DEF PutCommand, At, Step
<1>9. ASSUME PutPrepared(p), ~Finish(p) PROVE HoldsOnce(p)'
  <2> DEFINE q == request[p]
             e == [kind |-> "prepared", number |-> q.number, text |-> q.text]
  <2>1. q # None /\ q \in Request /\ Goto(p, "runtime") /\ ~Clash("prepared", q)
          /\ Put("prepared", q) /\ submitted' = submitted
    BY <1>9, GoesOn DEF PutPrepared, At
  <2>2. \E text, n : text = q.text /\ n = q.number /\ Prepared(text, n)'
    <3>1. PICK text, n : text = q.text /\ n = q.number
      OBVIOUS
    <3>2. CASE stored' = stored /\ Records("prepared", n) # {}
      BY <2>1, <3>1, <3>2, SameRecords DEF Prepared, Clash
    <3>3. CASE stored' = Append(stored, e) /\ Records("prepared", n) = {}
      <4>1. stored \in Seq(RevisionRecord) /\ e \in RevisionRecord
        BY <2>1 DEF TypeOK, Request, RevisionRecord
      <4>2. Records("prepared", n)' = {Len(stored) + 1}
        BY <3>1, <3>3, <4>1, AppendRecords
      <4>3. stored'[Len(stored) + 1] = e
        BY <3>3, <4>1
      <4>4. stored'[Len(stored) + 1].text = text
        BY <3>1, <4>3
      <4>5. \A i \in Records("prepared", n)' : i = Len(stored) + 1
        BY <4>2
      <4>6. Records("prepared", n)' # {}
        BY <4>2
      <4>7. Prepared(text, n)'
        BY <4>4, <4>5, <4>6 DEF Prepared
      <4> QED
        BY <3>1, <4>7
    <3>4. CASE Records("prepared", n) # {}
      BY <2>1, <3>1, <3>2, <3>4 DEF Put
    <3> QED
      BY <2>1, <3>1, <3>3, <3>4 DEF Put
  <2>3. request'[p] = [q EXCEPT !.step = "runtime"]
    BY <2>1, GoesOn DEF Step
  <2>4. request'[p].command = q.command /\ request'[p].text = q.text /\ request'[p].number = q.number
    BY <2>1, <2>3 DEF Request
  <2>5. submitted[q.command] >= 1
    BY <2>1 DEF Once
  <2> QED
    BY <2>1, <2>2, <2>4, <2>5 DEF HoldsOnce
<1>10. ASSUME Deliver(p) PROVE HoldsOnce(p)'
  BY <1>6, <1>7, <1>10 DEF Deliver, At, Step
<1>11. ASSUME Promote(p) \/ Lose(p) PROVE HoldsOnce(p)'
  BY <1>7, <1>11 DEF Promote, Lose, At
<1>12. ASSUME Break(p) PROVE HoldsOnce(p)'
  BY <1>6, <1>7, <1>12 DEF Break, At, Step
<1>13. ASSUME PutPrepared(p), Finish(p) PROVE HoldsOnce(p)'
  BY <1>7, <1>13 DEF PutPrepared, At
<1>14. CASE Parent \/ \E a \in DOMAIN attempts : Working(a)
  BY <1>1, <1>14, WorkIsApart
<1>15. CASE UNCHANGED vars
  BY <1>1, <1>15 DEF vars
<1> QED
  BY <1>3, <1>4, <1>5, <1>8, <1>9, <1>10, <1>11, <1>12, <1>13, <1>14, <1>15 DEF Next, Serving

\* An accepted redirect's command was submitted.
LEMMA AcceptedWasSubmitted ==
  ASSUME OInv, NEW i \in DOMAIN accepted
  PROVE  accepted[i].command \in Command /\ submitted[accepted[i].command] >= 1
<1>1. accepted[i] \in Accepted
  BY DEF OInv, IInv, TypeOK
<1>2. [text |-> accepted[i].text, number |-> accepted[i].number] \in Intent
  BY <1>1 DEF Accepted, Intent
<1>3. intent[accepted[i].command] # None
  BY <1>2, RevisionsAssumption DEF OInv, IInv, Intents
<1> QED
  BY <1>1, <1>3 DEF OInv, Once, Accepted

\* An accepted redirect was accepted before, or it is the one delivered.
LEMMA AcceptedBy ==
  ASSUME IInv, [Next]_vars, NEW i \in DOMAIN accepted'
  PROVE  \/ i \in DOMAIN accepted /\ accepted'[i] = accepted[i]
         \/ \E r \in Caller :
              /\ Deliver(r) /\ i = Len(accepted) + 1 /\ request[r].number > AcceptedNumber
              /\ accepted'[i] = [command |-> request[r].command, text |-> request[r].text,
                                 number |-> request[r].number]
<1> USE DEF IInv, records, api, parent
<1>1. accepted \in Seq(Accepted)
  BY DEF TypeOK
<1>2. CASE accepted' = accepted
  BY <1>2
<1>3. ASSUME NEW r \in Caller, Deliver(r), accepted' # accepted
      PROVE  \/ i \in DOMAIN accepted /\ accepted'[i] = accepted[i]
             \/ /\ i = Len(accepted) + 1 /\ request[r].number > AcceptedNumber
                /\ accepted'[i] = [command |-> request[r].command, text |-> request[r].text,
                                   number |-> request[r].number]
  <2> DEFINE e == [command |-> request[r].command, text |-> request[r].text,
                   number |-> request[r].number]
  <2>1. accepted' = Append(accepted, e) /\ request[r].number > AcceptedNumber
    BY <1>3 DEF Deliver
  <2> HIDE DEF e
  <2>2. DOMAIN accepted' = DOMAIN accepted \cup {Len(accepted) + 1}
          /\ accepted'[Len(accepted) + 1] = e
          /\ \A j \in DOMAIN accepted : accepted'[j] = accepted[j]
    BY <1>1, <2>1
  <2> QED
    BY <2>1, <2>2 DEF e
<1>4. ASSUME NEW r \in Caller,
             ListRecords(r) \/ PutCommand(r) \/ PutPrepared(r) \/ Promote(r) \/ Break(r) \/ Lose(r)
               \/ \E s \in Submission : Submit(r, s[1], s[2])
      PROVE  accepted' = accepted
  BY <1>4 DEF ListRecords, PutCommand, PutPrepared, Promote, Break, Lose, Submit
<1>5. CASE Parent \/ \E a \in DOMAIN attempts : Working(a)
  BY <1>2, <1>5, WorkIsApart
<1>6. CASE UNCHANGED vars
  BY <1>2, <1>6 DEF vars
<1> QED
  BY <1>2, <1>3, <1>4, <1>5, <1>6 DEF Next, Serving

LEMMA StepOnce == OInv /\ [Next]_vars => Once'
<1> SUFFICES ASSUME OInv, [Next]_vars PROVE Once'
  OBVIOUS
<1> USE DEF OInv, IInv, records, api, parent
<1>1. \A r \in Caller : HoldsOnce(r)'
  BY StepHoldsOnce
<1>2. \A c \in Command : intent'[c] # None => submitted'[c] >= 1
  <2> SUFFICES ASSUME NEW c \in Command, intent'[c] # None PROVE submitted[c] >= 1
    BY SubmittedGrows
  <2>1. CASE intent[c] # None
    BY <2>1 DEF Once
  <2>2. ASSUME NEW r \in Caller, PutCommand(r) PROVE submitted[c] >= 1
    <3>1. request[r] # None /\ request[r] \in Request
      BY <2>2, GoesOn DEF PutCommand, At
    <3>2. intent'[c] = intent[c] \/ c = request[r].command
      BY <2>2, <3>1 DEF PutCommand, TypeOK, Request
    <3> QED
      BY <2>1, <3>1, <3>2 DEF Once
  <2>3. ASSUME NEW r \in Caller,
               ListRecords(r) \/ PutPrepared(r) \/ Deliver(r) \/ Promote(r) \/ Break(r) \/ Lose(r)
                 \/ \E s \in Submission : Submit(r, s[1], s[2])
        PROVE  intent' = intent
    BY <2>3 DEF ListRecords, PutPrepared, Deliver, Promote, Break, Lose, Submit
  <2>4. CASE Parent \/ \E a \in DOMAIN attempts : Working(a)
    BY <2>1, <2>4, WorkIsApart
  <2>5. CASE UNCHANGED vars
    BY <2>1, <2>5 DEF vars
  <2> QED
    BY <2>1, <2>2, <2>3, <2>4, <2>5 DEF Next, Serving
<1>3. ASSUME NEW i \in DOMAIN accepted', submitted'[accepted'[i].command] = 1
      PROVE  \E text, n : /\ text = accepted'[i].text /\ n = accepted'[i].number
                          /\ Prepared(text, n)'
  <2>1. CASE i \in DOMAIN accepted /\ accepted'[i] = accepted[i]
    <3>1. submitted[accepted[i].command] = 1
      BY <1>3, <2>1, AcceptedWasSubmitted, SubmittedGrows
    <3>2. Prepared(accepted[i].text, accepted[i].number)
      BY <2>1, <3>1 DEF Once
    <3> QED
      BY <2>1, <3>2, PreparedStays
  <2>2. ASSUME NEW r \in Caller, Deliver(r),
               accepted'[i] = [command |-> request[r].command, text |-> request[r].text,
                               number |-> request[r].number]
        PROVE  \E text, n : /\ text = accepted'[i].text /\ n = accepted'[i].number
                            /\ Prepared(text, n)'
    <3> DEFINE q == request[r]
    <3>1. q # None /\ q.step \in {"runtime", "orphan"} /\ submitted' = submitted
      BY <2>2 DEF Deliver, At
    <3>2. Prepared(q.text, q.number)
      BY <1>3, <2>2, <3>1 DEF Once
    <3> QED
      BY <2>2, <3>2, PreparedStays
  <2> QED
    BY <2>1, <2>2, AcceptedBy
<1> QED
  BY <1>1, <1>2, <1>3 DEF Once, HoldsOnce

\* What the parent has accepted and applied, counted.
LEMMA RevisionsCount ==
  ASSUME IInv
  PROVE  /\ AcceptedNumber = Len(accepted) + 1 /\ Len(accepted) \in Nat
         /\ Revision \in 1..AcceptedNumber
<1>1. accepted \in Seq(Accepted) /\ Len(accepted) \in Nat /\ applied \in 0..Len(accepted)
  BY DEF IInv, TypeOK
<1>2. AcceptedNumber = Len(accepted) + 1
  BY <1>1 DEF AcceptedNumber, IInv, Chain
<1>3. Revision = applied + 1
  BY <1>1 DEF Revision, IInv, Chain
<1> QED
  BY <1>1, <1>2, <1>3

\* An attempt keeps its revision; Load gives it its text, once.
LEMMA AttemptSteps ==
  ASSUME IInv, [Next]_vars, NEW a \in DOMAIN attempts'
  PROVE  \/ /\ a \in DOMAIN attempts /\ attempts'[a].revision = attempts[a].revision
            /\ \/ /\ attempts'[a].text = attempts[a].text
                  /\ attempts[a].state = "started" => attempts'[a].state = "started"
               \/ Load(a)
         \/ attempts'[a].revision = Revision /\ attempts'[a].state = "started"
<1> USE DEF IInv, records, api, parent
<1>1. /\ attempts \in Seq(Attempt) /\ \A i \in DOMAIN attempts : attempts[i] \in Attempt
  BY DEF TypeOK
<1>2. CASE attempts' = attempts
  BY <1>2
<1>3. ASSUME Launched \/ \E r \in Caller : Deliver(r), attempts' # attempts
      PROVE  /\ a \in DOMAIN attempts /\ attempts'[a].revision = attempts[a].revision
             /\ attempts'[a].text = attempts[a].text /\ attempts'[a].state = attempts[a].state
  <2>1. attempts' = [attempts EXCEPT ![Len(attempts)].cancel = TRUE]
    BY <1>3 DEF Deliver, Launched
  <2> QED
    BY <1>1, <2>1 DEF Attempt
<1>4. ASSUME Launch
      PROVE  \/ a \in DOMAIN attempts /\ attempts'[a] = attempts[a]
             \/ attempts'[a].revision = Revision /\ attempts'[a].state = "started"
  <2> DEFINE e == [revision |-> Revision, text |-> None, cancel |-> FALSE, state |-> "started"]
  <2>1. attempts' = Append(attempts, e)
    BY <1>4 DEF Launch
  <2>2. DOMAIN attempts' = DOMAIN attempts \cup {Len(attempts) + 1}
          /\ attempts'[Len(attempts) + 1] = e
          /\ \A j \in DOMAIN attempts : attempts'[j] = attempts[j]
    BY <1>1, <2>1
  <2> QED
    BY <2>2
<1>5. ASSUME NEW b \in DOMAIN attempts, Load(b)
      PROVE  /\ a \in DOMAIN attempts /\ attempts'[a].revision = attempts[a].revision
             /\ a = b \/ attempts'[a] = attempts[a]
  BY <1>1, <1>5 DEF Load, Attempt
<1>6. ASSUME NEW b \in DOMAIN attempts, Propose(b)
      PROVE  /\ a \in DOMAIN attempts /\ attempts'[a].revision = attempts[a].revision
             /\ attempts'[a].text = attempts[a].text
             /\ attempts[a].state = "started" => attempts'[a].state = "started"
  BY <1>1, <1>6 DEF Propose, Attempt
<1>7. ASSUME NEW r \in Caller,
             ListRecords(r) \/ PutCommand(r) \/ PutPrepared(r) \/ Promote(r) \/ Break(r) \/ Lose(r)
               \/ \E s \in Submission : Submit(r, s[1], s[2])
      PROVE  attempts' = attempts
  BY <1>7 DEF ListRecords, PutCommand, PutPrepared, Promote, Break, Lose, Submit
<1>8. CASE ApplyRedirect \/ AwaitChild \/ ChildEnds \/ Close \/ Return
  BY <1>2, <1>8 DEF ApplyRedirect, AwaitChild, ChildEnds, Close, Return
<1>9. CASE UNCHANGED vars
  BY <1>2, <1>9 DEF vars
<1> QED
  BY <1>2, <1>3, <1>4, <1>5, <1>6, <1>7, <1>8, <1>9 DEF Next, Serving, Parent, Working

LEMMA StepAttempted == OInv /\ [Next]_vars => Attempted'
<1> SUFFICES ASSUME OInv, [Next]_vars, NEW a \in DOMAIN attempts'
             PROVE  attempts'[a].revision \in 1..AcceptedNumber'
  BY DEF Attempted
<1>1. IInv /\ IInv'
  BY StepTypes, StepChain, StepIntents, StepRequests DEF OInv, IInv
<1>2. AcceptedNumber' = Len(accepted') + 1
  <2>1. accepted' \in Seq(Accepted) /\ \A i \in DOMAIN accepted' : accepted'[i].number = i + 1
    BY <1>1 DEF IInv, TypeOK, Chain
  <2> QED
    BY <2>1 DEF AcceptedNumber
<1>3. Len(accepted') >= Len(accepted) /\ Len(accepted') \in Nat /\ Len(accepted) \in Nat
  <2>1. accepted \in Seq(Accepted)
    BY <1>1 DEF IInv, TypeOK
  <2> QED
    BY <1>1, <2>1, AcceptedGrows
<1>4. \A n : n \in 1..AcceptedNumber => n \in 1..AcceptedNumber'
  BY <1>1, <1>2, <1>3, RevisionsCount
<1>5. attempts'[a].revision \in 1..AcceptedNumber
  BY <1>1, AttemptSteps, RevisionsCount DEF OInv, Attempted
<1> QED
  BY <1>4, <1>5

\* What is found of a revision that was prepared is what was accepted.
LEMMA FoundIsAccepted ==
  ASSUME OInv, NEW i \in DOMAIN accepted, submitted[accepted[i].command] = 1
  PROVE  Found(accepted[i].number) = accepted[i].text
<1> DEFINE n == accepted[i].number
           of == Records("prepared", n) \cup Records("promoted", n)
<1>1. n = i + 1 /\ i \in Nat /\ i # 0
  BY DEF OInv, IInv, TypeOK, Chain
<1>2. Prepared(accepted[i].text, n)
  BY DEF OInv, Once
<1>3. Max(of) \in of
  BY <1>2, LastIsOne DEF OInv, IInv, Prepared
<1>4. of # {} /\ n # 1
  BY <1>1, <1>2 DEF Prepared
<1>5. Found(n) = stored[Max(of)].text
  BY <1>4 DEF Found
<1>6. CASE Max(of) \in Records("prepared", n)
  BY <1>2, <1>5, <1>6 DEF Prepared
<1>7. CASE Max(of) \in Records("promoted", n)
  <2> DEFINE j == Max(of)
  <2> HIDE DEF of
  <2>1. j \in DOMAIN stored /\ stored[j].kind = "promoted" /\ stored[j].number = n
    BY <1>7 DEF Records
  <2>2. stored[j].text = accepted[stored[j].number - 1].text
    BY <2>1 DEF OInv, IInv, Chain
  <2>3. stored[j].number - 1 = i
    BY <1>1, <2>1
  <2> QED
    BY <1>5, <2>2, <2>3
<1> QED
  BY <1>3, <1>6, <1>7

LEMMA StepLoads == OInv /\ [Next]_vars => LoadsWhatWasAccepted'
<1> SUFFICES ASSUME OInv, [Next]_vars, NEW a \in DOMAIN attempts', NEW i \in DOMAIN accepted',
                    attempts'[a].state # "started",
                    attempts'[a].revision = accepted'[i].number,
                    submitted'[accepted'[i].command] = 1
             PROVE  attempts'[a].text = accepted'[i].text
  BY DEF LoadsWhatWasAccepted
<1>1. IInv
  BY DEF OInv
<1>2. /\ a \in DOMAIN attempts /\ attempts'[a].revision = attempts[a].revision
      /\ \/ attempts'[a].text = attempts[a].text /\ attempts[a].state # "started"
         \/ Load(a)
  BY <1>1, AttemptSteps
<1>3. i \in DOMAIN accepted /\ accepted'[i] = accepted[i]
  <2> SUFFICES ASSUME NEW r \in Caller, request[r].number > AcceptedNumber,
                      i = Len(accepted) + 1, accepted'[i].number = request[r].number
               PROVE  FALSE
    BY <1>1, AcceptedBy
  <2>1. attempts[a].revision \in 1..AcceptedNumber /\ AcceptedNumber \in Nat
    BY <1>1, <1>2, RevisionsCount DEF OInv, Attempted
  <2> QED
    BY <1>2, <2>1
<1>4. submitted[accepted[i].command] = 1
  BY <1>1, <1>3, AcceptedWasSubmitted, SubmittedGrows DEF IInv
<1>5. CASE attempts'[a].text = attempts[a].text /\ attempts[a].state # "started"
  BY <1>2, <1>3, <1>4, <1>5 DEF OInv, LoadsWhatWasAccepted
<1>6. CASE Load(a)
  <2>1. attempts \in Seq(Attempt) /\ attempts[a] \in Attempt
    BY <1>1, <1>2 DEF IInv, TypeOK
  <2>2. attempts'[a].text = Found(attempts[a].revision)
    BY <1>6, <2>1 DEF Load, Attempt
  <2> QED
    BY <1>2, <1>3, <1>4, <2>2, FoundIsAccepted
<1> QED
  BY <1>2, <1>5, <1>6

\* The inductive invariant of the loading.
THEOREM LoadingInvariant == Spec => []OInv
<1>1. Init => OInv
  BY Initially
<1>2. OInv /\ [Next]_vars => OInv'
  <2>1. OInv /\ [Next]_vars => IInv'
    BY StepTypes, StepChain, StepIntents, StepRequests DEF OInv, IInv
  <2> QED
    BY <2>1, StepOnce, StepAttempted, StepLoads DEF OInv
<1> QED
  BY <1>1, <1>2, PTL DEF Spec

\* Every attempt works from the text of the redirect its revision was accepted
\* with, if that was submitted once (_request_record of the executor).
THEOREM AttemptsLoadTheirRevision == Spec => []LoadsWhatWasAccepted
<1>1. OInv => LoadsWhatWasAccepted
  BY DEF OInv
<1> QED
  BY <1>1, LoadingInvariant, PTL

\* The service and the workflow stay in their states.
THEOREM RevisionsTypeCorrect == Spec => []TypeOK
<1>1. IInv => TypeOK
  BY DEF IInv
<1> QED
  BY <1>1, RevisionsInvariant, PTL

=============================================================================
