--------------------------- MODULE RelayctlProofs ---------------------------
(***************************************************************************)
(* Proofs about Relayctl, for any number of operators, commands, letters   *)
(* and copies, any limits, and any letters at the start.                   *)
(***************************************************************************)
EXTENDS Relayctl, TLAPS

\* What a command may do to its own job keeps it a job.
LEMMA JobUpdates ==
  ASSUME NEW j \in Jobs
  PROVE  /\ \A n \in 0..2 : [j EXCEPT !.empty = n] \in Jobs
         /\ \A a \in Letters : [j EXCEPT !.at = a] \in Jobs
         /\ \A f \in [Letters -> Nat] : [j EXCEPT !.found = f] \in Jobs
         /\ \A f \in [Letters -> Nat], K \in SUBSET Letters :
              /\ [j EXCEPT !.found = f, !.keep = K] \in Jobs
              /\ [j EXCEPT !.found = f, !.moved = K] \in Jobs
              /\ [j EXCEPT !.found = f, !.moved = K, !.at = NoLetter] \in Jobs
BY DEF Jobs

LEMMA NoJobIsAJob == NoJob \in Jobs
BY RelayctlAssumption DEF NoJob, Jobs, Commands

LEMMA OneJob ==
  ASSUME TypeOK, NEW o \in Operators, NEW j \in Jobs, job' = [job EXCEPT ![o] = j]
  PROVE  /\ job' \in [Operators -> Jobs]
         /\ job'[o] = j
         /\ \A p \in Operators \ {o} : job'[p] = job[p]
BY DEF TypeOK

LEMMA JobFields ==
  ASSUME TypeOK, NEW o \in Operators
  PROVE  /\ job[o] \in Jobs
         /\ job[o].found \in [Letters -> Nat]
         /\ job[o].at \in Letters \cup {NoLetter}
         /\ job[o].keep \in SUBSET Letters
         /\ job[o].moved \in SUBSET Letters
         /\ job[o].empty \in 0..2
         /\ Found(o) \subseteq Letters
BY DEF TypeOK, Jobs, Found

LEMMA WithoutType ==
  ASSUME TypeOK, NEW o \in Operators, NEW m \in Found(o)
  PROVE  /\ Without(o, m) \in [Letters -> Nat]
         /\ Without(o, m)[m] = job[o].found[m] - 1
         /\ \A n \in Letters \ {m} : Without(o, m)[n] = job[o].found[n]
<1>1. m \in Letters /\ job[o].found \in [Letters -> Nat] /\ job[o].found[m] > 0
  BY JobFields DEF Found
<1>. QED
  BY <1>1 DEF Without

LEMMA DisturbedType ==
  ASSUME TypeOK
  PROVE  /\ Disturbed \in [Operators -> Jobs]
         /\ \A o \in Operators : Disturbed[o] = [job[o] EXCEPT !.lone = FALSE]
<1>1. \A o \in Operators : job[o] \in Jobs
  BY DEF TypeOK
<1>2. \A o \in Operators : [job[o] EXCEPT !.lone = FALSE] \in Jobs
  BY <1>1 DEF Jobs
<1>. QED
  BY <1>2 DEF Disturbed
-----------------------------------------------------------------------------
\* What each step does to the operator's own job, and to the others.

Others(o) == \A p \in Operators \ {o} : pc'[p] = pc[p] /\ job'[p] = job[p]

\* An arrival takes an unused id and changes nothing else but lone.
LEMMA ArrivesEffect ==
  ASSUME TypeOK, NEW e \in Events, NEW permanent \in BOOLEAN, Arrives(e, permanent)
  PROVE  /\ \E m \in Letters :
              /\ place[m] = "unused" /\ letter[m] = NoLetter
              /\ letter' = [letter EXCEPT ![m] = [ev |-> e, permanent |-> permanent]]
              /\ place' = [place EXCEPT ![m] = "visible"]
         /\ job' = Disturbed
         /\ UNCHANGED <<last, pc, begun>>
BY DEF Arrives, TypeOK

\* The end of a command: the others' jobs stay, some held letters are visible.
LEMMA EndsEffect ==
  ASSUME TypeOK, NEW o \in Operators, NEW S,
         NEW there \in [Letters -> {"unused", "visible", "held", "gone"}], Ends(o, there, S)
  PROVE  /\ place' \in [Letters -> {"unused", "visible", "held", "gone"}]
         /\ \A m \in Letters : \/ place'[m] = there[m]
                               \/ there[m] = "held" /\ place'[m] = "visible"
         /\ job' \in [Operators -> Jobs] /\ job'[o] = NoJob
         /\ pc' = [pc EXCEPT ![o] = "idle"]
         /\ Others(o)
<1>1. PICK R \in SUBSET {m \in S : there[m] = "held"} :
        place' = [m \in Letters |-> IF m \in R THEN "visible" ELSE there[m]]
  BY DEF Ends
<1>2. \A m \in R : there[m] = "held"
  OBVIOUS
<1>3. job' = [job EXCEPT ![o] = NoJob] /\ pc' = [pc EXCEPT ![o] = "idle"]
  BY DEF Ends, Goto
<1>4. job' \in [Operators -> Jobs] /\ job'[o] = NoJob /\ Others(o)
  BY <1>3, OneJob, NoJobIsAJob DEF Others, TypeOK
<1>. QED
  BY <1>1, <1>2, <1>3, <1>4

LEMMA BeginEffect ==
  ASSUME TypeOK, NEW o \in Operators, NEW cmd \in Commands,
         NEW target \in Events \cup Letters \cup {NoLetter},
         NEW dealtWith \in SUBSET Events, Begin(o, cmd, target, dealtWith)
  PROVE  LET alone == Held = {} /\ \A p \in Operators : pc[p] = "idle" IN
         /\ job' \in [Operators -> Jobs]
         /\ job'[o] = [NoJob EXCEPT !.cmd = cmd, !.target = target, !.lone = alone]
         /\ \A p \in Operators \ {o} : job'[p] = [job[p] EXCEPT !.lone = FALSE]
         /\ pc[o] = "idle"
         /\ pc' = [pc EXCEPT ![o] = "peek"]
         /\ begun' \in 0..MaxCommands
         /\ settled' = settled \cup dealtWith
         /\ UNCHANGED <<letter, place, last, main>>
<1> DEFINE alone == Held = {} /\ \A p \in Operators : pc[p] = "idle"
           new == [NoJob EXCEPT !.cmd = cmd, !.target = target, !.lone = alone]
<1>1. alone \in BOOLEAN
  OBVIOUS
<1>2. new \in Jobs
  <2> HIDE DEF alone
  <2>. QED
    BY <1>1, NoJobIsAJob DEF Jobs
<1>3. job' = [Disturbed EXCEPT ![o] = new]
  BY DEF Begin
<1>4. /\ job' \in [Operators -> Jobs] /\ job'[o] = new
      /\ \A p \in Operators \ {o} : job'[p] = [job[p] EXCEPT !.lone = FALSE]
  <2> HIDE DEF new
  <2>. QED
    BY <1>2, <1>3, DisturbedType
<1>5. begun' \in 0..MaxCommands
  BY RelayctlAssumption DEF Begin, TypeOK
<1>6. /\ pc[o] = "idle" /\ pc' = [pc EXCEPT ![o] = "peek"]
      /\ settled' = settled \cup dealtWith /\ UNCHANGED <<letter, place, last, main>>
  BY DEF Begin, Goto, dlqVars
<1>. QED
  BY <1>4, <1>5, <1>6

LEMMA ReceiveEffect ==
  ASSUME TypeOK, NEW o \in Operators, Receive(o)
  PROVE  \E S \in SUBSET Letters :
           /\ S # {} /\ \A m \in S : place[m] = "visible"
           /\ place' = [m \in Letters |-> IF m \in S THEN "held" ELSE place[m]]
           /\ last' = [m \in Letters |-> IF m \in S \ Found(o) THEN o
                                         ELSE IF m \in S THEN Nobody ELSE last[m]]
           /\ job' \in [Operators -> Jobs]
           /\ job'[o] = [job[o] EXCEPT !.found =
                           [m \in Letters |-> IF m \in S \ Found(o) THEN job[o].found[m] + 1
                                              ELSE job[o].found[m]]]
           /\ Others(o)
           /\ pc[o] = "peek" /\ job[o].empty < 2
           /\ UNCHANGED <<letter, main, settled, pc, begun>>
<1>1. PICK S \in SUBSET Visible :
        /\ S # {}
        /\ place' = [m \in Letters |-> IF m \in S THEN "held" ELSE place[m]]
        /\ last' = [m \in Letters |-> IF m \in New(o, S) THEN o
                                      ELSE IF m \in S THEN Nobody ELSE last[m]]
        /\ job' = [job EXCEPT ![o].found =
                     [m \in Letters |-> IF m \in New(o, S) THEN @[m] + 1 ELSE @[m]]]
  BY DEF Receive
<1> DEFINE f == [m \in Letters |-> IF m \in S \ Found(o) THEN job[o].found[m] + 1
                                   ELSE job[o].found[m]]
<1>2. f \in [Letters -> Nat]
  BY JobFields
<1>3. job' = [job EXCEPT ![o] = [job[o] EXCEPT !.found = f]]
  BY <1>1 DEF New, TypeOK
<1>4. [job[o] EXCEPT !.found = f] \in Jobs
  BY <1>2, JobUpdates, JobFields
<1>5. /\ job' \in [Operators -> Jobs] /\ job'[o] = [job[o] EXCEPT !.found = f]
      /\ Others(o)
  <2> HIDE DEF f
  <2>. QED
    BY <1>3, <1>4, OneJob DEF Others, Receive
<1>. QED
  BY <1>1, <1>5 DEF Receive, Peeks, New, Visible

\* The steps of act: the job afterwards.
LEMMA ActEffect ==
  ASSUME TypeOK, NEW o \in Operators, NEW m \in Letters
  PROVE  /\ Keeps(o, m) =>
              /\ job' \in [Operators -> Jobs] /\ Others(o)
              /\ job'[o] = [job[o] EXCEPT !.found = Without(o, m),
                                          !.keep = job[o].keep \cup {m}]
         /\ SendsCopy(o, m) =>
              /\ job' \in [Operators -> Jobs] /\ Others(o)
              /\ job'[o] = [job[o] EXCEPT !.at = m]
         /\ AckDeletes(o, m) =>
              /\ job' \in [Operators -> Jobs] /\ Others(o)
              /\ job'[o] = [job[o] EXCEPT !.found = Without(o, m),
                                          !.moved = job[o].moved \cup {m}]
         /\ AckFails(o, m) =>
              /\ job' \in [Operators -> Jobs] /\ Others(o)
              /\ job'[o] = [job[o] EXCEPT !.found = Without(o, m),
                                          !.keep = job[o].keep \cup {m}]
<1>1. /\ job[o] \in Jobs /\ job[o].keep \cup {m} \in SUBSET Letters
      /\ job[o].moved \cup {m} \in SUBSET Letters
  BY JobFields
<1>2. m \in Found(o) => Without(o, m) \in [Letters -> Nat]
  BY WithoutType
<1>3. ASSUME Keeps(o, m)
      PROVE  /\ job' \in [Operators -> Jobs] /\ Others(o)
             /\ job'[o] = [job[o] EXCEPT !.found = Without(o, m),
                                         !.keep = job[o].keep \cup {m}]
  <2> DEFINE j == [job[o] EXCEPT !.found = Without(o, m), !.keep = job[o].keep \cup {m}]
  <2>1. job' = [job EXCEPT ![o] = j]
    BY <1>3 DEF Keeps, TypeOK
  <2>2. j \in Jobs
    BY <1>1, <1>2, <1>3, JobUpdates DEF Keeps, IsNext
  <2>. HIDE DEF j
  <2>3. /\ job' \in [Operators -> Jobs] /\ Others(o) /\ job'[o] = j
    BY <1>3, <2>1, <2>2, OneJob DEF Others, Keeps
  <2>. QED
    BY <2>3 DEF j
<1>4. ASSUME SendsCopy(o, m)
      PROVE  /\ job' \in [Operators -> Jobs] /\ Others(o)
             /\ job'[o] = [job[o] EXCEPT !.at = m]
  <2> DEFINE j == [job[o] EXCEPT !.at = m]
  <2>1. job' = [job EXCEPT ![o] = j]
    BY <1>4 DEF SendsCopy, TypeOK
  <2>2. j \in Jobs
    BY <1>1, JobUpdates
  <2>. HIDE DEF j
  <2>3. /\ job' \in [Operators -> Jobs] /\ Others(o) /\ job'[o] = j
    BY <1>4, <2>1, <2>2, OneJob DEF Others, SendsCopy, Goto, TypeOK
  <2>. QED
    BY <2>3 DEF j
<1>5. ASSUME AckDeletes(o, m)
      PROVE  /\ job' \in [Operators -> Jobs] /\ Others(o)
             /\ job'[o] = [job[o] EXCEPT !.found = Without(o, m),
                                         !.moved = job[o].moved \cup {m}]
  <2> DEFINE j == [job[o] EXCEPT !.found = Without(o, m), !.moved = job[o].moved \cup {m}]
  <2>1. job' = [job EXCEPT ![o] = j]
    BY <1>5 DEF AckDeletes, TypeOK
  <2>2. j \in Jobs
    BY <1>1, <1>2, <1>5, JobUpdates DEF AckDeletes, Acknowledges, IsNext
  <2>. HIDE DEF j
  <2>3. /\ job' \in [Operators -> Jobs] /\ Others(o) /\ job'[o] = j
    BY <1>5, <2>1, <2>2, OneJob DEF Others, AckDeletes
  <2>. QED
    BY <2>3 DEF j
<1>6. ASSUME AckFails(o, m)
      PROVE  /\ job' \in [Operators -> Jobs] /\ Others(o)
             /\ job'[o] = [job[o] EXCEPT !.found = Without(o, m),
                                         !.keep = job[o].keep \cup {m}]
  <2> DEFINE j == [job[o] EXCEPT !.found = Without(o, m), !.keep = job[o].keep \cup {m}]
  <2>1. job' = [job EXCEPT ![o] = j]
    BY <1>6 DEF AckFails, TypeOK
  <2>2. j \in Jobs
    BY <1>1, <1>2, <1>6, JobUpdates DEF AckFails, Acknowledges, IsNext
  <2>. HIDE DEF j
  <2>3. /\ job' \in [Operators -> Jobs] /\ Others(o) /\ job'[o] = j
    BY <1>6, <2>1, <2>2, OneJob DEF Others, AckFails
  <2>. QED
    BY <2>3 DEF j
<1>. QED
  BY <1>3, <1>4, <1>5, <1>6

LEMMA StepEffect ==
  ASSUME TypeOK, NEW o \in Operators
  PROVE  /\ ReceiveNothing(o) =>
              /\ job' \in [Operators -> Jobs] /\ Others(o)
              /\ job'[o] = [job[o] EXCEPT !.empty = job[o].empty + 1]
         /\ PeekEnds(o) =>
              /\ job' \in [Operators -> Jobs] /\ Others(o)
              /\ job'[o] = [job[o] EXCEPT !.empty = 0]
         /\ Deletes(o) =>
              /\ job' \in [Operators -> Jobs] /\ Others(o)
              /\ job[o].at \in Found(o)
              /\ job'[o] = [job[o] EXCEPT !.found = Without(o, job[o].at),
                                          !.moved = job[o].moved \cup {job[o].at},
                                          !.at = NoLetter]
         /\ Interrupted(o) =>
              /\ job' \in [Operators -> Jobs] /\ Others(o) /\ job'[o] = NoJob
<1>1. ASSUME ReceiveNothing(o)
      PROVE  /\ job' \in [Operators -> Jobs] /\ Others(o)
             /\ job'[o] = [job[o] EXCEPT !.empty = job[o].empty + 1]
  <2> DEFINE j == [job[o] EXCEPT !.empty = job[o].empty + 1]
  <2>1. job' = [job EXCEPT ![o] = j]
    BY <1>1 DEF ReceiveNothing, TypeOK
  <2>2. job[o].empty + 1 \in 0..2
    BY <1>1, JobFields DEF ReceiveNothing, Peeks
  <2>3. j \in Jobs
    BY <2>2, JobFields, JobUpdates
  <2>. HIDE DEF j
  <2>4. /\ job' \in [Operators -> Jobs] /\ Others(o) /\ job'[o] = j
    BY <1>1, <2>1, <2>3, OneJob DEF Others, ReceiveNothing
  <2>. QED
    BY <2>4 DEF j
<1>2. ASSUME PeekEnds(o)
      PROVE  /\ job' \in [Operators -> Jobs] /\ Others(o)
             /\ job'[o] = [job[o] EXCEPT !.empty = 0]
  <2> DEFINE j == [job[o] EXCEPT !.empty = 0]
  <2>1. job' = [job EXCEPT ![o] = j]
    BY <1>2 DEF PeekEnds, TypeOK
  <2>2. j \in Jobs
    BY 0 \in 0..2, JobFields, JobUpdates
  <2>. HIDE DEF j
  <2>3. /\ job' \in [Operators -> Jobs] /\ Others(o) /\ job'[o] = j
    BY <1>2, <2>1, <2>2, OneJob DEF Others, PeekEnds, Goto, TypeOK
  <2>. QED
    BY <2>3 DEF j
<1>3. ASSUME Deletes(o)
      PROVE  /\ job' \in [Operators -> Jobs] /\ Others(o)
             /\ job[o].at \in Found(o)
             /\ job'[o] = [job[o] EXCEPT !.found = Without(o, job[o].at),
                                         !.moved = job[o].moved \cup {job[o].at},
                                         !.at = NoLetter]
  <2> DEFINE j == [job[o] EXCEPT !.found = Without(o, job[o].at),
                                 !.moved = job[o].moved \cup {job[o].at}, !.at = NoLetter]
  <2>1. job' = [job EXCEPT ![o] = j]
    BY <1>3 DEF Deletes, TypeOK
  <2>2. job[o].at \in Found(o)
    BY <1>3 DEF Deletes, TypeOK
  <2>3. /\ Without(o, job[o].at) \in [Letters -> Nat]
        /\ job[o].moved \cup {job[o].at} \in SUBSET Letters
    BY <2>2, WithoutType, JobFields
  <2>4. j \in Jobs
    BY <2>3, JobFields, JobUpdates
  <2>. HIDE DEF j
  <2>5. /\ job' \in [Operators -> Jobs] /\ Others(o) /\ job'[o] = j
    BY <1>3, <2>1, <2>4, OneJob DEF Others, Deletes, Goto, TypeOK
  <2>. QED
    BY <2>2, <2>5 DEF j
<1>4. ASSUME Interrupted(o)
      PROVE  /\ job' \in [Operators -> Jobs] /\ Others(o) /\ job'[o] = NoJob
  BY <1>4, OneJob, NoJobIsAJob DEF Interrupted, Others, Goto, TypeOK
<1>. QED
  BY <1>1, <1>2, <1>3, <1>4
-----------------------------------------------------------------------------
\* The inductive invariant.

\* A message is in the list once, and is not moved while it is in the list.
Lists(o) == /\ \A m \in Found(o) : job[o].found[m] = 1 /\ letter[m] # NoLetter
            /\ \A m \in Found(o) : m \notin job[o].moved
            /\ pc[o] = "peek" => job[o].moved = {}

\* What an ack names has been dealt with.
Acked(o) == job[o].cmd = "ack" =>
               \/ job[o].target \in settled
               \/ /\ job[o].target \in Letters
                  /\ letter[job[o].target] # NoLetter
                  /\ letter[job[o].target].ev \in settled

\* What a command left on purpose, or because ack could not delete it.
Kept(o, m) == m \in job[o].keep /\ (Stays(o, m) \/ job[o].cmd = "ack")

\* A lone command has the last receipt of all that is hidden, and has seen
\* everything or as much as it asks for.
Alone(o) ==
  /\ job[o].lone
  /\ pc[o] # "idle"
  => /\ \A p \in Operators \ {o} : pc[p] = "idle"
     /\ \A m \in Found(o) : place[m] = "held" /\ last[m] = o
     /\ pc[o] = "peek" => /\ job[o].keep = {}
                          /\ \A m \in Letters : place[m] = "held" => m \in Found(o)
                          /\ job[o].empty > 0 => Visible = {}
     /\ pc[o] # "peek" =>
          \/ ~(Cardinality(Found(o) \cup job[o].keep \cup job[o].moved) < Asked(o))
          \/ \A m \in InDlq : m \in Found(o) \/ Kept(o, m)

\* Some operator has copied the message and is about to delete it.
Marked(m) == \E o \in Operators : pc[o] = "delete" /\ job[o].at = m

Safe(e) == \/ e \in settled
           \/ main[e] > 0
           \/ \E m \in InDlq : letter[m].ev = e /\ ~Marked(m)

AllSafe == \A m \in Letters : letter[m] # NoLetter => Safe(letter[m].ev)

IInv == /\ TypeOK
        /\ \A o \in Operators : Lists(o) /\ Acked(o) /\ Alone(o)
        /\ AllSafe

LettersStay == \A m \in Letters : letter[m] # NoLetter => letter'[m] = letter[m]

LEMMA Elsewhere ==
  ASSUME IInv, NEW o \in Operators, pc[o] # "idle", Others(o), LettersStay,
         settled \subseteq settled', NEW p \in Operators \ {o}
  PROVE  Lists(p)' /\ Acked(p)' /\ Alone(p)'
<1>1. pc'[p] = pc[p] /\ job'[p] = job[p]
  BY DEF Others
<1>2. Found(p)' = Found(p) /\ Found(p) \subseteq Letters
  BY <1>1 DEF Found
<1>3. Lists(p)'
  BY <1>1, <1>2 DEF IInv, Lists, LettersStay
<1>4. Acked(p)'
  BY <1>1 DEF IInv, Acked, LettersStay
<1>5. Alone(p)'
  BY <1>1 DEF IInv, Alone
<1>. QED
  BY <1>3, <1>4, <1>5

LEMMA Idle ==
  ASSUME NEW o \in Operators, job'[o] = NoJob
  PROVE  Lists(o)' /\ Acked(o)' /\ Alone(o)'
<1>1. /\ NoJob.found = [m \in Letters |-> 0] /\ NoJob.cmd = "none" /\ NoJob.lone = FALSE
      /\ NoJob.moved = {}
  BY DEF NoJob
<1>2. Found(o)' = {}
  BY <1>1 DEF Found
<1>. QED
  BY <1>1, <1>2 DEF Lists, Acked, Alone

LEMMA MarksGo ==
  ASSUME NEW o \in Operators, Others(o), pc'[o] # "delete", NEW m, Marked(m)'
  PROVE  Marked(m)
BY DEF Marked, Others

LEMMA StaySafe ==
  ASSUME IInv, TypeOK', settled \subseteq settled',
         \A m \in Letters, e \in Events :
            letter'[m] # NoLetter /\ letter'[m].ev = e => letter'[m] = letter[m] \/ Safe(e)',
         \A e \in Events : main[e] > 0 => Safe(e)',
         \A m \in InDlq, e \in Events :
            letter[m].ev = e /\ ~Marked(m) => \/ Safe(e)'
                                            \/ /\ place'[m] \in {"visible", "held"}
                                               /\ letter'[m] = letter[m]
                                               /\ ~Marked(m)'
  PROVE  AllSafe'
<1>1. ASSUME NEW m \in Letters, NEW e \in Events, letter'[m] # NoLetter, letter'[m].ev = e
      PROVE  Safe(e)'
  <2>1. CASE letter'[m] # letter[m]
    BY <1>1, <2>1
  <2>2. CASE letter'[m] = letter[m]
    <3>1. Safe(e)
      BY <1>1, <2>2 DEF IInv, AllSafe
    <3>2. ASSUME NEW n \in InDlq, letter[n].ev = e, ~Marked(n) PROVE Safe(e)'
      <4>1. CASE Safe(e)'
        BY <4>1
      <4>2. CASE place'[n] \in {"visible", "held"} /\ letter'[n] = letter[n] /\ ~Marked(n)'
        <5>1. n \in InDlq' /\ letter'[n].ev = e
          BY <3>2, <4>2 DEF InDlq
        <5>. QED
          BY <4>2, <5>1 DEF Safe
      <4>. QED
        BY <3>2, <4>1, <4>2
    <3>3. e \in settled => Safe(e)'
      BY DEF Safe
    <3>. QED
      BY <3>1, <3>2, <3>3 DEF Safe
  <2>. QED
    BY <2>1, <2>2
<1>2. \A m \in Letters : letter'[m] # NoLetter => letter'[m].ev \in Events
  BY DEF TypeOK
<1>. QED
  BY <1>1, <1>2 DEF AllSafe

\* The step neither adds nor takes a copy or a letter, and marks nothing.
LEMMA SameSafe ==
  ASSUME IInv, TypeOK', NEW o \in Operators, Others(o), pc'[o] # "delete",
         UNCHANGED <<letter, main>>, settled \subseteq settled',
         \A m \in InDlq : ~Marked(m) => \/ place'[m] \in {"visible", "held"}
                                      \/ letter[m].ev \in settled
  PROVE  AllSafe'
<1>1. \A m \in InDlq : ~Marked(m) => ~Marked(m)'
  BY MarksGo
<1>2. \A e \in Events : e \in settled \/ main[e] > 0 => Safe(e)'
  BY DEF Safe
<1>. QED
  BY <1>1, <1>2, StaySafe
-----------------------------------------------------------------------------
\* One lemma per operation.

LEMMA BeginStep ==
  ASSUME IInv, NEW o \in Operators, NEW cmd \in Commands,
         NEW target \in Events \cup Letters \cup {NoLetter},
         NEW dealtWith \in SUBSET Events, Begin(o, cmd, target, dealtWith),
         cmd = "ack" => \/ target \in dealtWith
                        \/ /\ target \in InDlq
                           /\ letter[target].ev \in dealtWith
  PROVE  IInv'
<1> DEFINE alone == Held = {} /\ \A p \in Operators : pc[p] = "idle"
<1>0. TypeOK
  BY DEF IInv
<1>1. /\ job' \in [Operators -> Jobs]
      /\ job'[o] = [NoJob EXCEPT !.cmd = cmd, !.target = target, !.lone = alone]
      /\ \A p \in Operators \ {o} : job'[p] = [job[p] EXCEPT !.lone = FALSE]
      /\ pc[o] = "idle"
      /\ pc' = [pc EXCEPT ![o] = "peek"]
      /\ begun' \in 0..MaxCommands
      /\ settled' = settled \cup dealtWith
      /\ UNCHANGED <<letter, place, last, main>>
  BY <1>0, BeginEffect
<1>2. \A p \in Operators \ {o} :
        /\ pc'[p] = pc[p] /\ Found(p)' = Found(p) /\ job'[p].found = job[p].found
        /\ job'[p].moved = job[p].moved /\ job'[p].at = job[p].at
        /\ job'[p].cmd = job[p].cmd /\ job'[p].target = job[p].target
        /\ job'[p].lone = FALSE
  <2>1. \A p \in Operators : job[p] \in Jobs
    BY <1>0 DEF TypeOK
  <2>2. \A p \in Operators \ {o} :
          /\ pc'[p] = pc[p] /\ job'[p].found = job[p].found
          /\ job'[p].moved = job[p].moved /\ job'[p].at = job[p].at
          /\ job'[p].cmd = job[p].cmd /\ job'[p].target = job[p].target
          /\ job'[p].lone = FALSE
    BY <1>0, <1>1, <2>1 DEF TypeOK, Jobs
  <2>. QED
    BY <2>2 DEF Found
<1>3. /\ job'[o].found = [m \in Letters |-> 0] /\ job'[o].cmd = cmd
      /\ job'[o].target = target /\ job'[o].moved = {} /\ job'[o].keep = {}
      /\ job'[o].empty = 0 /\ job'[o].lone = alone /\ pc'[o] = "peek"
  BY <1>0, <1>1 DEF NoJob, TypeOK
<1>4. Found(o)' = {}
  BY <1>3 DEF Found
<1>5. TypeOK'
  BY <1>0, <1>1, <1>2, <1>3 DEF TypeOK
<1>6. \A p \in Operators : Lists(p)'
  <2>1. Lists(o)'
    BY <1>3, <1>4 DEF Lists
  <2>2. \A p \in Operators \ {o} : Lists(p)'
    BY <1>1, <1>2 DEF IInv, Lists
  <2>. QED
    BY <2>1, <2>2
<1>7. \A p \in Operators : Acked(p)'
  <2>1. Acked(o)'
    BY <1>0, <1>1, <1>3 DEF Acked, InDlq, TypeOK
  <2>2. \A p \in Operators \ {o} : Acked(p)'
    BY <1>1, <1>2 DEF IInv, Acked
  <2>. QED
    BY <2>1, <2>2
<1>8. \A p \in Operators : Alone(p)'
  <2>1. Alone(o)'
    <3>1. ASSUME alone PROVE \A m \in Letters : place[m] # "held"
      BY <3>1 DEF Held
    <3>2. ASSUME alone PROVE \A p \in Operators \ {o} : pc'[p] = "idle"
      BY <1>2, <3>2
    <3>. HIDE DEF alone
    <3>. QED
      BY <1>1, <1>3, <1>4, <3>1, <3>2 DEF Alone
  <2>2. \A p \in Operators \ {o} : Alone(p)'
    BY <1>2 DEF Alone
  <2>. QED
    BY <2>1, <2>2
<1>9. AllSafe'
  <2>1. \A m \in Letters : Marked(m)' => Marked(m)
    BY <1>2, <1>3 DEF Marked
  <2>2. \A e \in Events : Safe(e) => Safe(e)'
    BY <1>1, <2>1 DEF Safe, InDlq
  <2>. QED
    BY <1>0, <1>1, <2>2 DEF IInv, AllSafe, TypeOK
<1>. QED
  BY <1>5, <1>6, <1>7, <1>8, <1>9 DEF IInv

LEMMA ReceiveStep ==
  ASSUME IInv, NEW o \in Operators, Receive(o)
  PROVE  IInv'
<1>0. TypeOK
  BY DEF IInv
<1>1. PICK S \in SUBSET Letters :
        /\ S # {} /\ \A m \in S : place[m] = "visible"
        /\ place' = [m \in Letters |-> IF m \in S THEN "held" ELSE place[m]]
        /\ last' = [m \in Letters |-> IF m \in S \ Found(o) THEN o
                                      ELSE IF m \in S THEN Nobody ELSE last[m]]
        /\ job' \in [Operators -> Jobs]
        /\ job'[o] = [job[o] EXCEPT !.found =
                        [m \in Letters |-> IF m \in S \ Found(o) THEN job[o].found[m] + 1
                                           ELSE job[o].found[m]]]
        /\ Others(o)
        /\ pc[o] = "peek" /\ job[o].empty < 2
        /\ UNCHANGED <<letter, main, settled, pc, begun>>
  BY <1>0, ReceiveEffect
<1>2. /\ job[o] \in Jobs /\ job[o].found \in [Letters -> Nat] /\ Found(o) \subseteq Letters
  BY <1>0, JobFields
<1>3. /\ job'[o].found = [m \in Letters |-> IF m \in S \ Found(o) THEN job[o].found[m] + 1
                                            ELSE job[o].found[m]]
      /\ job'[o].cmd = job[o].cmd /\ job'[o].target = job[o].target
      /\ job'[o].moved = job[o].moved /\ job'[o].keep = job[o].keep
      /\ job'[o].empty = job[o].empty /\ job'[o].lone = job[o].lone
      /\ job'[o].at = job[o].at
  BY <1>1, <1>2 DEF Jobs
<1>4. Found(o)' = Found(o) \cup S
  BY <1>2, <1>3 DEF Found
<1>5. TypeOK'
  <2>1. /\ place' \in [Letters -> {"unused", "visible", "held", "gone"}]
        /\ last' \in [Letters -> Operators \cup {Nobody}]
    BY <1>0, <1>1 DEF TypeOK
  <2>2. \A m \in Letters : place'[m] = "unused" <=> letter'[m] = NoLetter
    BY <1>0, <1>1 DEF TypeOK
  <2>3. \A p \in Operators : pc'[p] = "delete" => p # o /\ Found(p)' = Found(p) /\ job'[p] = job[p]
    BY <1>1 DEF Others, Found
  <2>. QED
    BY <1>0, <1>1, <2>1, <2>2, <2>3 DEF TypeOK
<1>6. Lists(o)'
  <2>1. \A m \in S : letter[m] # NoLetter
    BY <1>0, <1>1 DEF TypeOK
  <2>2. \A m \in Letters \ Found(o) : job[o].found[m] = 0
    BY <1>2 DEF Found
  <2>3. job[o].moved = {} /\ \A m \in Found(o) : job[o].found[m] = 1 /\ letter[m] # NoLetter
    BY <1>1 DEF IInv, Lists
  <2>. QED
    BY <1>1, <1>2, <1>3, <1>4, <2>1, <2>2, <2>3 DEF Lists
<1>7. Acked(o)'
  BY <1>1, <1>3 DEF IInv, Acked
<1>8. Alone(o)'
  <2> SUFFICES ASSUME job[o].lone PROVE Alone(o)'
    BY <1>3 DEF Alone
  <2>1. /\ \A p \in Operators \ {o} : pc[p] = "idle"
        /\ \A m \in Found(o) : place[m] = "held" /\ last[m] = o
        /\ job[o].keep = {}
        /\ \A m \in Letters : place[m] = "held" => m \in Found(o)
        /\ job[o].empty > 0 => Visible = {}
    BY <1>1 DEF IInv, Alone
  <2>2. S \cap Found(o) = {} /\ ~(job[o].empty > 0)
    BY <1>1, <2>1 DEF Visible
  <2>3. \A m \in Found(o)' : place'[m] = "held" /\ last'[m] = o
    BY <1>1, <1>2, <1>4, <2>1, <2>2
  <2>4. \A m \in Letters : place'[m] = "held" => m \in Found(o)'
    BY <1>1, <1>4, <2>1
  <2>. QED
    BY <1>1, <1>3, <2>1, <2>2, <2>3, <2>4 DEF Alone
<1>9. AllSafe'
  BY <1>0, <1>1, <1>5, SameSafe DEF InDlq, TypeOK
<1>10. \A p \in Operators \ {o} : Lists(p)' /\ Acked(p)' /\ Alone(p)'
  BY <1>1, Elsewhere DEF LettersStay
<1>. QED
  BY <1>5, <1>6, <1>7, <1>8, <1>9, <1>10 DEF IInv

LEMMA PeekStep ==
  ASSUME IInv, NEW o \in Operators, ReceiveNothing(o) \/ PeekEnds(o)
  PROVE  IInv'
<1>0. TypeOK
  BY DEF IInv
<1>1. /\ pc[o] = "peek" /\ UNCHANGED <<letter, place, last, main, settled, begun>>
      /\ job' \in [Operators -> Jobs] /\ Others(o)
  BY <1>0, StepEffect DEF ReceiveNothing, PeekEnds, Peeks, dlqVars
<1>2. /\ pc' \in [Operators -> {"idle", "peek", "act", "delete"}]
      /\ pc'[o] \in {"peek", "act"}
  BY <1>0 DEF ReceiveNothing, PeekEnds, Peeks, Goto, TypeOK
<1>3. job[o] \in Jobs /\ job[o].empty \in 0..2
  BY <1>0, JobFields
<1>4. /\ job'[o].found = job[o].found /\ job'[o].cmd = job[o].cmd
      /\ job'[o].target = job[o].target /\ job'[o].moved = job[o].moved
      /\ job'[o].keep = job[o].keep /\ job'[o].lone = job[o].lone
  <2>1. \E n : job'[o] = [job[o] EXCEPT !.empty = n]
    BY <1>0, StepEffect
  <2>. QED
    BY <1>3, <2>1 DEF Jobs
<1>5. Found(o)' = Found(o)
  BY <1>4 DEF Found
<1>6. TypeOK'
  <2>1. \A p \in Operators : pc'[p] = "delete" => p # o /\ Found(p)' = Found(p) /\ job'[p] = job[p]
    BY <1>1, <1>2 DEF Others, Found
  <2>. QED
    BY <1>0, <1>1, <1>2, <2>1 DEF Others, TypeOK
<1>7. Lists(o)' /\ Acked(o)'
  BY <1>1, <1>4, <1>5 DEF IInv, Lists, Acked
<1>8. Alone(o)'
  <2> SUFFICES ASSUME job[o].lone PROVE Alone(o)'
    BY <1>4 DEF Alone
  <2>1. /\ \A p \in Operators \ {o} : pc[p] = "idle"
        /\ \A m \in Found(o) : place[m] = "held" /\ last[m] = o
        /\ job[o].keep = {} /\ job[o].moved = {}
        /\ \A m \in Letters : place[m] = "held" => m \in Found(o)
        /\ job[o].empty > 0 => Visible = {}
    BY <1>1 DEF IInv, Alone, Lists
  <2>2. \A p \in Operators \ {o} : pc'[p] = "idle"
    BY <1>1, <2>1 DEF Others
  <2>3. CASE ReceiveNothing(o)
    <3>1. pc'[o] = "peek" /\ Visible = {}
      BY <1>1, <2>3 DEF ReceiveNothing
    <3>2. Visible' = Visible
      BY <1>1 DEF Visible
    <3>. QED
      BY <1>1, <1>4, <1>5, <2>1, <2>2, <3>1, <3>2 DEF Alone
  <2>4. CASE PeekEnds(o)
    <3>1. pc'[o] = "act" /\ ~Peeks(o)
      BY <1>0, <2>4 DEF PeekEnds, Goto, TypeOK
    <3>2. Found(o) = Found(o)' \cup job'[o].keep \cup job'[o].moved /\ Asked(o)' = Asked(o)
      BY <1>4, <1>5, <2>1 DEF Asked
    <3>3. CASE ~(Cardinality(Found(o)) < Asked(o))
      BY <1>1, <1>5, <2>1, <2>2, <3>1, <3>2, <3>3 DEF Alone
    <3>4. CASE ~(job[o].empty < 2)
      <4>1. Visible = {}
        BY <1>3, <2>1, <3>4
      <4>2. \A m \in InDlq' : m \in Found(o)'
        BY <1>1, <1>5, <2>1, <4>1 DEF InDlq, Visible
      <4>. QED
        BY <1>1, <1>5, <2>1, <2>2, <3>1, <4>2 DEF Alone
    <3>. QED
      BY <1>1, <3>1, <3>3, <3>4 DEF Peeks
  <2>. QED
    BY <2>3, <2>4
<1>9. AllSafe'
  BY <1>0, <1>1, <1>2, <1>6, SameSafe DEF InDlq
<1>10. \A p \in Operators \ {o} : Lists(p)' /\ Acked(p)' /\ Alone(p)'
  BY <1>1, Elsewhere DEF LettersStay
<1>. QED
  BY <1>6, <1>7, <1>8, <1>9, <1>10 DEF IInv

\* The command ends: by itself, by an error, or interrupted.
LEMMA EndStep ==
  ASSUME IInv, NEW o \in Operators, pc[o] # "idle", NEW S,
         NEW there \in [Letters -> {"unused", "visible", "held", "gone"}], Ends(o, there, S),
         \A m \in Letters : there[m] = "unused" <=> place[m] = "unused",
         \A m \in InDlq : ~Marked(m) => there[m] \in {"visible", "held"},
         main' \in [Events -> 0..MaxCopies], \A e \in Events : main'[e] >= main[e],
         last' \in [Letters -> Operators \cup {Nobody}],
         UNCHANGED <<letter, settled, begun>>
  PROVE  IInv'
<1>0. TypeOK
  BY DEF IInv
<1>1. /\ place' \in [Letters -> {"unused", "visible", "held", "gone"}]
      /\ \A m \in Letters : \/ place'[m] = there[m]
                            \/ there[m] = "held" /\ place'[m] = "visible"
      /\ job' \in [Operators -> Jobs] /\ job'[o] = NoJob
      /\ pc' = [pc EXCEPT ![o] = "idle"]
      /\ Others(o)
  BY <1>0, EndsEffect
<1>2. TypeOK'
  <2>1. \A m \in Letters : place'[m] = "unused" <=> place[m] = "unused"
    BY <1>1
  <2>2. \A p \in Operators : pc'[p] = "delete" => /\ pc[p] = "delete" /\ Found(p)' = Found(p)
                                                /\ job'[p] = job[p]
    BY <1>0, <1>1 DEF Others, Found, TypeOK
  <2>. QED
    BY <1>0, <1>1, <2>1, <2>2 DEF TypeOK
<1>3. Lists(o)' /\ Acked(o)' /\ Alone(o)'
  BY <1>1, Idle
<1>4. \A p \in Operators \ {o} : Lists(p)' /\ Acked(p)' /\ Alone(p)'
  BY <1>1, Elsewhere DEF LettersStay
<1>5. AllSafe'
  <2>1. pc'[o] # "delete"
    BY <1>0, <1>1 DEF TypeOK
  <2>2. \A m \in InDlq : ~Marked(m) => place'[m] \in {"visible", "held"} /\ ~Marked(m)'
    BY <1>1, <2>1, MarksGo DEF InDlq
  <2>3. \A e \in Events : main[e] > 0 => main'[e] > 0
    BY <1>0 DEF TypeOK
  <2>4. \A e \in Events : main[e] > 0 => Safe(e)'
    BY <2>3 DEF Safe
  <2>. QED
    BY <1>2, <2>2, <2>4, StaySafe
<1>. QED
  BY <1>2, <1>3, <1>4, <1>5 DEF IInv

LEMMA CopyType ==
  ASSUME IInv, NEW o \in Operators, NEW m \in Found(o), Copy(m)
  PROVE  /\ letter[m].ev \in Events
         /\ main' = [main EXCEPT ![letter[m].ev] = main[letter[m].ev] + 1]
         /\ main' \in [Events -> 0..MaxCopies]
         /\ \A e \in Events : main'[e] >= main[e]
<1>1. TypeOK /\ m \in Letters /\ letter[m] # NoLetter
  BY DEF IInv, Lists, Found
<1>2. letter[m].ev \in Events
  BY <1>1 DEF TypeOK
<1>3. main' = [main EXCEPT ![letter[m].ev] = main[letter[m].ev] + 1]
  BY DEF Copy
<1>4. main[letter[m].ev] < MaxCopies /\ main \in [Events -> 0..MaxCopies]
  BY <1>1 DEF Copy, TypeOK
<1>. QED
  BY <1>2, <1>3, <1>4, RelayctlAssumption

LEMMA SendFailsStep ==
  ASSUME IInv, NEW o \in Operators, NEW m \in Letters, SendFails(o, m)
  PROVE  IInv'
<1>1. main \in [Events -> 0..MaxCopies] /\ \A e \in Events : main[e] >= main[e]
  BY DEF IInv, TypeOK
<1>2. m \in Found(o) /\ pc[o] = "act"
  BY DEF SendFails, Moves, IsNext
<1>3. main' \in [Events -> 0..MaxCopies] /\ \A e \in Events : main'[e] >= main[e]
  BY <1>1, <1>2, CopyType DEF SendFails
<1>4. /\ place \in [Letters -> {"unused", "visible", "held", "gone"}]
      /\ \A n \in InDlq : place[n] \in {"visible", "held"}
      /\ last \in [Letters -> Operators \cup {Nobody}]
  BY DEF IInv, TypeOK, InDlq
<1>. QED
  BY <1>2, <1>3, <1>4, EndStep DEF SendFails

LEMMA InterruptedStep ==
  ASSUME IInv, NEW o \in Operators, Interrupted(o)
  PROVE  IInv'
<1>0. TypeOK
  BY DEF IInv
<1>1. /\ job' \in [Operators -> Jobs] /\ Others(o) /\ job'[o] = NoJob
      /\ pc[o] # "idle" /\ pc' = [pc EXCEPT ![o] = "idle"]
      /\ UNCHANGED <<letter, place, last, main, settled, begun>>
  BY <1>0, StepEffect DEF Interrupted, Goto, dlqVars
<1>2. TypeOK'
  <2>1. \A p \in Operators : pc'[p] = "delete" => /\ pc[p] = "delete" /\ Found(p)' = Found(p)
                                                /\ job'[p] = job[p]
    BY <1>0, <1>1 DEF Others, Found, TypeOK
  <2>. QED
    BY <1>0, <1>1, <2>1 DEF TypeOK
<1>3. Lists(o)' /\ Acked(o)' /\ Alone(o)'
  BY <1>1, Idle
<1>4. \A p \in Operators \ {o} : Lists(p)' /\ Acked(p)' /\ Alone(p)'
  BY <1>1, Elsewhere DEF LettersStay
<1>5. AllSafe'
  BY <1>0, <1>1, <1>2, SameSafe DEF InDlq, TypeOK
<1>. QED
  BY <1>2, <1>3, <1>4, <1>5 DEF IInv

\* The queue does something by itself: no command is alone any more.
LEMMA DisturbedEffect ==
  ASSUME IInv, job' = Disturbed, UNCHANGED pc, LettersStay, settled \subseteq settled'
  PROVE  /\ job' \in [Operators -> Jobs]
         /\ \A o \in Operators : pc[o] = "delete" => job'[o].at \in Found(o)'
         /\ \A o \in Operators : Lists(o)' /\ Acked(o)' /\ Alone(o)'
         /\ \A m \in Letters : Marked(m)' => Marked(m)
<1>0. TypeOK
  BY DEF IInv
<1>1. job' \in [Operators -> Jobs] /\ \A o \in Operators : job'[o] = [job[o] EXCEPT !.lone = FALSE]
  BY <1>0, DisturbedType
<1>2. \A o \in Operators :
        /\ job'[o].found = job[o].found /\ job'[o].moved = job[o].moved
        /\ job'[o].at = job[o].at /\ job'[o].cmd = job[o].cmd
        /\ job'[o].target = job[o].target /\ job'[o].lone = FALSE
  BY <1>0, <1>1 DEF TypeOK, Jobs
<1>3. \A o \in Operators : Found(o)' = Found(o) /\ Found(o) \subseteq Letters
  BY <1>2 DEF Found
<1>4. \A o \in Operators : pc[o] = "delete" => job'[o].at \in Found(o)'
  BY <1>0, <1>2, <1>3 DEF TypeOK
<1>5. \A o \in Operators : Lists(o)'
  BY <1>2, <1>3 DEF IInv, Lists, LettersStay
<1>6. \A o \in Operators : Acked(o)'
  BY <1>2 DEF IInv, Acked, LettersStay
<1>7. \A o \in Operators : Alone(o)'
  BY <1>2 DEF Alone
<1>8. \A m \in Letters : Marked(m)' => Marked(m)
  BY <1>2 DEF Marked
<1>. QED
  BY <1>1, <1>4, <1>5, <1>6, <1>7, <1>8

LEMMA HoldLapsesStep ==
  ASSUME IInv, NEW m \in Letters, HoldLapses(m)
  PROVE  IInv'
<1>0. TypeOK
  BY DEF IInv
<1>1. /\ place[m] = "held" /\ place' = [place EXCEPT ![m] = "visible"]
      /\ job' = Disturbed /\ LettersStay
      /\ UNCHANGED <<letter, last, main, settled, pc, begun>>
  BY DEF HoldLapses, LettersStay
<1>2. /\ job' \in [Operators -> Jobs]
      /\ \A o \in Operators : pc[o] = "delete" => job'[o].at \in Found(o)'
      /\ \A o \in Operators : Lists(o)' /\ Acked(o)' /\ Alone(o)'
      /\ \A n \in Letters : Marked(n)' => Marked(n)
  BY <1>1, DisturbedEffect
<1>3. TypeOK'
  BY <1>0, <1>1, <1>2 DEF TypeOK
<1>4. \A e \in Events : main[e] > 0 => Safe(e)'
  BY <1>1 DEF Safe
<1>5. AllSafe'
  BY <1>0, <1>1, <1>2, <1>3, <1>4, StaySafe DEF InDlq, TypeOK
<1>. QED
  BY <1>2, <1>3, <1>5 DEF IInv

LEMMA ArrivesStep ==
  ASSUME IInv, NEW e \in Events, NEW permanent \in BOOLEAN, Arrives(e, permanent),
         main' \in [Events -> 0..MaxCopies],
         \A d \in Events \ {e} : main'[d] = main[d], UNCHANGED settled
  PROVE  IInv'
<1>0. TypeOK
  BY DEF IInv
<1>1. PICK m \in Letters :
        /\ place[m] = "unused" /\ letter[m] = NoLetter
        /\ letter' = [letter EXCEPT ![m] = [ev |-> e, permanent |-> permanent]]
        /\ place' = [place EXCEPT ![m] = "visible"]
  BY <1>0, ArrivesEffect
<1>2. job' = Disturbed /\ UNCHANGED <<last, pc, begun>> /\ LettersStay
  BY <1>0, <1>1 DEF Arrives, LettersStay, TypeOK
<1>3. /\ job' \in [Operators -> Jobs]
      /\ \A o \in Operators : pc[o] = "delete" => job'[o].at \in Found(o)'
      /\ \A o \in Operators : Lists(o)' /\ Acked(o)' /\ Alone(o)'
      /\ \A n \in Letters : Marked(n)' => Marked(n)
  BY <1>2, DisturbedEffect
<1>4. [ev |-> e, permanent |-> permanent] # NoLetter
  BY RelayctlAssumption
<1>5. TypeOK'
  BY <1>0, <1>1, <1>2, <1>3, <1>4 DEF TypeOK
<1>6. ~Marked(m)'
  <2>1. ~Marked(m)
    BY <1>0, <1>1 DEF IInv, Marked, Lists, TypeOK
  <2>. QED
    BY <1>3, <2>1
<1>7. Safe(e)'
  BY <1>0, <1>1, <1>6 DEF Safe, InDlq, TypeOK
<1>8. AllSafe'
  <2>1. \A d \in Events : main[d] > 0 => Safe(d)'
    BY <1>7 DEF Safe
  <2>2. \A n \in Letters, d \in Events :
          letter'[n] # NoLetter /\ letter'[n].ev = d => letter'[n] = letter[n] \/ Safe(d)'
    BY <1>0, <1>1, <1>7 DEF TypeOK
  <2>3. \A n \in InDlq : ~Marked(n) => /\ place'[n] \in {"visible", "held"}
                                     /\ letter'[n] = letter[n]
                                     /\ ~Marked(n)'
    BY <1>0, <1>1, <1>3 DEF InDlq, TypeOK
  <2>. QED
    BY <1>5, <2>1, <2>2, <2>3, StaySafe
<1>. QED
  BY <1>3, <1>5, <1>8 DEF IInv

LEMMA WorkerStep ==
  ASSUME IInv, NEW e \in Events, Handles(e) \/ MovesToDlq(e)
  PROVE  IInv'
<1>0. TypeOK
  BY DEF IInv
<1>1. main[e] > 0 /\ main' \in {main, [main EXCEPT ![e] = main[e] - 1]}
  BY DEF Handles, MovesToDlq
<1>2. main' \in [Events -> 0..MaxCopies] /\ \A d \in Events \ {e} : main'[d] = main[d]
  BY <1>0, <1>1, RelayctlAssumption DEF TypeOK
<1>3. CASE \E permanent \in BOOLEAN : Arrives(e, permanent) /\ UNCHANGED settled
  BY <1>2, <1>3, ArrivesStep
<1>4. CASE settled' = settled \cup {e} /\ UNCHANGED <<dlqVars, opVars>>
  <2>1. UNCHANGED <<letter, place, last, pc, job, begun>>
    BY <1>4 DEF dlqVars, opVars
  <2>2. \A o \in Operators : /\ Found(o)' = Found(o) /\ Lists(o)' = Lists(o)
                            /\ Alone(o)' = Alone(o)
    BY <2>1 DEF Found, Lists, Alone, Kept, Asked, Stays, InDlq, Visible
  <2>3. \A o \in Operators : Acked(o)'
    BY <1>4, <2>1 DEF IInv, Acked
  <2>4. TypeOK'
    BY <1>0, <1>2, <1>4, <2>1, <2>2 DEF TypeOK
  <2>5. \A m : Marked(m)' = Marked(m)
    BY <2>1 DEF Marked
  <2>6. \A d \in Events : Safe(d) => Safe(d)'
    BY <1>2, <1>4, <2>1, <2>5 DEF Safe, InDlq
  <2>7. AllSafe'
    BY <1>0, <2>1, <2>6 DEF IInv, AllSafe, TypeOK
  <2>. QED
    BY <2>2, <2>3, <2>4, <2>7 DEF IInv
<1>. QED
  BY <1>3, <1>4 DEF Handles, MovesToDlq

\* The message is no longer in the list, and is kept or moved.
LEMMA Shrinks ==
  ASSUME IInv, NEW o \in Operators, NEW m \in Found(o),
         job'[o].found = Without(o, m)
  PROVE  /\ Found(o)' = Found(o) \ {m}
         /\ \A n \in Found(o)' : job'[o].found[n] = 1
<1>1. TypeOK /\ job[o].found[m] = 1
  BY DEF IInv, Lists
<1>2. /\ job'[o].found \in [Letters -> Nat] /\ job'[o].found[m] = 0
      /\ \A n \in Letters \ {m} : job'[o].found[n] = job[o].found[n]
  BY <1>1, WithoutType
<1>. QED
  BY <1>2 DEF IInv, Lists, Found

LEMMA KeepsStep ==
  ASSUME IInv, NEW o \in Operators, NEW m \in Letters, Keeps(o, m)
  PROVE  IInv'
<1>0. TypeOK
  BY DEF IInv
<1>1. /\ pc[o] = "act" /\ m \in Found(o) /\ Stays(o, m)
      /\ UNCHANGED <<letter, place, last, main, settled, pc, begun>>
      /\ job' \in [Operators -> Jobs] /\ Others(o)
  BY <1>0, ActEffect DEF Keeps, IsNext, dlqVars
<1>2. job[o] \in Jobs
  BY <1>0, JobFields
<1>3. /\ job'[o].found = Without(o, m) /\ job'[o].keep = job[o].keep \cup {m}
      /\ job'[o].moved = job[o].moved /\ job'[o].cmd = job[o].cmd
      /\ job'[o].target = job[o].target /\ job'[o].lone = job[o].lone
  <2>1. job'[o] = [job[o] EXCEPT !.found = Without(o, m), !.keep = job[o].keep \cup {m}]
    BY <1>0, ActEffect
  <2>. QED
    BY <1>2, <2>1 DEF Jobs
<1>4. Found(o)' = Found(o) \ {m} /\ \A n \in Found(o)' : job'[o].found[n] = 1
  BY <1>1, <1>3, Shrinks
<1>5. TypeOK'
  <2>1. \A p \in Operators : pc'[p] = "delete" => p # o /\ Found(p)' = Found(p) /\ job'[p] = job[p]
    BY <1>1 DEF Others, Found
  <2>. QED
    BY <1>0, <1>1, <2>1 DEF TypeOK
<1>6. Lists(o)' /\ Acked(o)'
  BY <1>1, <1>3, <1>4 DEF IInv, Lists, Acked
<1>7. Alone(o)'
  <2> SUFFICES ASSUME job[o].lone PROVE Alone(o)'
    BY <1>3 DEF Alone
  <2>1. /\ \A p \in Operators \ {o} : pc[p] = "idle"
        /\ \A n \in Found(o) : place[n] = "held" /\ last[n] = o
        /\ \/ ~(Cardinality(Found(o) \cup job[o].keep \cup job[o].moved) < Asked(o))
           \/ \A n \in InDlq : n \in Found(o) \/ Kept(o, n)
    BY <1>1 DEF IInv, Alone
  <2>2. (Found(o) \cup job[o].keep \cup job[o].moved)
          = Found(o)' \cup job'[o].keep \cup job'[o].moved
    BY <1>1, <1>3, <1>4
  <2>3. Asked(o)' = Asked(o)
    BY <1>3 DEF Asked
  <2>4. \A n \in Letters : Stays(o, n)' = Stays(o, n)
    BY <1>1, <1>3 DEF Stays
  <2>5. ASSUME \A n \in InDlq : n \in Found(o) \/ Kept(o, n)
        PROVE  \A n \in InDlq' : n \in Found(o)' \/ Kept(o, n)'
    BY <1>1, <1>3, <1>4, <2>4, <2>5 DEF InDlq, Kept
  <2>6. \/ ~(Cardinality(Found(o)' \cup job'[o].keep \cup job'[o].moved) < Asked(o)')
        \/ \A n \in InDlq' : n \in Found(o)' \/ Kept(o, n)'
    BY <2>1, <2>2, <2>3, <2>5
  <2>. QED
    BY <1>1, <1>4, <2>1, <2>6 DEF Alone
<1>8. AllSafe'
  BY <1>0, <1>1, <1>5, SameSafe DEF InDlq
<1>9. \A p \in Operators \ {o} : Lists(p)' /\ Acked(p)' /\ Alone(p)'
  BY <1>1, Elsewhere DEF LettersStay
<1>. QED
  BY <1>5, <1>6, <1>7, <1>8, <1>9 DEF IInv

LEMMA SendsCopyStep ==
  ASSUME IInv, NEW o \in Operators, NEW m \in Letters, SendsCopy(o, m)
  PROVE  IInv'
<1>0. TypeOK
  BY DEF IInv
<1>1. /\ pc[o] = "act" /\ m \in Found(o) /\ Copy(m)
      /\ UNCHANGED <<letter, place, last, settled, begun>>
      /\ pc' = [pc EXCEPT ![o] = "delete"]
      /\ job' \in [Operators -> Jobs] /\ Others(o)
  BY <1>0, ActEffect DEF SendsCopy, Moves, IsNext, Goto, dlqVars
<1>2. job[o] \in Jobs
  BY <1>0, JobFields
<1>3. /\ job'[o].found = job[o].found /\ job'[o].keep = job[o].keep /\ job'[o].at = m
      /\ job'[o].moved = job[o].moved /\ job'[o].cmd = job[o].cmd
      /\ job'[o].target = job[o].target /\ job'[o].lone = job[o].lone
  <2>1. job'[o] = [job[o] EXCEPT !.at = m]
    BY <1>0, ActEffect
  <2>. QED
    BY <1>2, <2>1 DEF Jobs
<1>4. Found(o)' = Found(o) /\ Asked(o)' = Asked(o) /\ \A n \in Letters : Stays(o, n)' = Stays(o, n)
  BY <1>1, <1>3 DEF Found, Asked, Stays
<1>5. /\ letter[m].ev \in Events
      /\ main' = [main EXCEPT ![letter[m].ev] = main[letter[m].ev] + 1]
      /\ main' \in [Events -> 0..MaxCopies]
      /\ \A e \in Events : main'[e] >= main[e]
  BY <1>1, CopyType
<1>6. TypeOK'
  <2>1. \A p \in Operators \ {o} : pc'[p] = "delete" => Found(p)' = Found(p) /\ job'[p] = job[p] /\ pc[p] = "delete"
    BY <1>1 DEF Others, Found
  <2>2. \A p \in Operators : pc'[p] = "delete" => job'[p].at \in Found(p)'
    BY <1>0, <1>1, <1>3, <1>4, <2>1 DEF TypeOK
  <2>. QED
    BY <1>0, <1>1, <1>5, <2>2 DEF TypeOK
<1>7. Lists(o)' /\ Acked(o)'
  BY <1>0, <1>1, <1>3, <1>4 DEF IInv, Lists, Acked, TypeOK
<1>8. Alone(o)'
  <2> SUFFICES ASSUME job[o].lone PROVE Alone(o)'
    BY <1>3 DEF Alone
  <2>1. /\ \A p \in Operators \ {o} : pc[p] = "idle"
        /\ \A n \in Found(o) : place[n] = "held" /\ last[n] = o
        /\ \/ ~(Cardinality(Found(o) \cup job[o].keep \cup job[o].moved) < Asked(o))
           \/ \A n \in InDlq : n \in Found(o) \/ Kept(o, n)
    BY <1>1 DEF IInv, Alone
  <2>2. pc'[o] = "delete" /\ InDlq' = InDlq /\ InDlq \subseteq Letters
    BY <1>0, <1>1 DEF InDlq, TypeOK
  <2>. QED
    BY <1>1, <1>3, <1>4, <2>1, <2>2 DEF Alone, Kept, Others
<1>9. AllSafe'
  <2>1. main'[letter[m].ev] > 0 /\ \A e \in Events : main[e] > 0 => main'[e] > 0
    BY <1>0, <1>5 DEF TypeOK
  <2>2. \A e \in Events : main[e] > 0 => Safe(e)'
    BY <2>1 DEF Safe
  <2>3. \A n \in Letters : Marked(n)' => Marked(n) \/ n = m
    BY <1>1, <1>3 DEF Marked, Others
  <2>4. \A e \in Events : e = letter[m].ev => Safe(e)'
    BY <2>1 DEF Safe
  <2>5. \A n \in InDlq, e \in Events :
          letter[n].ev = e /\ ~Marked(n) => \/ Safe(e)'
                                          \/ /\ place'[n] \in {"visible", "held"}
                                             /\ letter'[n] = letter[n]
                                             /\ ~Marked(n)'
    BY <1>1, <2>3, <2>4 DEF InDlq
  <2>. QED
    BY <1>1, <1>6, <2>2, <2>5, StaySafe
<1>10. \A p \in Operators \ {o} : Lists(p)' /\ Acked(p)' /\ Alone(p)'
  BY <1>1, Elsewhere DEF LettersStay
<1>. QED
  BY <1>6, <1>7, <1>8, <1>9, <1>10 DEF IInv

\* A delete, by redrive or by ack: for sure when nobody has received it since.
LEMMA DeletingStep ==
  ASSUME IInv, NEW o \in Operators, NEW m \in Found(o), DeleteMessage(o, m),
         pc[o] \in {"act", "delete"}, pc' = [pc EXCEPT ![o] = "act"],
         UNCHANGED <<letter, last, main, settled, begun>>,
         job' \in [Operators -> Jobs], Others(o),
         job'[o].found = Without(o, m), job'[o].moved = job[o].moved \cup {m},
         job'[o].keep = job[o].keep, job'[o].cmd = job[o].cmd,
         job'[o].target = job[o].target, job'[o].lone = job[o].lone,
         Marked(m) \/ letter[m].ev \in settled
  PROVE  IInv'
<1>0. TypeOK /\ m \in Letters
  BY DEF IInv, Found
<1>1. Found(o)' = Found(o) \ {m} /\ \A n \in Found(o)' : job'[o].found[n] = 1
  BY Shrinks
<1>2. place' = place \/ place' = [place EXCEPT ![m] = "gone"]
  BY DEF DeleteMessage
<1>3. TypeOK'
  <2>1. \A p \in Operators : pc'[p] = "delete" => /\ pc[p] = "delete" /\ Found(p)' = Found(p)
                                                /\ job'[p] = job[p]
    BY <1>0 DEF Others, Found, TypeOK
  <2>2. letter[m] # NoLetter
    BY DEF IInv, Lists
  <2>. QED
    BY <1>0, <1>2, <2>1, <2>2 DEF TypeOK
<1>4. Lists(o)' /\ Acked(o)'
  <2>1. pc'[o] = "act"
    BY <1>0 DEF TypeOK
  <2>. QED
    BY <1>1, <2>1 DEF IInv, Lists, Acked
<1>5. Alone(o)'
  <2> SUFFICES ASSUME job[o].lone PROVE Alone(o)'
    BY DEF Alone
  <2>1. /\ \A p \in Operators \ {o} : pc[p] = "idle"
        /\ \A n \in Found(o) : place[n] = "held" /\ last[n] = o
        /\ \/ ~(Cardinality(Found(o) \cup job[o].keep \cup job[o].moved) < Asked(o))
           \/ \A n \in InDlq : n \in Found(o) \/ Kept(o, n)
    BY DEF IInv, Alone
  <2>2. place' = [place EXCEPT ![m] = "gone"]
    BY <2>1 DEF DeleteMessage
  <2>3. (Found(o) \cup job[o].keep \cup job[o].moved)
          = Found(o)' \cup job'[o].keep \cup job'[o].moved
    BY <1>1
  <2>4. Asked(o)' = Asked(o) /\ \A n \in Letters : Stays(o, n)' = Stays(o, n)
    BY DEF Asked, Stays
  <2>5. InDlq' \subseteq InDlq \ {m}
    BY <1>0, <2>2 DEF InDlq, TypeOK
  <2>6. ASSUME \A n \in InDlq : n \in Found(o) \/ Kept(o, n)
        PROVE  \A n \in InDlq' : n \in Found(o)' \/ Kept(o, n)'
    BY <1>1, <2>4, <2>5, <2>6 DEF InDlq, Kept
  <2>7. \/ ~(Cardinality(Found(o)' \cup job'[o].keep \cup job'[o].moved) < Asked(o)')
        \/ \A n \in InDlq' : n \in Found(o)' \/ Kept(o, n)'
    BY <2>1, <2>3, <2>4, <2>6
  <2>8. \A n \in Found(o)' : place'[n] = "held" /\ last'[n] = o
    BY <1>0, <1>1, <2>1, <2>2 DEF Found, TypeOK
  <2>9. pc'[o] = "act" /\ \A p \in Operators \ {o} : pc'[p] = "idle"
    BY <1>0, <2>1 DEF TypeOK
  <2>. QED
    BY <2>7, <2>8, <2>9 DEF Alone
<1>6. AllSafe'
  <2>1. pc'[o] # "delete"
    BY <1>0 DEF TypeOK
  <2>2. \A n \in InDlq : ~Marked(n) => \/ place'[n] \in {"visible", "held"}
                                     \/ letter[n].ev \in settled
    BY <1>0, <1>2 DEF InDlq, TypeOK
  <2>. QED
    BY <1>3, <2>1, <2>2, SameSafe
<1>7. pc[o] # "idle" /\ LettersStay
  BY DEF LettersStay
<1>8. \A p \in Operators \ {o} : Lists(p)' /\ Acked(p)' /\ Alone(p)'
  BY <1>7, Elsewhere
<1>. QED
  BY <1>3, <1>4, <1>5, <1>6, <1>8 DEF IInv

LEMMA DeletesStep ==
  ASSUME IInv, NEW o \in Operators, Deletes(o)
  PROVE  IInv'
<1>0. TypeOK
  BY DEF IInv
<1> DEFINE m == job[o].at
<1>1. /\ pc[o] = "delete" /\ m \in Found(o) /\ DeleteMessage(o, m)
      /\ pc' = [pc EXCEPT ![o] = "act"]
      /\ UNCHANGED <<letter, last, main, settled, begun>>
      /\ job' \in [Operators -> Jobs] /\ Others(o)
  BY <1>0, StepEffect DEF Deletes, Goto
<1>2. job'[o] = [job[o] EXCEPT !.found = Without(o, job[o].at),
                              !.moved = job[o].moved \cup {job[o].at}, !.at = NoLetter]
  BY <1>0, StepEffect
<1>3. /\ job'[o].found = Without(o, m) /\ job'[o].moved = job[o].moved \cup {m}
      /\ job'[o].keep = job[o].keep /\ job'[o].cmd = job[o].cmd
      /\ job'[o].target = job[o].target /\ job'[o].lone = job[o].lone
  BY <1>0, <1>2, JobFields DEF Jobs
<1>4. Marked(m)
  BY <1>1 DEF Marked
<1>. HIDE DEF m
<1>. QED
  BY <1>1, <1>3, <1>4, DeletingStep

LEMMA AckedIsSettled ==
  ASSUME IInv, NEW o \in Operators, NEW m \in Letters, Acknowledges(o, m)
  PROVE  letter[m].ev \in settled
<1>1. /\ m \in Found(o) /\ job[o].cmd = "ack" /\ job[o].target \in {m, letter[m].ev}
  BY DEF Acknowledges, IsNext, Stays
<1>2. letter[m].ev \in Events /\ settled \subseteq Events
  BY <1>1 DEF IInv, Lists, TypeOK
<1>. QED
  BY <1>1, <1>2, RelayctlAssumption DEF IInv, Acked

LEMMA AckDeletesStep ==
  ASSUME IInv, NEW o \in Operators, NEW m \in Letters, AckDeletes(o, m)
  PROVE  IInv'
<1>0. TypeOK
  BY DEF IInv
<1>1. /\ pc[o] = "act" /\ m \in Found(o) /\ DeleteMessage(o, m)
      /\ UNCHANGED <<letter, last, main, settled, pc, begun>>
      /\ job' \in [Operators -> Jobs] /\ Others(o)
  BY <1>0, ActEffect DEF AckDeletes, Acknowledges, IsNext
<1>2. job'[o] = [job[o] EXCEPT !.found = Without(o, m), !.moved = job[o].moved \cup {m}]
  BY <1>0, ActEffect
<1>3. /\ job'[o].found = Without(o, m) /\ job'[o].moved = job[o].moved \cup {m}
      /\ job'[o].keep = job[o].keep /\ job'[o].cmd = job[o].cmd
      /\ job'[o].target = job[o].target /\ job'[o].lone = job[o].lone
  BY <1>0, <1>2, JobFields DEF Jobs
<1>4. letter[m].ev \in settled
  BY AckedIsSettled DEF AckDeletes
<1>5. pc' = [pc EXCEPT ![o] = "act"]
  BY <1>0, <1>1 DEF TypeOK
<1>. QED
  BY <1>1, <1>3, <1>4, <1>5, DeletingStep

LEMMA AckFailsStep ==
  ASSUME IInv, NEW o \in Operators, NEW m \in Letters, AckFails(o, m)
  PROVE  IInv'
<1>0. TypeOK
  BY DEF IInv
<1>1. /\ pc[o] = "act" /\ m \in Found(o) /\ place' \in {place, [place EXCEPT ![m] = "gone"]}
      /\ job[o].cmd = "ack"
      /\ UNCHANGED <<letter, last, main, settled, pc, begun>>
      /\ job' \in [Operators -> Jobs] /\ Others(o)
  BY <1>0, ActEffect DEF AckFails, Acknowledges, IsNext
<1>2. job'[o] = [job[o] EXCEPT !.found = Without(o, m), !.keep = job[o].keep \cup {m}]
  BY <1>0, ActEffect
<1>3. /\ job'[o].found = Without(o, m) /\ job'[o].keep = job[o].keep \cup {m}
      /\ job'[o].moved = job[o].moved /\ job'[o].cmd = job[o].cmd
      /\ job'[o].target = job[o].target /\ job'[o].lone = job[o].lone
  BY <1>0, <1>2, JobFields DEF Jobs
<1>4. Found(o)' = Found(o) \ {m} /\ \A n \in Found(o)' : job'[o].found[n] = 1
  BY <1>1, <1>3, Shrinks
<1>5. letter[m].ev \in settled
  BY AckedIsSettled DEF AckFails
<1>6. TypeOK'
  <2>1. \A p \in Operators : pc'[p] = "delete" => p # o /\ Found(p)' = Found(p) /\ job'[p] = job[p]
    BY <1>1 DEF Others, Found
  <2>2. letter[m] # NoLetter
    BY <1>1 DEF IInv, Lists
  <2>. QED
    BY <1>0, <1>1, <2>1, <2>2 DEF TypeOK
<1>7. Lists(o)' /\ Acked(o)'
  BY <1>1, <1>3, <1>4 DEF IInv, Lists, Acked
<1>8. Alone(o)'
  <2> SUFFICES ASSUME job[o].lone PROVE Alone(o)'
    BY <1>3 DEF Alone
  <2>1. /\ \A p \in Operators \ {o} : pc[p] = "idle"
        /\ \A n \in Found(o) : place[n] = "held" /\ last[n] = o
        /\ \/ ~(Cardinality(Found(o) \cup job[o].keep \cup job[o].moved) < Asked(o))
           \/ \A n \in InDlq : n \in Found(o) \/ Kept(o, n)
    BY <1>1 DEF IInv, Alone
  <2>2. (Found(o) \cup job[o].keep \cup job[o].moved)
          = Found(o)' \cup job'[o].keep \cup job'[o].moved
    BY <1>1, <1>3, <1>4
  <2>3. Asked(o)' = Asked(o) /\ InDlq' \subseteq InDlq
    BY <1>0, <1>1, <1>3 DEF Asked, InDlq, TypeOK
  <2>4. ASSUME \A n \in InDlq : n \in Found(o) \/ Kept(o, n)
        PROVE  \A n \in InDlq' : n \in Found(o)' \/ Kept(o, n)'
    BY <1>1, <1>3, <1>4, <2>3, <2>4 DEF Kept
  <2>5. \/ ~(Cardinality(Found(o)' \cup job'[o].keep \cup job'[o].moved) < Asked(o)')
        \/ \A n \in InDlq' : n \in Found(o)' \/ Kept(o, n)'
    BY <2>1, <2>2, <2>3, <2>4
  <2>6. \A n \in Found(o)' : place'[n] = "held" /\ last'[n] = o
    BY <1>0, <1>1, <1>4, <2>1 DEF Found, TypeOK
  <2>. QED
    BY <1>1, <2>1, <2>5, <2>6 DEF Alone
<1>9. AllSafe'
  <2>1. \A n \in InDlq : \/ place'[n] \in {"visible", "held"}
                        \/ letter[n].ev \in settled
    BY <1>0, <1>1, <1>5 DEF InDlq, TypeOK
  <2>. QED
    BY <1>1, <1>6, <2>1, SameSafe
<1>10. \A p \in Operators \ {o} : Lists(p)' /\ Acked(p)' /\ Alone(p)'
  BY <1>1, Elsewhere DEF LettersStay
<1>. QED
  BY <1>6, <1>7, <1>8, <1>9, <1>10 DEF IInv

LEMMA DeleteFailsStep ==
  ASSUME IInv, NEW o \in Operators, DeleteFails(o)
  PROVE  IInv'
<1>0. TypeOK
  BY DEF IInv
<1> DEFINE m == job[o].at
<1>1. /\ pc[o] = "delete" /\ m \in Found(o) /\ m \in Letters /\ letter[m] # NoLetter
      /\ Marked(m) /\ UNCHANGED <<letter, last, main, settled, begun>>
  BY <1>0 DEF DeleteFails, TypeOK, IInv, Lists, Found, Marked
<1>2. PICK there \in {place, [place EXCEPT ![m] = "gone"]} :
        Ends(o, there, job[o].keep \cup (Found(o) \ {m}))
  BY DEF DeleteFails
<1>. HIDE DEF m
<1>3. /\ there \in [Letters -> {"unused", "visible", "held", "gone"}]
      /\ \A n \in Letters : there[n] = "unused" <=> place[n] = "unused"
      /\ \A n \in InDlq : ~Marked(n) => there[n] \in {"visible", "held"}
  BY <1>0, <1>1, <1>2 DEF TypeOK, InDlq
<1>4. /\ main' \in [Events -> 0..MaxCopies] /\ \A e \in Events : main'[e] >= main[e]
      /\ last' \in [Letters -> Operators \cup {Nobody}]
  BY <1>0, <1>1 DEF TypeOK
<1>. QED
  BY <1>1, <1>2, <1>3, <1>4, EndStep

\* What a receive took that failed is still in the queue.
LEMMA ReceiveFailsStep ==
  ASSUME IInv, NEW o \in Operators, ReceiveFails(o)
  PROVE  IInv'
<1>0. TypeOK
  BY DEF IInv
<1>1. PICK S \in SUBSET Visible :
        /\ last' = [m \in Letters |-> IF m \in S THEN Nobody ELSE last[m]]
        /\ Ends(o, [m \in Letters |-> IF m \in S THEN "held" ELSE place[m]], Found(o))
  BY DEF ReceiveFails
<1> DEFINE there == [m \in Letters |-> IF m \in S THEN "held" ELSE place[m]]
<1>2. /\ there \in [Letters -> {"unused", "visible", "held", "gone"}]
      /\ \A n \in Letters : there[n] = "unused" <=> place[n] = "unused"
      /\ \A n \in InDlq : there[n] \in {"visible", "held"}
  BY <1>0 DEF TypeOK, InDlq, Visible
<1>3. Ends(o, there, Found(o))
  BY <1>1
<1>. HIDE DEF there
<1>4. /\ main' \in [Events -> 0..MaxCopies] /\ \A e \in Events : main'[e] >= main[e]
      /\ last' \in [Letters -> Operators \cup {Nobody}]
      /\ pc[o] # "idle" /\ UNCHANGED <<letter, settled, begun>>
  BY <1>0, <1>1 DEF TypeOK, ReceiveFails, Peeks
<1>. QED
  BY <1>2, <1>3, <1>4, EndStep

LEMMA FinishesStep ==
  ASSUME IInv, NEW o \in Operators, Finishes(o)
  PROVE  IInv'
<1>1. /\ place \in [Letters -> {"unused", "visible", "held", "gone"}]
      /\ \A n \in InDlq : place[n] \in {"visible", "held"}
      /\ last \in [Letters -> Operators \cup {Nobody}]
      /\ main \in [Events -> 0..MaxCopies] /\ \A e \in Events : main[e] >= main[e]
  BY DEF IInv, TypeOK, InDlq
<1>. QED
  BY <1>1, EndStep DEF Finishes
-----------------------------------------------------------------------------
LEMMA CommandStep ==
  ASSUME IInv, NEW o \in Operators, Command(o)
  PROVE  IInv'
<1>0. TypeOK
  BY DEF IInv
<1>1. ASSUME NEW cmd \in Commands \ {"ack"}, Begin(o, cmd, NoLetter, {}) PROVE IInv'
  <2>1. NoLetter \in Events \cup Letters \cup {NoLetter} /\ {} \in SUBSET Events
    OBVIOUS
  <2>. QED
    BY <1>1, <2>1, BeginStep
<1>2. ASSUME NEW e \in Events, Begin(o, "ack", e, {e}) PROVE IInv'
  <2>1. "ack" \in Commands /\ e \in Events \cup Letters \cup {NoLetter} /\ {e} \in SUBSET Events
    BY DEF Commands
  <2>. QED
    BY <1>2, <2>1, BeginStep
<1>3. ASSUME NEW m \in InDlq, Begin(o, "ack", m, {letter[m].ev}) PROVE IInv'
  <2>1. m \in Letters /\ letter[m].ev \in Events
    BY <1>0 DEF InDlq, TypeOK
  <2>2. /\ "ack" \in Commands /\ m \in Events \cup Letters \cup {NoLetter}
        /\ {letter[m].ev} \in SUBSET Events
    BY <2>1 DEF Commands
  <2>. QED
    BY <1>3, <2>2, BeginStep
<1>4. CASE Receive(o)
  BY <1>4, ReceiveStep
<1>5. CASE ReceiveNothing(o) \/ PeekEnds(o)
  BY <1>5, PeekStep
<1>6. CASE ReceiveFails(o) \/ Finishes(o)
  BY <1>6, ReceiveFailsStep, FinishesStep
<1>7. ASSUME NEW m \in Letters, SendFails(o, m) PROVE IInv'
  BY <1>7, SendFailsStep
<1>8. ASSUME NEW m \in Letters, Keeps(o, m) \/ SendsCopy(o, m) PROVE IInv'
  BY <1>8, KeepsStep, SendsCopyStep
<1>9. ASSUME NEW m \in Letters, AckDeletes(o, m) \/ AckFails(o, m) PROVE IInv'
  BY <1>9, AckDeletesStep, AckFailsStep
<1>10. CASE Deletes(o) \/ DeleteFails(o) \/ Interrupted(o)
  BY <1>10, DeletesStep, DeleteFailsStep, InterruptedStep
<1>. QED
  BY <1>1, <1>2, <1>3, <1>4, <1>5, <1>6, <1>7, <1>8, <1>9, <1>10 DEF Command

LEMMA NextStep == IInv /\ [Next]_vars => IInv'
<1> SUFFICES ASSUME IInv, [Next]_vars PROVE IInv'
  OBVIOUS
<1>1. CASE Next
  BY <1>1, CommandStep, HoldLapsesStep, WorkerStep DEF Next
<1>2. CASE UNCHANGED vars
  <2>1. UNCHANGED <<letter, place, last, main, settled, pc, job, begun>>
    BY <1>2 DEF vars, dlqVars, opVars
  <2>2. TypeOK' = TypeOK
    BY <2>1 DEF TypeOK, Found
  <2>3. \A o \in Operators : Lists(o)' = Lists(o) /\ Acked(o)' = Acked(o) /\ Alone(o)' = Alone(o)
    BY <2>1 DEF Lists, Acked, Alone, Kept, Found, Asked, Stays, InDlq, Visible
  <2>4. \A m : Marked(m)' = Marked(m)
    BY <2>1 DEF Marked
  <2>5. \A e : Safe(e)' = Safe(e)
    BY <2>1, <2>4 DEF Safe, InDlq
  <2>6. AllSafe'
    BY <2>1, <2>5 DEF IInv, AllSafe
  <2>. QED
    BY <2>2, <2>3, <2>6 DEF IInv
<1>. QED
  BY <1>1, <1>2

LEMMA InitInv == Init => IInv
<1> SUFFICES ASSUME Init PROVE IInv
  OBVIOUS
<1>1. \A o \in Operators : job[o] = NoJob /\ pc[o] = "idle" /\ Found(o) = {}
  BY DEF Init, NoJob, Found
<1>2. TypeOK
  <2>1. job \in [Operators -> Jobs]
    BY NoJobIsAJob DEF Init
  <2>2. \A m \in DOMAIN Initially : Initially[m] # NoLetter
    BY RelayctlAssumption
  <2>3. /\ letter \in [Letters -> [ev : Events, permanent : BOOLEAN] \cup {NoLetter}]
        /\ place \in [Letters -> {"unused", "visible", "held", "gone"}]
        /\ \A m \in Letters : place[m] = "unused" <=> letter[m] = NoLetter
    BY <2>2, RelayctlAssumption DEF Init
  <2>. QED
    BY <1>1, <2>1, <2>3, RelayctlAssumption DEF Init, TypeOK
<1>3. \A o \in Operators : Lists(o) /\ Acked(o) /\ Alone(o)
  BY <1>1 DEF NoJob, Lists, Acked, Alone
<1>4. AllSafe
  <2>1. \A m \in Letters : letter[m] # NoLetter => m \in InDlq /\ ~Marked(m)
    BY <1>1 DEF Init, InDlq, Marked
  <2>. QED
    BY <2>1 DEF AllSafe, Safe
<1>. QED
  BY <1>2, <1>3, <1>4 DEF IInv

THEOREM Invariance == Spec => []IInv
BY InitInv, NextStep, PTL DEF Spec
-----------------------------------------------------------------------------
\* Every variable has its type, and a redrive deletes only what is in its list.
THEOREM TypeCorrect == Spec => []TypeOK
<1>1. IInv => TypeOK
  BY DEF IInv
<1>. QED
  BY <1>1, Invariance, PTL

\* No dead-lettered event is lost, whatever fails or is done twice
\* (dlq.go:124-125).
THEOREM NoEventIsLost == Spec => []NothingLost
<1>1. IInv => NothingLost
  BY DEF IInv, AllSafe, Safe, NothingLost, Known
<1>. QED
  BY <1>1, Invariance, PTL

\* A command that is alone with the queue overlooks nothing (dlq.go:50); what
\* an ack names and leaves is what it could not delete (dlq.go:184-190).
THEOREM LoneCommandsSweep == Spec => []LoneCommandSweeps
<1>1. ASSUME IInv, NEW o \in Operators, job[o].lone, pc[o] = "act", Found(o) = {},
             Cardinality(job[o].keep \cup job[o].moved) < Asked(o), NEW m \in InDlq
      PROVE  Stays(o, m) \/ (job[o].cmd = "ack" /\ m \in job[o].keep)
  <2>1. Found(o) \cup job[o].keep \cup job[o].moved = job[o].keep \cup job[o].moved
    BY <1>1
  <2>. QED
    BY <1>1, <2>1 DEF IInv, Alone, Kept
<1>2. IInv => LoneCommandSweeps
  BY <1>1 DEF LoneCommandSweeps
<1>. QED
  BY <1>2, Invariance, PTL

LEMMA OnlyRedriveSends ==
  ASSUME TypeOK, Next, NEW o \in Operators, pc[o] = "act", pc'[o] = "delete"
  PROVE  \E m \in Letters : SendsCopy(o, m)
<1>1. ASSUME NEW p \in Operators, NEW x, pc' = [pc EXCEPT ![p] = x] \/ pc' = pc,
             x # "delete"
      PROVE  FALSE
  BY <1>1 DEF TypeOK
<1>2. PICK p \in Operators : Command(p)
  BY DEF Next, HoldLapses, Handles, MovesToDlq, Arrives, opVars
<1>3. \E m \in Letters : SendsCopy(p, m)
  BY <1>1, <1>2 DEF Command, Begin, Receive, ReceiveNothing, ReceiveFails, PeekEnds, Keeps,
     SendFails, AckDeletes, AckFails, Deletes, DeleteFails, Finishes, Interrupted, Ends, Goto
<1>4. p = o
  BY <1>3 DEF SendsCopy, Goto, TypeOK
<1>. QED
  BY <1>3, <1>4

\* A redrive copies a message once, also when it receives it twice
\* (dlq.go:47-77).
THEOREM CopiesOnce == Spec => OncePerCommand
<1>1. ASSUME IInv, [Next]_vars, NEW o \in Operators, pc[o] = "act", pc'[o] = "delete"
      PROVE  job'[o].at \notin job[o].moved
  <2>1. Next /\ TypeOK
    BY <1>1 DEF IInv, vars, opVars
  <2>2. PICK m \in Letters : SendsCopy(o, m)
    BY <1>1, <2>1, OnlyRedriveSends
  <2>3. m \in Found(o) /\ job'[o].at = m
    BY <2>1, <2>2, ActEffect, JobFields DEF SendsCopy, Moves, IsNext, Jobs
  <2>. QED
    BY <1>1, <2>3 DEF IInv, Lists
<1>2. IInv /\ [Next]_vars =>
        [\A o \in Operators : pc[o] = "act" /\ pc'[o] = "delete"
                                  => job'[o].at \notin job[o].moved]_vars
  BY <1>1
<1>. QED
  BY <1>2, Invariance, PTL DEF Spec, OncePerCommand
=============================================================================
