------------------------------ MODULE Relayctl -------------------------------
(***************************************************************************)
(* The operator's commands on the dead-letter queue (relayctl/ops/dlq.go): *)
(* list, redrive and ack, run by several operators at once against the     *)
(* real queue: a received message is hidden for a while, comes back when   *)
(* its hold lapses, and is deleted for sure only with its last receipt.    *)
(* Meanwhile the worker takes copies from the main queue.                  *)
(***************************************************************************)
EXTENDS Integers, FiniteSets

CONSTANTS Letters,    \* message ids, numbered in the order they are sent
          Events,
          Invalid,    \* the events that the worker refuses
          Initially,  \* what is dead-lettered at the start, letter by letter
          Operators,
          NoLetter,   \* the id is not used yet
          Nobody,     \* no operator has the last receipt
          Targets,    \* what they acknowledge: events and messages
          ListLimit,  \* how many messages list asks for
          Limit,      \* and the others
          BatchSize,  \* MaxNumberOfMessages
          MaxCopies,  \* bound: copies of an event on the main queue
          MaxCommands \* bound: commands

ASSUME RelayctlAssumption == /\ Letters \subseteq Nat
                             /\ Events \cap Letters = {}
                             /\ NoLetter \notin Events \cup Letters
                             /\ Invalid \subseteq Events
                             /\ DOMAIN Initially \subseteq Letters
                             /\ \A m \in DOMAIN Initially :
                                   Initially[m] \in [ev : Events, permanent : BOOLEAN]
                             /\ Nobody \notin Operators
                             /\ NoLetter \notin [ev : Events, permanent : BOOLEAN]
                             /\ Targets \subseteq Events \cup Letters
                             /\ ListLimit \in Nat
                             /\ Limit \in Nat
                             /\ BatchSize \in Nat \ {0}
                             /\ MaxCopies \in Nat
                             /\ MaxCommands \in Nat

VARIABLES letter,  \* letter[m]: its event, and whether the worker gave a reason
          place,   \* place[m]: "unused", "visible", "held" or "gone"
          last,    \* last[m]: the operator who can use the last receipt
          main,    \* main[e]: copies of the event on the main queue
          settled, \* events that reached the ERP, or that a human dealt with
          pc,      \* pc[o]: where the operator's command is
          job,     \* job[o]: the command and its local variables
          begun    \* commands so far

dlqVars == <<letter, place, last>>
opVars == <<pc, job, begun>>
vars == <<dlqVars, main, settled, opVars>>

\* found[m]: how often the message is in the list (0 or 1, thanks to seen).
\* at: the message being moved.  lone: nothing was hidden when it began,
\* and no hold lapsed, no letter arrived and no other command began since.
NoJob == [cmd |-> "none", target |-> NoLetter, found |-> [m \in Letters |-> 0],
          empty |-> 0, moved |-> {}, keep |-> {}, at |-> NoLetter, lone |-> FALSE]

Init == /\ letter = [m \in Letters |-> IF m \in DOMAIN Initially THEN Initially[m] ELSE NoLetter]
        /\ place = [m \in Letters |-> IF m \in DOMAIN Initially THEN "visible" ELSE "unused"]
        /\ last = [m \in Letters |-> Nobody]
        /\ main = [e \in Events |-> 0]
        /\ settled = {}
        /\ pc = [o \in Operators |-> "idle"]
        /\ job = [o \in Operators |-> NoJob]
        /\ begun = 0

Commands == {"list", "dry run", "redrive", "redrive all", "ack"}

Held == {m \in Letters : place[m] = "held"}
Visible == {m \in Letters : place[m] = "visible"}
InDlq == {m \in Letters : place[m] \in {"visible", "held"}}

Goto(o, label) == pc' = [pc EXCEPT ![o] = label]
Disturbed == [o \in Operators |-> [job[o] EXCEPT !.lone = FALSE]]
-----------------------------------------------------------------------------
\* The queues and the worker.

\* The worker, or the redrive policy, dead-letters an event: the next id.
Arrives(e, permanent) ==
    /\ \E m \in Letters : /\ place[m] = "unused"
                          /\ \A n \in Letters : place[n] = "unused" => m <= n
                          /\ letter' = [letter EXCEPT ![m] = [ev |-> e, permanent |-> permanent]]
                          /\ place' = [place EXCEPT ![m] = "visible"]
    /\ job' = Disturbed
    /\ UNCHANGED <<last, pc, begun>>

\* The worker writes a valid event and parks an invalid one; its message is
\* deleted, or comes once more.
Handles(e) == /\ main[e] > 0
              /\ main' \in {main, [main EXCEPT ![e] = @ - 1]}
              /\ IF e \in Invalid THEN Arrives(e, TRUE) /\ UNCHANGED settled
                                  ELSE settled' = settled \cup {e} /\ UNCHANGED <<dlqVars, opVars>>

\* It was received too often.
MovesToDlq(e) == /\ main[e] > 0
                 /\ main' = [main EXCEPT ![e] = @ - 1]
                 /\ Arrives(e, FALSE)
                 /\ UNCHANGED settled

HoldLapses(m) == /\ place[m] = "held"
                 /\ place' = [place EXCEPT ![m] = "visible"]
                 /\ job' = Disturbed
                 /\ UNCHANGED <<letter, last, main, settled, pc, begun>>

\* DeleteMessage: with an old receipt it may do nothing, and still succeeds.
DeleteMessage(o, m) == \E gone \in {TRUE, last[m] = o} :
                          place' = IF gone THEN [place EXCEPT ![m] = "gone"] ELSE place
-----------------------------------------------------------------------------
\* The commands.

\* ack names a message or an event; a human has dealt with its event.
Begin(o, cmd, target, dealtWith) ==
    /\ pc[o] = "idle"
    /\ begun < MaxCommands
    /\ begun' = begun + 1
    /\ LET alone == Held = {} /\ \A p \in Operators : pc[p] = "idle" IN
       job' = [Disturbed EXCEPT ![o] =
                 [NoJob EXCEPT !.cmd = cmd, !.target = target, !.lone = alone]]
    /\ settled' = settled \cup dealtWith
    /\ Goto(o, "peek")
    /\ UNCHANGED <<dlqVars, main>>

\* The end of a command whose last call left the messages where "there" has
\* them: it releases those of S, or some of them.
Ends(o, there, S) ==
    /\ \E released \in SUBSET {m \in S : there[m] = "held"} :
          place' = [m \in Letters |-> IF m \in released THEN "visible" ELSE there[m]]
    /\ job' = [job EXCEPT ![o] = NoJob]
    /\ Goto(o, "idle")

Found(o) == {m \in Letters : job[o].found[m] > 0}
Asked(o) == IF job[o].cmd = "list" THEN ListLimit ELSE Limit

\* Mutants: one receive is enough; empty receives are not counted.
Peeks_Once(o) == pc[o] = "peek" /\ Found(o) = {} /\ job[o].empty < 2
Peeks_Forever(o) == pc[o] = "peek" /\ Cardinality(Found(o)) < Asked(o)
Peeks(o) == pc[o] = "peek" /\ Cardinality(Found(o)) < Asked(o) /\ job[o].empty < 2

\* Mutant: seen is not looked at.
New_Any(o, S) == S
New(o, S) == S \ Found(o)

\* What was seen already is not listed again, and its new receipt is dropped.
Receive(o) ==
    /\ Peeks(o)
    /\ \E S \in SUBSET Visible :
         /\ S # {} /\ Cardinality(S) <= BatchSize
         /\ place' = [m \in Letters |-> IF m \in S THEN "held" ELSE place[m]]
         /\ last' = [m \in Letters |-> IF m \in New(o, S) THEN o
                                       ELSE IF m \in S THEN Nobody ELSE last[m]]
         /\ job' = [job EXCEPT ![o].found =
                      [m \in Letters |-> IF m \in New(o, S) THEN @[m] + 1 ELSE @[m]]]
    /\ UNCHANGED <<letter, main, settled, pc, begun>>

ReceiveNothing(o) == /\ Peeks(o)
                     /\ Visible = {}
                     /\ job' = [job EXCEPT ![o].empty = @ + 1]
                     /\ UNCHANGED <<dlqVars, main, settled, pc, begun>>

\* Nothing was received, or what was is hidden, unseen, until its hold lapses.
ReceiveFails(o) ==
    /\ Peeks(o)
    /\ \E S \in SUBSET Visible :
         /\ Cardinality(S) <= BatchSize
         /\ last' = [m \in Letters |-> IF m \in S THEN Nobody ELSE last[m]]
         /\ Ends(o, [m \in Letters |-> IF m \in S THEN "held" ELSE place[m]], Found(o))
    /\ UNCHANGED <<letter, main, settled, begun>>

PeekEnds(o) == /\ pc[o] = "peek"
               /\ ~Peeks(o)
               /\ job' = [job EXCEPT ![o].empty = 0]
               /\ Goto(o, "act")
               /\ UNCHANGED <<dlqVars, main, settled, begun>>

\* The oldest message that is left, and the list without it.
IsNext(o, m) == m \in Found(o) /\ \A n \in Found(o) : m <= n

Without(o, m) == [job[o].found EXCEPT ![m] = @ - 1]

Stays(o, m) == CASE job[o].cmd \in {"list", "dry run"} -> TRUE
                 [] job[o].cmd = "redrive" -> letter[m].permanent
                 [] job[o].cmd = "ack" -> job[o].target \notin {m, letter[m].ev}
                 [] OTHER -> FALSE

Keeps(o, m) == /\ pc[o] = "act"
               /\ IsNext(o, m)
               /\ Stays(o, m)
               /\ job' = [job EXCEPT ![o].found = Without(o, m), ![o].keep = @ \cup {m}]
               /\ UNCHANGED <<dlqVars, main, settled, pc, begun>>

Moves(o, m) == /\ pc[o] = "act"
               /\ job[o].cmd \in {"redrive", "redrive all"}
               /\ IsNext(o, m)
               /\ ~Stays(o, m)

\* A copy, as far as it goes: MaxCopies is the model's bound.
Copy(m) == /\ main[letter[m].ev] < MaxCopies
           /\ main' = [main EXCEPT ![letter[m].ev] = @ + 1]

SendsCopy(o, m) == /\ Moves(o, m)
                   /\ Copy(m)
                   /\ job' = [job EXCEPT ![o].at = m]
                   /\ Goto(o, "delete")
                   /\ UNCHANGED <<dlqVars, settled, begun>>

\* Mutant: the error is not looked at.
SendFails_Ignored(o, m) == /\ Moves(o, m)
                           /\ job' = [job EXCEPT ![o].at = m]
                           /\ Goto(o, "delete")
                           /\ UNCHANGED <<dlqVars, main, settled, begun>>

\* Nothing was sent, or it was and the reply is lost.
SendFails(o, m) == /\ Moves(o, m)
                   /\ Copy(m) \/ UNCHANGED main
                   /\ Ends(o, place, job[o].keep \cup Found(o))
                   /\ UNCHANGED <<letter, last, settled, begun>>

Deletes(o) == /\ pc[o] = "delete"
              /\ DeleteMessage(o, job[o].at)
              /\ job' = [job EXCEPT ![o].found = Without(o, job[o].at),
                                    ![o].moved = @ \cup {job[o].at}, ![o].at = NoLetter]
              /\ Goto(o, "act")
              /\ UNCHANGED <<letter, last, main, settled, begun>>

\* The copy is on the main queue already.  The message stays hidden until its
\* hold lapses; or it is gone, and only the reply is lost.
DeleteFails(o) == /\ pc[o] = "delete"
                  /\ \E there \in {place, [place EXCEPT ![job[o].at] = "gone"]} :
                        Ends(o, there, job[o].keep \cup (Found(o) \ {job[o].at}))
                  /\ UNCHANGED <<letter, last, main, settled, begun>>

Acknowledges(o, m) == pc[o] = "act" /\ job[o].cmd = "ack" /\ IsNext(o, m) /\ ~Stays(o, m)

AckDeletes(o, m) == /\ Acknowledges(o, m)
                    /\ DeleteMessage(o, m)
                    /\ job' = [job EXCEPT ![o].found = Without(o, m), ![o].moved = @ \cup {m}]
                    /\ UNCHANGED <<letter, last, main, settled, pc, begun>>

\* The message is kept; ack goes on and does not report the error.
AckFails(o, m) == /\ Acknowledges(o, m)
                  /\ place' \in {place, [place EXCEPT ![m] = "gone"]}
                  /\ job' = [job EXCEPT ![o].found = Without(o, m), ![o].keep = @ \cup {m}]
                  /\ UNCHANGED <<letter, last, main, settled, pc, begun>>

Finishes(o) == /\ pc[o] = "act"
               /\ Found(o) = {}
               /\ Ends(o, place, job[o].keep)
               /\ UNCHANGED <<letter, last, main, settled, begun>>

\* Interrupted: nothing is released.
Interrupted(o) == /\ pc[o] # "idle"
                  /\ job' = [job EXCEPT ![o] = NoJob]
                  /\ Goto(o, "idle")
                  /\ UNCHANGED <<dlqVars, main, settled, begun>>

Command(o) == \/ \E cmd \in Commands \ {"ack"} : Begin(o, cmd, NoLetter, {})
              \/ \E e \in Events \cap Targets : Begin(o, "ack", e, {e})
              \/ \E m \in InDlq \cap Targets : Begin(o, "ack", m, {letter[m].ev})
              \/ Receive(o) \/ ReceiveNothing(o) \/ ReceiveFails(o) \/ PeekEnds(o)
              \/ \E m \in Letters : \/ Keeps(o, m) \/ SendsCopy(o, m) \/ SendFails(o, m)
                                    \/ AckDeletes(o, m) \/ AckFails(o, m)
              \/ Deletes(o) \/ DeleteFails(o) \/ Finishes(o) \/ Interrupted(o)

Next == \/ \E o \in Operators : Command(o)
        \/ \E m \in Letters : HoldLapses(m)
        \/ \E e \in Events : Handles(e) \/ MovesToDlq(e)

Spec == Init /\ [][Next]_vars
-----------------------------------------------------------------------------
Jobs == [cmd : Commands \cup {"none"}, target : Events \cup Letters \cup {NoLetter},
         found : [Letters -> Nat], empty : 0..2, moved : SUBSET Letters,
         keep : SUBSET Letters, at : Letters \cup {NoLetter}, lone : BOOLEAN]

TypeOK == /\ letter \in [Letters -> [ev : Events, permanent : BOOLEAN] \cup {NoLetter}]
          /\ place \in [Letters -> {"unused", "visible", "held", "gone"}]
          /\ \A m \in Letters : place[m] = "unused" <=> letter[m] = NoLetter
          /\ last \in [Letters -> Operators \cup {Nobody}]
          /\ main \in [Events -> 0..MaxCopies]
          /\ settled \subseteq Events
          /\ pc \in [Operators -> {"idle", "peek", "act", "delete"}]
          /\ job \in [Operators -> Jobs]
          /\ begun \in 0..MaxCommands
          /\ \A o \in Operators : pc[o] = "delete" => job[o].at \in Found(o)

\* No dead-lettered event is lost, whatever send, delete or release fails, comes
\* late or is done twice by several operators: until the ERP has it or a human
\* has dealt with it, it is in one of the two queues ("Each message is deleted
\* from the DLQ only after its copy is safely on the main queue", dlq.go:124-125).
Known(e) == \/ e \in settled
            \/ main[e] > 0
            \/ \E m \in InDlq : letter[m].ev = e

NothingLost == \A m \in Letters : letter[m] # NoLetter => Known(letter[m].ev)

\* A redrive copies a message once, also when its peek takes longer than the
\* hold and receives the message again (dlq.go:47-77).
OncePerCommand ==
    [][\A o \in Operators : pc[o] = "act" /\ pc'[o] = "delete"
                               => job'[o].at \notin job[o].moved]_vars

\* A command that is alone with the queue overlooks nothing, unless there was
\* more than it asks for (dlq.go:50): a redrive leaves no transient failure, and
\* of what an ack names only that is left whose delete failed, which ack keeps
\* and does not report as acknowledged (dlq.go:184-190).
LoneCommandSweeps ==
    \A o \in Operators :
       /\ job[o].lone
       /\ pc[o] = "act"
       /\ Found(o) = {}
       /\ Cardinality(job[o].keep \cup job[o].moved) < Asked(o)
       => \A m \in InDlq : Stays(o, m) \/ (job[o].cmd = "ack" /\ m \in job[o].keep)
=============================================================================
