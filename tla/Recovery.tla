------------------------------- MODULE Recovery ------------------------------
(***************************************************************************)
(* Recovering the allocations of a trader's transaction.  A wallet that    *)
(* returns only an update id leaves it to the operator to find, in the     *)
(* transaction tree, which allocations were created and in which order:    *)
(* recoverCreatedAllocations over JsonApiLedger as the server deploys it,  *)
(* behind IdempotentLedger; over JsonApiLedger alone, as scripts and tests *)
(* use it; and over a driver that reports created contracts only.  What    *)
(* settles is bound by that order.                                         *)
(*                                                                         *)
(* A transaction is a sequence of commands.  Node ids grow with the        *)
(* commands, and within one from the exercise to what it creates.          *)
(***************************************************************************)
EXTENDS Naturals, Sequences, FiniteSets

CONSTANT MaxCommands  \* bound: commands of a transaction

ASSUME RecoveryAssumption == MaxCommands \in Nat

\* What a command of the wallet leaves behind: an allocation whose id its result
\* says; one whose result has another form, or names an instruction that a nested
\* exercise completes; none yet; or something else, such as an acceptance.
Outcome == {"stated", "unstated", "pending", "other"}

\* Whether an allocation is of the venue's own registry, and whether it is there
\* when the transaction ends.
CommandOf ==
  {c \in [outcome : Outcome, own : BOOLEAN, active : BOOLEAN] :
     c.outcome \in {"pending", "other"} => c.own /\ c.active}

Unanswered == << >>
Failure == <<0>>

VARIABLES
  commands,  \* the transaction, in command order
  wanted,    \* how many allocations the caller expects
  driver,    \* "deployed", "bare", or "created" if it knows no exercises
  answer     \* the allocations, as the numbers of their commands, or a failure

RecoveryVars == <<commands, wanted, driver, answer>>

RecoveryInit ==
  /\ commands \in UNION {[1 .. n -> CommandOf] : n \in 0 .. MaxCommands}
  /\ wanted \in 1 .. MaxCommands
  /\ driver \in {"deployed", "bare", "created"}
  /\ answer = Unanswered

Allocates(i) == commands[i].outcome \in {"stated", "unstated"}

\* The allocations that exercise results name, and those that are active, among
\* what the transaction created, at its own offset.
Stated == {i \in DOMAIN commands : commands[i].outcome = "stated"}
Active == {i \in DOMAIN commands : Allocates(i) /\ commands[i].active}

\* By node id: an exercise comes before what it creates, and that before the next
\* command.
NodeOf(i) == 2 * i + (IF i \in Stated THEN 0 ELSE 1)
BuggyOrdered(is) ==  \* the sort the other way round
  CHOOSE s \in [1 .. Cardinality(is) -> is] :
    \A k, l \in DOMAIN s : k < l => NodeOf(s[k]) > NodeOf(s[l])
Ordered(is) ==
  CHOOSE s \in [1 .. Cardinality(is) -> is] :
    \A k, l \in DOMAIN s : k < l => NodeOf(s[k]) < NodeOf(s[l])

\* What results name is taken for all there is if it is as many as expected; the
\* wrapper does not pass on how many that is, and then anything that is named will do.
Suffice == Stated # {} /\ (driver = "bare" => Cardinality(Stated) = wanted)
FromTree == IF Suffice THEN Ordered(Stated) ELSE Ordered(Stated \cup Active)

\* Without exercises only the venue's own template can be told.
FromCreated == Ordered({i \in DOMAIN commands : Allocates(i) /\ commands[i].own})

Recover ==
  /\ answer = Unanswered
  /\ LET found == IF driver = "created" THEN FromCreated ELSE FromTree
     IN answer' = IF Len(found) = wanted THEN found ELSE Failure
  /\ UNCHANGED <<commands, wanted, driver>>

RecoveryNext == Recover

RecoverySpec == RecoveryInit /\ [][RecoveryNext]_RecoveryVars

-----------------------------------------------------------------------------
Allocations == {i \in DOMAIN commands : Allocates(i)}

\* Where every allocation of the transaction is the caller's to expect, what is
\* recovered is all of them, in the order of the commands: the order in which the
\* settlement takes them for the legs.
RecoveredInOrder ==
  (answer \notin {Unanswered, Failure} /\ wanted = Cardinality(Allocations)) =>
    /\ {answer[k] : k \in DOMAIN answer} = Allocations
    /\ \A k, l \in DOMAIN answer : k < l => answer[k] < answer[l]
=============================================================================
