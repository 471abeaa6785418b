------------------------------ MODULE Authoring ------------------------------
(***************************************************************************)
(* What a trader's wallet authors for a request, and which contracts the   *)
(* browser then names to the operator: the write flows of ledger.ts,       *)
(* composeCommands, submitComposedCommands, and the submit of each         *)
(* provider.                                                               *)
(*                                                                         *)
(* A request names one allocation per registry; a wallet may take them in  *)
(* one transaction, or one after the other, and may answer with contract   *)
(* ids, with an update id, or not at all.  Several pages, or tabs, do this *)
(* at once with the same holdings, and the wallet may be switched to       *)
(* another account meanwhile.  How the holdings are chosen is module       *)
(* Funding, how an update id is resolved to several allocations is module  *)
(* Recovery.                                                               *)
(***************************************************************************)
EXTENDS Naturals, Sequences

CONSTANTS
  Page,        \* the places from which the trader acts at once
  Account,     \* the accounts the wallet can be switched between
  MaxCoins,    \* bound: holdings of an instrument
  MaxRounds,   \* bound: requests
  MaxGlitches  \* bound: answers lost, and switches of the account

ASSUME AuthoringAssumption ==
  Account # {} /\ MaxCoins \in Nat /\ MaxRounds \in Nat /\ MaxGlitches \in Nat

VARIABLES
  provider,  \* how the wallet works: "relay", "stepwise" or "own"
  signer,    \* the account it signs with
  errand,    \* what each page is doing
  made,      \* the contracts authored, in ledger order
  rounds, glitches

AuthoringVars == <<provider, signer, errand, made, rounds, glitches>>

NoCoin == <<"nothing", 0>>
NoErrand == [step |-> "away"]

AuthoringInit ==
  /\ provider \in {"relay", "stepwise", "own"} /\ signer \in Account
  /\ errand = [p \in Page |-> NoErrand]
  /\ made = << >> /\ rounds = 0 /\ glitches = 0

Glitch == glitches < MaxGlitches /\ glitches' = glitches + 1

-----------------------------------------------------------------------------
(* Requests and what is composed for them *)

Liquidity == {"add", "remove"}

\* By kind, the allocations a request names, in order, each as what it draws its
\* input from.  Those of one registry are one.
SpecsFor(k) ==
  CASE k \in {"fund", "swap"} -> {<<"first">>, <<"first", "nothing">>}
    [] k = "trade"  -> {<<"first">>, <<"first", "nothing">>, <<"nothing", "first">>}
    [] k = "add"    -> {<<"first", "second", "nothing">>}
    [] k = "remove" -> {<<"nothing", "nothing", "first">>}

FundsHoldings(e, i) == e.specs[i] # "nothing"
HoldingFor(e, i) == IF FundsHoldings(e, i) THEN e.coins[e.specs[i]] ELSE NoCoin

\* The holdings that live allocations lock, and those that settlements took.
LockedCoins == {made[i].coin : i \in {j \in DOMAIN made : made[j].is \in {"held", "spent"}}}

\* An unlocked holding for each instrument to be funded, or none that is enough.
Spendable(inst) == {c \in {inst} \X (1 .. MaxCoins) : c \notin LockedCoins}

\* An errand, for a request of that kind, of whoever is connected.
ErrandFor(k, step, s, one, two, make) ==
  [step |-> step, lp |-> k \in Liquidity, specs |-> s, coins |-> [first |-> one, second |-> two],
   make |-> make, round |-> rounds + 1, owner |-> signer, by |-> signer,
   next |-> 1, cids |-> << >>, update |-> << >>]

\* The pages read the holdings and ask the operator, who makes the request; some
\* allocation may be due at a registry of another make, which only the relay minds.
StartErrand(p) ==
  /\ errand[p].step = "away" /\ rounds < MaxRounds /\ rounds' = rounds + 1
  /\ \E k \in {"fund", "trade", "swap"} \cup Liquidity : \E s \in SpecsFor(k) :
     \E one \in Spendable("first") \cup {NoCoin}, two \in Spendable("second") \cup {NoCoin},
        make \in {"venue", "other"} :
       /\ k # "add" => two = NoCoin
       /\ make = "other" => provider = "relay"
       /\ errand' = [errand EXCEPT ![p] = ErrandFor(k, "asked", s, one, two, make)]
  /\ UNCHANGED <<provider, signer, made, glitches>>

\* An intent to place an order is created in the name of whoever signs.
StartPlacing(p) ==
  /\ errand[p].step = "away" /\ rounds < MaxRounds /\ rounds' = rounds + 1
  /\ errand' = [errand EXCEPT ![p] =
       ErrandFor("place", "signing", <<"nothing">>, NoCoin, NoCoin, "venue")]
  /\ UNCHANGED <<provider, signer, made, glitches>>

Composable(e) ==
  /\ \A i \in DOMAIN e.specs : FundsHoldings(e, i) => HoldingFor(e, i) # NoCoin
  /\ ~(provider = "own" /\ e.lp)

\* The commands are composed for the account that is connected by now.
ComposeErrand(p) ==
  /\ errand[p].step = "asked"
  /\ errand' = [errand EXCEPT ![p] =
       IF Composable(@) THEN [@ EXCEPT !.step = "signing", !.by = signer] ELSE NoErrand]
  /\ UNCHANGED <<provider, signer, made, rounds, glitches>>

-----------------------------------------------------------------------------
(* The wallet *)

\* What the next transaction of the wallet authors.
Batch(e) == IF provider = "stepwise" THEN <<e.next>> ELSE [i \in DOMAIN e.specs |-> i]

Exercise(e, i) ==
  [for |-> e.round, slot |-> i, coin |-> HoldingFor(e, i), by |-> e.by, is |-> "held"]

\* A registry takes an allocation from its owner only, and unlocked inputs.
Allocable(e) ==
  /\ e.by = e.owner
  /\ \A i \in DOMAIN Batch(e) : HoldingFor(e, Batch(e)[i]) \notin LockedCoins \ {NoCoin}

Transacts(e) == made' = made \o [i \in DOMAIN Batch(e) |-> Exercise(e, Batch(e)[i])]
NewCids(e) == [i \in DOMAIN Batch(e) |-> Len(made) + i]

SignedBy(e, cids) == [e EXCEPT !.step = "signed", !.cids = cids]
LeftTo(e, cids)   == [e EXCEPT !.step = "signed", !.update = cids]

\* The created events are searched for allocations of the venue's own registry.
FromRelay(e) ==
  IF e.make = "other" THEN {NoErrand} ELSE {SignedBy(e, NewCids(e))}

\* One command needs one request: the answer is the update id, unless the wallet
\* read the events.  Several need one each, whose contract id comes first.
FromSteps(e) ==
  IF Len(e.specs) = 1 THEN {SignedBy(e, NewCids(e)), LeftTo(e, NewCids(e))}
  ELSE {[e EXCEPT !.step = "recovering", !.update = NewCids(e)]}

\* A wallet that builds the commands answers in full, with an update id, or with
\* too little.
FromOwn(e) == {SignedBy(e, NewCids(e)), LeftTo(e, NewCids(e)), NoErrand}

AnswersOf(e) ==
  CASE provider = "relay" -> FromRelay(e)
    [] provider = "stepwise" -> FromSteps(e)
    [] provider = "own" -> FromOwn(e)

AuthorOf(p) ==
  /\ errand[p].step = "signing" /\ Allocable(errand[p])
  /\ Transacts(errand[p])
  /\ \/ \E e \in AnswersOf(errand[p]) : errand' = [errand EXCEPT ![p] = e] /\ UNCHANGED glitches
     \/ errand' = [errand EXCEPT ![p] = NoErrand] /\ Glitch
  /\ UNCHANGED <<provider, signer, rounds>>

\* Declined, refused, or not possible: what was authored before stays.
Refusal(p) ==
  /\ errand[p].step = "signing"
  /\ errand' = [errand EXCEPT ![p] = NoErrand]
  /\ UNCHANGED <<provider, signer, made, rounds, glitches>>

\* The allocation that the account authored last.
BuggyRecoveredCid(e) ==
  CHOOSE i \in DOMAIN made : made[i].by = e.by /\ \A j \in DOMAIN made : made[j].by = e.by => j <= i

\* The allocation of the transaction that the update id names.
RecoveredCid(e) == e.update[1]

\* The operator reads the transaction for the browser, which goes on with the next.
RecoverCid(p) ==
  /\ errand[p].step = "recovering"
  /\ LET e == [errand[p] EXCEPT !.cids = Append(@, RecoveredCid(errand[p])), !.update = << >>]
     IN \/ /\ errand' = [errand EXCEPT ![p] =
                IF e.next = Len(e.specs) THEN [e EXCEPT !.step = "signed"]
                ELSE [e EXCEPT !.step = "signing", !.next = @ + 1]]
           /\ UNCHANGED glitches
        \/ errand' = [errand EXCEPT ![p] = NoErrand] /\ Glitch
  /\ UNCHANGED <<provider, signer, made, rounds>>

SwitchAccount ==
  /\ Glitch /\ \E a \in Account \ {signer} : signer' = a
  /\ UNCHANGED <<provider, errand, made, rounds>>

-----------------------------------------------------------------------------
(* The operator and the ledger *)

\* Contract ids where the browser has them, otherwise those of the update id.
NamedBy(e) == IF e.cids # << >> THEN e.cids ELSE e.update

\* The settlement, or the bind or the funding of an order, consumes what it names,
\* or it is refused; the page is done either way.
SettleErrand(p) ==
  /\ errand[p].step = "signed"
  /\ LET named == {NamedBy(errand[p])[i] : i \in DOMAIN NamedBy(errand[p])}
     IN \/ /\ \A i \in named : made[i].is = "held"
           /\ made' = [i \in DOMAIN made |->
                IF i \in named THEN [made[i] EXCEPT !.is = "spent"] ELSE made[i]]
        \/ UNCHANGED made
  /\ errand' = [errand EXCEPT ![p] = NoErrand]
  /\ UNCHANGED <<provider, signer, rounds, glitches>>

\* Past settleAt, or cancelled: the holding comes back.
ReleaseMade(i) ==
  /\ made[i].is = "held"
  /\ made' = [made EXCEPT ![i].is = "free"]
  /\ UNCHANGED <<provider, signer, errand, rounds, glitches>>

AuthoringNext ==
  \/ \E p \in Page :
       \/ StartErrand(p) \/ StartPlacing(p) \/ ComposeErrand(p)
       \/ AuthorOf(p) \/ Refusal(p) \/ RecoverCid(p) \/ SettleErrand(p)
  \/ SwitchAccount
  \/ \E i \in DOMAIN made : ReleaseMade(i)

AuthoringSpec == AuthoringInit /\ [][AuthoringNext]_AuthoringVars

-----------------------------------------------------------------------------
\* What a page names to the operator is what its own request asks for: one contract
\* for each allocation, in order, authored by the request's owner and funded by the
\* holding chosen for it, however the pages, the wallet's requests and the recoveries
\* interleave.
NamesItsOwn ==
  \A p \in Page : errand[p].step = "signed" =>
    LET e == errand[p]
        named == NamedBy(e)
    IN /\ Len(named) = Len(e.specs)
       /\ \A i \in DOMAIN e.specs :
            LET m == made[named[i]]
            IN m.for = e.round /\ m.slot = i /\ m.by = e.owner /\ m.coin = HoldingFor(e, i)

\* Nothing that a request asks for is authored twice, whatever answers get lost.
AuthoredOnce ==
  \A i, j \in DOMAIN made :
    (made[i].for = made[j].for /\ made[i].slot = made[j].slot) => i = j

\* A page that acts for a request settles with what was made for it, made once.
SettlesItsOwn == NamesItsOwn /\ AuthoredOnce
=============================================================================
