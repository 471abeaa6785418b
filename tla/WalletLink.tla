----------------------------- MODULE WalletLink -----------------------------
(***************************************************************************)
(* The connection between the page and a wallet: the wallet store with its *)
(* one subscription, the picker over the wallets that were discovered, and *)
(* two kinds of provider.  "sdk" reaches several wallets through a client  *)
(* that reports when the session drops and when the user's account         *)
(* changes; "single" stands for the providers of one wallet that report    *)
(* nothing.                                                                *)
(*                                                                         *)
(* A step runs from one await to the next; wallets come, go, drop the      *)
(* session and switch accounts at any time.  The button offers nothing     *)
(* while a wallet connects, but offers Disconnect until the first one is   *)
(* done, so it may be clicked twice.                                       *)
(***************************************************************************)
EXTENDS Naturals

CONSTANTS
  MaxLinks,    \* bound: connections tried
  MaxUnlinks,  \* bound: clicks on Disconnect
  MaxTurns     \* bound: things wallets do by themselves

ASSUME WalletLinkAssumption == MaxLinks \in Nat /\ MaxUnlinks \in Nat /\ MaxTurns \in Nat

VARIABLES
  store,     \* the page: active provider, status and account
  listener,  \* the provider the store listens to, or "none"
  adapter,   \* the status and account of each provider
  wired,     \* does "sdk" keep its two listeners, and does its client call them?
  pending,   \* the wallet "sdk" is to pick
  linked,    \* the wallet its client has a session with
  main_,     \* the account each wallet has selected
  there,     \* the wallets that answer
  rows,      \* what the picker lists, when it is open
  picked,    \* the row chosen last
  linking,   \* the calls of connect
  closing,   \* the calls of disconnect
  hasty,     \* was Disconnect clicked while one was under way?
  turns

LinkVars == <<store, listener, adapter, wired, pending, linked, main_, there, rows,
              picked, linking, closing, hasty, turns>>

Provider == {"sdk", "single"}
Reached  == {"gateway", "extension", "loop"}
ProviderOf(w) == IF w = "loop" THEN "single" ELSE "sdk"
Nobody == <<"none", 0>>
Off == [status |-> "off", account |-> Nobody]
NoCall == [step |-> "none", to |-> "none"]

\* A page is loaded; a relay remembers that it was connected.
LinkInit ==
  /\ store = [active |-> "none", status |-> "off", account |-> Nobody]
  /\ listener = "none" /\ pending = "none" /\ linked = "none" /\ picked = "none"
  /\ adapter \in {[sdk |-> Off, single |-> s] :
                    s \in {Off, [status |-> "on", account |-> <<"loop", 1>>]}}
  /\ wired = [kept |-> FALSE, called |-> FALSE]
  /\ main_ = [w \in Reached |-> 1] /\ there = Reached /\ rows = {}
  /\ linking = [i \in 1 .. MaxLinks |-> NoCall] /\ closing = [i \in 1 .. MaxUnlinks |-> NoCall]
  /\ hasty = FALSE /\ turns = 0

NextCall(calls_) == {i \in DOMAIN calls_ : calls_[i] = NoCall /\ \A j \in 1 .. i - 1 : calls_[j] # NoCall}
Under(calls_) == {i \in DOMAIN calls_ : calls_[i].step \notin {"none", "done"}}
Offered == store.status \notin {"on", "busy"}

-----------------------------------------------------------------------------
(* The store *)

\* What the subscription makes of a provider's new status.
OnStatus(s, p, st, a) ==
  [active  |-> IF st \in {"off", "failed"} /\ s.active = p THEN "none" ELSE s.active,
   status  |-> st,
   account |-> IF st = "on" THEN a ELSE Nobody]

\* A provider changes its status, and whoever listens is told.
Sets(p, st, a) ==
  /\ adapter' = [adapter EXCEPT ![p] = [status |-> st, account |-> IF st = "on" THEN a ELSE Nobody]]
  /\ IF listener = p
       THEN /\ store' = OnStatus(store, p, st, a)
            /\ listener' = IF st \in {"off", "failed"} THEN "none" ELSE listener
       ELSE UNCHANGED <<store, listener>>

\* The gateway is configured and always listed; the others are as they are found.
SdkRows == {"gateway"} \cup (there \ {"loop"})
LoopRow == there \cap {"loop"}
Discovered == SdkRows \cup LoopRow

OpenPicker ==
  /\ Offered /\ rows = {} /\ rows' = Discovered
  /\ UNCHANGED <<store, listener, adapter, wired, pending, linked, main_, there, picked,
                 linking, closing, hasty, turns>>

ClosePicker ==
  /\ Offered /\ rows # {} /\ rows' = {}
  /\ UNCHANGED <<store, listener, adapter, wired, pending, linked, main_, there, picked,
                 linking, closing, hasty, turns>>

\* A row is chosen, of wallets that were there when the picker opened.  Whenever the
\* page offers to connect no provider is active, so none is disconnected first; one
\* that is connected already answers at once.
ChooseRow(w) ==
  /\ Offered /\ w \in rows /\ picked' = w
  /\ \E i \in NextCall(linking) :
       LET p == ProviderOf(w)
       IN IF p = "single" /\ adapter[p].status = "on"
          THEN /\ store' = [active |-> p, status |-> "on", account |-> adapter[p].account]
               /\ rows' = {} /\ linking' = [linking EXCEPT ![i].step = "done"]
               /\ UNCHANGED <<adapter, pending>>
          ELSE /\ store' = [active |-> p, status |-> "busy", account |-> Nobody]
               /\ adapter' = [adapter EXCEPT ![p] = [status |-> "busy", account |-> Nobody]]
               /\ pending' = IF p = "sdk" THEN w ELSE pending
               /\ linking' = [linking EXCEPT ![i] = [step |-> "linking", to |-> p]]
               /\ UNCHANGED rows
  /\ listener' = ProviderOf(w)
  /\ UNCHANGED <<wired, linked, main_, there, closing, hasty, turns>>

\* The provider has connected: its subscribers know, and so does who called it.
Connects(i, p, a) ==
  /\ adapter' = [adapter EXCEPT ![p] = [status |-> "on", account |-> a]]
  /\ store' = [store EXCEPT !.status = "on", !.account = a]
  /\ rows' = {} /\ linking' = [linking EXCEPT ![i].step = "done"]
  /\ UNCHANGED listener

\* Both the subscription and the catch block clear what they find.
Fails(i, p) ==
  /\ adapter' = [adapter EXCEPT ![p] = [status |-> "failed", account |-> Nobody]]
  /\ store' = [(IF listener = p THEN OnStatus(store, p, "failed", Nobody) ELSE store)
                 EXCEPT !.active = "none"]
  /\ listener' = "none" /\ linking' = [linking EXCEPT ![i].step = "done"]

\* Disconnect is there as long as the page shows an account.
ClickDisconnect ==
  /\ store.status = "on"
  /\ \E i \in NextCall(closing) :
       closing' = [closing EXCEPT ![i] =
         [step |-> IF store.active = "none" THEN "done" ELSE "leaving", to |-> store.active]]
  /\ hasty' = (hasty \/ Under(closing) # {})
  /\ listener' = "none"
  /\ UNCHANGED <<store, adapter, wired, pending, linked, main_, there, rows, picked,
                 linking, turns>>

-----------------------------------------------------------------------------
(* The providers *)

BuggyPickWallet(want) == IF want \in SdkRows THEN {want} ELSE {"gateway"}

\* The wallet that was asked for or none at all; without a wish the gateway is first.
PickWallet(want) == IF want = "none" THEN {"gateway"} ELSE {want} \cap SdkRows

\* The session is made; the client takes subscriptions only from now on.
SdkConnects(i) ==
  /\ linking[i] = [step |-> "linking", to |-> "sdk"]
  /\ \E w \in PickWallet(pending) \cap there : linked' = w
  /\ wired' = IF wired.kept THEN wired ELSE [kept |-> TRUE, called |-> TRUE]
  /\ linking' = [linking EXCEPT ![i].step = "reading"]
  /\ UNCHANGED <<store, listener, adapter, pending, main_, there, rows, picked, closing,
                 hasty, turns>>

AccountsRead(i) ==
  /\ linking[i].step = "reading" /\ linked # "none"
  /\ Connects(i, "sdk", <<linked, main_[linked]>>) /\ pending' = "none"
  /\ UNCHANGED <<wired, linked, main_, there, picked, closing, hasty, turns>>

\* A wallet that is gone, refuses, or has no account to show.
SdkFails(i) ==
  /\ linking[i].step \in {"linking", "reading"} /\ linking[i].to = "sdk" /\ Fails(i, "sdk")
  /\ pending' = "none"
  /\ UNCHANGED <<wired, linked, main_, there, rows, picked, closing, hasty, turns>>

SingleFails(i) ==
  /\ linking[i] = [step |-> "linking", to |-> "single"] /\ Fails(i, "single")
  /\ UNCHANGED <<wired, pending, linked, main_, there, rows, picked, closing, hasty, turns>>

SingleConnects(i) ==
  /\ linking[i] = [step |-> "linking", to |-> "single"] /\ "loop" \in there
  /\ Connects(i, "single", <<"loop", main_["loop"]>>)
  /\ UNCHANGED <<wired, pending, linked, main_, there, picked, closing, hasty, turns>>

\* The client is gone, and its subscriptions with it, or it says there was none.
SdkLeaves(i) ==
  /\ closing[i] = [step |-> "leaving", to |-> "sdk"]
  /\ closing' = [closing EXCEPT ![i].step = "tearing"]
  /\ \/ linked' = "none" /\ wired' = [wired EXCEPT !.called = FALSE]
     \/ linked = "none" /\ UNCHANGED <<linked, wired>>
  /\ UNCHANGED <<store, listener, adapter, pending, main_, there, rows, picked, linking,
                 hasty, turns>>

\* The provider is off, and the store forgets whatever it holds by now.
Left(i, p) ==
  /\ adapter' = [adapter EXCEPT ![p] = Off]
  /\ listener' = IF listener = p THEN "none" ELSE listener
  /\ store' = [active |-> "none", status |-> "off", account |-> Nobody]
  /\ closing' = [closing EXCEPT ![i].step = "done"]

TeardownEvents(i) ==
  /\ closing[i].step = "tearing" /\ Left(i, "sdk")
  /\ wired' = [kept |-> FALSE, called |-> FALSE]
  /\ UNCHANGED <<pending, linked, main_, there, rows, picked, linking, hasty, turns>>

SingleLeaves(i) ==
  /\ closing[i] = [step |-> "leaving", to |-> "single"] /\ Left(i, "single")
  /\ UNCHANGED <<wired, pending, linked, main_, there, rows, picked, linking, hasty, turns>>

-----------------------------------------------------------------------------
(* What wallets do by themselves *)

Turn == turns < MaxTurns /\ turns' = turns + 1
Told == wired.kept /\ wired.called /\ adapter["sdk"].status = "on"

AccountsChange(w) ==
  /\ Turn /\ main_' = [main_ EXCEPT ![w] = 3 - @]
  /\ IF linked = w /\ Told THEN Sets("sdk", "on", <<w, main_'[w]>>)
     ELSE UNCHANGED <<adapter, store, listener>>
  /\ UNCHANGED <<wired, pending, linked, there, rows, picked, linking, closing, hasty>>

SessionDrops ==
  /\ Turn /\ linked # "none" /\ linked' = "none"
  /\ IF Told THEN Sets("sdk", "off", Nobody) ELSE UNCHANGED <<adapter, store, listener>>
  /\ UNCHANGED <<wired, pending, main_, there, rows, picked, linking, closing, hasty>>

ComesOrGoes(w) ==
  /\ Turn /\ there' = IF w \in there THEN there \ {w} ELSE there \cup {w}
  /\ UNCHANGED <<store, listener, adapter, wired, pending, linked, main_, rows, picked,
                 linking, closing, hasty>>

LinkNext ==
  \/ OpenPicker \/ ClosePicker \/ \E w \in Reached : ChooseRow(w)
  \/ ClickDisconnect
  \/ \E i \in 1 .. MaxLinks :
       SdkFails(i) \/ SingleFails(i) \/ SdkConnects(i) \/ AccountsRead(i) \/ SingleConnects(i)
  \/ \E i \in 1 .. MaxUnlinks : SdkLeaves(i) \/ TeardownEvents(i) \/ SingleLeaves(i)
  \/ \E w \in Reached : AccountsChange(w) \/ ComesOrGoes(w)
  \/ SessionDrops

LinkSpec == LinkInit /\ [][LinkNext]_LinkVars

-----------------------------------------------------------------------------
\* Once no call is under way the page and the provider agree: who is shown is who
\* signs, the one wallet that was picked, on a subscription that still tells; and a
\* page that shows nobody listens to nobody.
Quiet == Under(linking) = {} /\ Under(closing) = {}
PageAgrees ==
  Quiet =>
    IF store.status = "on"
    THEN /\ store.active # "none" /\ listener = store.active
         /\ adapter[store.active] = [status |-> "on", account |-> store.account]
         /\ store.account[1] = picked
         /\ store.active = "sdk" => wired.kept /\ wired.called
    ELSE store.active = "none" /\ listener = "none" /\ store.account = Nobody

\* At every moment, what is handed to the wallet is signed as the account that is
\* shown, unless the page is leaving it.
SignsAsShown ==
  (store.active # "none" /\ store.account # Nobody /\ adapter[store.active].status = "on")
    => adapter[store.active].account = store.account \/ Under(closing) # {}

\* No connection is offered on top of another, and a user who clicks Disconnect once is
\* never shown an account other than the one that signs.
LinkTrue ==
  /\ Offered => store.active = "none"
  /\ hasty \/ (PageAgrees /\ SignsAsShown)
=============================================================================
