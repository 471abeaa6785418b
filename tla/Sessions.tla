------------------------------ MODULE Sessions ------------------------------
(***************************************************************************)
(* How a browser comes by a caller token: SessionService of the operator   *)
(* backend (session/index.ts) with the routes that call it, and one tab of *)
(* the web client (services/session.ts, services/api-auth.ts).             *)
(*                                                                         *)
(* A party proves itself in one of two ways: its wallet signs a challenge, *)
(* or a trade of its own settles that carries the binding of a bootstrap   *)
(* token the backend issued.  The backend keeps challenges and bootstraps  *)
(* in memory; the tokens are signed and outlive it.                        *)
(*                                                                         *)
(* Every connect starts a sign-in of its own, which is not stopped when    *)
(* the user connects as somebody else.  A hosted wallet, which gets its    *)
(* token from its account instead, is module HostedWallet.                 *)
(***************************************************************************)
EXTENDS Naturals

CONSTANTS
  Party,
  MaxConnects,  \* bound: times the tab connects
  MaxIssued,    \* bound: challenges, and bootstraps, ever issued
  Deal,        \* trades the tab starts
  MaxRestarts   \* bound: restarts of the backend

ASSUME SessionsAssumption ==
  /\ MaxConnects \in Nat /\ MaxIssued \in Nat /\ MaxRestarts \in Nat
  /\ "nobody" \notin Party

SignIn    == 1 .. MaxConnects
Nonce     == 1 .. MaxIssued
Bootstrap == 1 .. MaxIssued

VARIABLES
  challenge, \* by nonce: whom it was issued to, while it is pending
  entry,     \* by bootstrap: the record of the backend
  expired,   \* bootstraps that have run out
  signed,    \* what wallets have signed: pairs <<party, nonce>>
  tokens,    \* caller tokens issued: the subject, and the proof behind it
  tab,       \* the connected party and what sessionStorage holds
  signIn,    \* the sign-ins the tab has started
  deal,      \* the trades: whose, with which binding, how far
  connects, nonces, boots, restarts

IssuedVars   == <<tokens, nonces, boots>>
SessionsVars == <<challenge, entry, expired, signed, IssuedVars, tab, signIn,
                  deal, connects, restarts>>

NoEntry   == [status |-> "none", party |-> "nobody"]
NoToken   == "nobody"
LoggedOff == [party |-> "nobody", boot |-> 0, token |-> NoToken, crossed |-> FALSE]
NoSignIn  == [for |-> "nobody", stage |-> "none", nonce |-> 0, by |-> "nobody"]
NoDeal    == [party |-> "nobody", binding |-> 0, stage |-> "none"]

SessionsInit ==
  /\ challenge = [n \in Nonce |-> "nobody"]
  /\ entry = [b \in Bootstrap |-> NoEntry] /\ expired = {}
  /\ signed = {} /\ tokens = {}
  /\ tab = LoggedOff /\ signIn = [i \in SignIn |-> NoSignIn]
  /\ deal = [t \in Deal |-> NoDeal]
  /\ connects = 0 /\ nonces = 0 /\ boots = 0 /\ restarts = 0

-----------------------------------------------------------------------------
(* The tab *)

\* The tab is another party's now, with what it held.
BuggyCleared(p) == [tab EXCEPT !.party = p, !.crossed = FALSE]

\* Whatever was held for the party before is dropped.
Cleared(p) == [party |-> p, boot |-> 0, token |-> NoToken, crossed |-> FALSE]

Connect(p) ==
  /\ connects < MaxConnects /\ connects' = connects + 1
  /\ tab' = Cleared(p)
  /\ signIn' = [signIn EXCEPT ![connects'] =
       [for |-> p, stage |-> "bootstrap", nonce |-> 0, by |-> "nobody"]]
  /\ UNCHANGED <<challenge, entry, expired, signed, IssuedVars, deal, restarts>>

Disconnect ==
  /\ tab.party # "nobody" /\ tab' = LoggedOff
  /\ UNCHANGED <<challenge, entry, expired, signed, IssuedVars, signIn, deal,
                 connects, restarts>>

\* An answer to a call made for p brings a token: it is stored, whoever is
\* connected by now.
Stored(p, subject) ==
  tab' = [tab EXCEPT !.token = subject, !.crossed = tab.crossed \/ p # tab.party]

MovedOn(i, next) == signIn' = [signIn EXCEPT ![i].stage = next]

\* createBootstrap, and its answer; a failure skips it.
FetchBootstrap(i) ==
  /\ signIn[i].stage = "bootstrap"
  /\ \/ /\ boots < MaxIssued /\ boots' = boots + 1
        /\ entry' = [entry EXCEPT ![boots'] = [status |-> "open", party |-> "nobody"]]
        /\ tab' = [tab EXCEPT !.boot = boots']
     \/ UNCHANGED <<boots, entry, tab>>
  /\ MovedOn(i, "challenge")
  /\ UNCHANGED <<challenge, expired, signed, tokens, nonces, deal, connects, restarts>>

\* A wallet without a key to show stops here; the others ask for a challenge.
FetchChallenge(i) ==
  /\ signIn[i].stage = "challenge"
  /\ \/ /\ nonces < MaxIssued /\ nonces' = nonces + 1
        /\ challenge' = [challenge EXCEPT ![nonces'] = signIn[i].for]
        /\ signIn' = [signIn EXCEPT ![i].stage = "sign", ![i].nonce = nonces']
     \/ MovedOn(i, "done") /\ UNCHANGED <<nonces, challenge>>
  /\ UNCHANGED <<entry, expired, signed, tokens, boots, tab, deal, connects, restarts>>

\* The wallet signs with the account it has selected, or refuses.
Sign(i) ==
  /\ signIn[i].stage = "sign"
  /\ \/ \E p \in Party :
          /\ signed' = signed \cup {<<p, signIn[i].nonce>>}
          /\ signIn' = [signIn EXCEPT ![i].stage = "verify", ![i].by = p]
     \/ MovedOn(i, "done") /\ UNCHANGED signed
  /\ UNCHANGED <<challenge, entry, expired, IssuedVars, tab, deal, connects, restarts>>

-----------------------------------------------------------------------------
(* SessionService *)

\* The challenge must be pending for the party that claims it.
Pending(p, n) == challenge[n] = p

\* The key that signed is the one the party's name is the fingerprint of.
KeyFits(p, by) == by = p

\* verify: the challenge is spent before the signature is looked at, unless the
\* wallet itself says that another party signed.
Verify(i) ==
  LET p == signIn[i].for
      n == signIn[i].nonce
      spent == [challenge EXCEPT ![n] = "nobody"]
  IN /\ signIn[i].stage = "verify"
     /\ \/ /\ Pending(p, n) /\ KeyFits(p, signIn[i].by)
           /\ challenge' = spent
           /\ tokens' = tokens \cup {[sub |-> p, by |-> "signature", id |-> n]}
           /\ Stored(p, p)
        \/ /\ Pending(p, n) /\ ~KeyFits(p, signIn[i].by)
           /\ challenge' \in {challenge, spent}
           /\ UNCHANGED <<tokens, tab>>
        \/ /\ ~Pending(p, n)
           /\ UNCHANGED <<challenge, tokens, tab>>
     /\ MovedOn(i, "done")
     /\ UNCHANGED <<entry, expired, signed, nonces, boots, deal, connects, restarts>>

\* verifyBootstrap looks at the token alone: its signature and its expiry.
Unexpired(b) == b # 0 /\ b \notin expired

\* mintFromLedgerProof: the party that bootstrap b, presented with a settlement
\* that proved p under a binding, yields a token for; nobody if it yields none.
Minted(b, p, binding) ==
  IF Unexpired(b) /\ entry[b].status # "none" /\ binding = b
     /\ (entry[b].status = "open" \/ entry[b].party = p)
  THEN p ELSE NoToken

\* The request of a trade is stamped with the bootstrap the tab holds, if valid.
RequestDeal(t) ==
  /\ deal[t].stage = "none" /\ tab.party # "nobody"
  /\ deal' = [deal EXCEPT ![t] = [party |-> tab.party, stage |-> "requested",
       binding |-> IF Unexpired(tab.boot) THEN tab.boot ELSE 0]]
  /\ UNCHANGED <<challenge, entry, expired, signed, IssuedVars, tab, signIn,
                 connects, restarts>>

\* It settles: the ledger names the party that authored its allocations and the
\* binding they carry; the bootstrap presented is the one the tab holds now.
SettleDeal(t) ==
  LET b == tab.boot
      subject == Minted(b, deal[t].party, deal[t].binding)
  IN /\ deal[t].stage = "requested"
     /\ deal' = [deal EXCEPT ![t].stage = "settled"]
     /\ IF subject # NoToken
        THEN /\ tokens' = tokens \cup {[sub |-> subject, by |-> "allocation", id |-> b]}
             /\ entry' = [entry EXCEPT ![b] = [status |-> "used", party |-> subject]]
             /\ Stored(deal[t].party, subject)
        ELSE UNCHANGED <<tokens, entry, tab>>
     /\ UNCHANGED <<challenge, expired, signed, nonces, boots, signIn, connects, restarts>>

DropTrade(t) ==
  /\ deal[t].stage = "requested"
  /\ deal' = [deal EXCEPT ![t].stage = "dropped"]
  /\ UNCHANGED <<challenge, entry, expired, signed, IssuedVars, tab, signIn,
                 connects, restarts>>

\* CHALLENGE_TTL_MS and BOOTSTRAP_TTL_SECONDS pass; the sweeps forget what expired.
ExpireChallenge(n) ==
  /\ challenge[n] # "nobody"
  /\ challenge' = [challenge EXCEPT ![n] = "nobody"]
  /\ UNCHANGED <<entry, expired, signed, IssuedVars, tab, signIn, deal, connects, restarts>>

ExpireBootstrap(b) ==
  /\ b <= boots /\ b \notin expired
  /\ expired' = expired \cup {b}
  /\ entry' = [entry EXCEPT ![b] = NoEntry]
  /\ UNCHANGED <<challenge, signed, IssuedVars, tab, signIn, deal, connects, restarts>>

\* The backend restarts: the maps are gone, bootstrap tokens stay valid.
Reboot ==
  /\ restarts < MaxRestarts /\ restarts' = restarts + 1
  /\ challenge' = [n \in Nonce |-> "nobody"]
  /\ entry' = [b \in Bootstrap |-> NoEntry]
  /\ UNCHANGED <<expired, signed, IssuedVars, tab, signIn, deal, connects>>

-----------------------------------------------------------------------------
SessionsNext ==
  \/ \E p \in Party : Connect(p)
  \/ Disconnect \/ Reboot
  \/ \E i \in SignIn : FetchBootstrap(i) \/ FetchChallenge(i) \/ Sign(i) \/ Verify(i)
  \/ \E t \in Deal : RequestDeal(t) \/ SettleDeal(t) \/ DropTrade(t)
  \/ \E n \in Nonce : ExpireChallenge(n)
  \/ \E b \in Bootstrap : ExpireBootstrap(b)

SessionsSpec == SessionsInit /\ [][SessionsNext]_SessionsVars

-----------------------------------------------------------------------------
\* A token is only ever issued to a party that proved itself for it: it signed
\* that very challenge, or settled a trade bound to that very bootstrap; and
\* neither serves two parties, across restarts, expiries and retries.
Proved(k) ==
  IF k.by = "signature" THEN <<k.sub, k.id>> \in signed
  ELSE \E t \in Deal : deal[t] = [party |-> k.sub, binding |-> k.id, stage |-> "settled"]
TokenProven == \A k \in tokens :
  Proved(k) /\ \A l \in tokens : (l.by = k.by /\ l.id = k.id) => l.sub = k.sub

\* The tab acts as the party it shows: the token it holds is the connected
\* party's, unless an answer meant for another party has come in since it connected.
TabOwn == (tab.token # NoToken /\ ~tab.crossed) => tab.token = tab.party

\* Every token is its holder's by proof, and every tab presents its own party's.
TokensTrue == TokenProven /\ TabOwn
=============================================================================
