---------------------------- MODULE HostedWallet ----------------------------
(***************************************************************************)
(* HostedWalletService of the operator backend (hosted-wallet/index.ts)    *)
(* for one signing key, and the tabs of the web client that hold the key   *)
(* (wallet/hosted-provider.ts).                                            *)
(*                                                                         *)
(* A request is signed over a challenge that serves once.  Onboarding is   *)
(* two calls of the participant, remembered one by one in the account's    *)
(* row; a command is prepared, shown, signed and executed, and its row     *)
(* keeps the result.  A handler waits for the participant while others     *)
(* run, and whatever it has read from its row is old by then.              *)
(***************************************************************************)
EXTENDS Naturals

CONSTANTS
  Tab,       \* tabs, one request each at a time
  Prepared,  \* bound: the prepared transactions
  Lifetime,  \* of a prepared row until it expires (120 s in the code)
  Window,    \* deduplicationPeriod of an execution (600 s)
  Keep,      \* how long an expired row is kept (one day)
  Eternity,  \* bound: the last instant
  MaxLosses  \* bound: lost answers, refusals and crashes

ASSUME HostedWalletAssumption ==
  /\ Lifetime \in Nat /\ Window \in Nat /\ Keep \in Nat /\ Eternity \in Nat
  /\ MaxLosses \in Nat
  /\ Lifetime < Window

VARIABLES
  strict,    \* does the participant refuse to allocate a party again?
  hour,      \* the time
  account,   \* the row: "none", "generated" (0), "allocated" (2) or "ready" (1)
  party,     \* on the participant: has the party been allocated?
  granted,   \* and its rights been granted to the service's user?
  prepared,  \* the rows of hosted_wallet_prepared
  request,   \* each tab's request
  connected, \* tabs whose connect() has returned
  acts,   \* how often each prepared transaction has taken effect, and when last
  loose,     \* executions the participant holds after their handler left
  losses

WalletVars == <<strict, hour, account, party, granted, prepared, request,
                connected, acts, loose, losses>>
Participant == <<party, granted, acts, loose>>

NoRequest == [action |-> "none", stage |-> "idle", id |-> 0]
NoPrepared == [since |-> 0, kept |-> FALSE, result |-> FALSE]

WalletInit ==
  /\ strict \in BOOLEAN /\ hour = 1 /\ account = "none"
  /\ party = FALSE /\ granted = FALSE
  /\ prepared = [i \in Prepared |-> NoPrepared]
  /\ request = [t \in Tab |-> NoRequest]
  /\ connected = {}
  /\ acts = [i \in Prepared |-> [times |-> 0, last |-> 0]]
  /\ loose = [i \in Prepared |-> 0]
  /\ losses = 0

\* Time passes; what the participant holds it decides within a unit.
Elapse ==
  /\ hour < Eternity /\ hour' = hour + 1
  /\ \A t \in Tab : request[t].stage # "executing"
  /\ \A i \in Prepared : loose[i] = 0
  /\ UNCHANGED <<strict, account, Participant, prepared, request, connected, losses>>

-----------------------------------------------------------------------------
(* The tab *)

Waits(t, action, i) ==
  request' = [request EXCEPT ![t] = [action |-> action, stage |-> "challenged", id |-> i]]

\* connect(): the topology first, and the allocation if it is not said to be done.
Onboard(t) ==
  /\ request[t].stage = "idle" /\ t \notin connected
  /\ Waits(t, "topology", 0)
  /\ UNCHANGED <<strict, hour, account, Participant, prepared, connected, losses>>

\* Connected, it has commands prepared and executes them, an earlier one again
\* where it did not hear of the result.
Use(t) ==
  /\ request[t].stage = "idle" /\ t \in connected
  /\ \/ Waits(t, "prepare", 0)
     \/ \E i \in Prepared : prepared[i] # NoPrepared /\ Waits(t, "execute", i)
  /\ UNCHANGED <<strict, hour, account, Participant, prepared, connected, losses>>

Leave(t) ==
  /\ request[t].stage = "idle" /\ t \in connected
  /\ connected' = connected \ {t}
  /\ UNCHANGED <<strict, hour, account, Participant, prepared, request, losses>>

\* The request is over and its tab has got an error ...
Over(t) == request' = [request EXCEPT ![t] = NoRequest]

\* ... or goes to its next await.
Goes(t, stage) == request' = [request EXCEPT ![t].stage = stage]

-----------------------------------------------------------------------------
(* request(), up to its first await: the challenge is looked up, checked and *)
(* deleted, the limits are counted, and the row of the account is read.      *)

Admitted(t, action) == request[t].stage = "challenged" /\ request[t].action = action

\* The challenge has expired, a daily limit is reached or the user declines.
TurnAway(t) ==
  /\ request[t].stage = "challenged"
  /\ losses < MaxLosses /\ losses' = losses + 1
  /\ Over(t)
  /\ UNCHANGED <<strict, hour, account, Participant, prepared, connected>>

Topology(t) ==
  /\ Admitted(t, "topology")
  /\ IF account = "ready" THEN Over(t) /\ connected' = connected \cup {t}
     ELSE /\ UNCHANGED connected
          /\ IF account = "none" THEN Goes(t, "generating") ELSE Waits(t, "allocate", 0)
  /\ UNCHANGED <<strict, hour, account, Participant, prepared, losses>>

\* The participant has generated a topology: INSERT OR IGNORE, and the client
\* goes on with whatever the row says.
Generated(t) ==
  /\ request[t].stage = "generating"
  /\ account' = IF account = "none" THEN "generated" ELSE account
  /\ IF account = "ready" THEN Over(t) /\ connected' = connected \cup {t}
     ELSE Waits(t, "allocate", 0) /\ UNCHANGED connected
  /\ UNCHANGED <<strict, hour, Participant, prepared, losses>>

\* The whole of the onboarding is done again.
BuggyResumed == "allocating"

\* Where allocate goes, from what the row says now.
Resumed == IF account = "generated" THEN "allocating" ELSE "granting"

Allocate(t) ==
  /\ Admitted(t, "allocate")
  /\ IF account = "ready" THEN Over(t) /\ connected' = connected \cup {t}
     ELSE Goes(t, Resumed) /\ UNCHANGED connected
  /\ UNCHANGED <<strict, hour, account, Participant, prepared, losses>>

\* The participant allocates the party, and the handler notes it and goes on,
\* whatever others have made of the row.
Allocated(t) ==
  /\ request[t].stage = "allocating"
  /\ strict => ~party
  /\ party' = TRUE
  /\ account' = "allocated"
  /\ Goes(t, "granting")
  /\ UNCHANGED <<strict, hour, granted, prepared, connected, acts, loose, losses>>

\* A strict one refuses to do it again.
Refused(t) ==
  /\ request[t].stage = "allocating" /\ strict /\ party
  /\ Over(t)
  /\ UNCHANGED <<strict, hour, account, Participant, prepared, connected, losses>>

Granted(t) ==
  /\ request[t].stage = "granting"
  /\ granted' = TRUE
  /\ account' = "ready"
  /\ Over(t) /\ connected' = connected \cup {t}
  /\ UNCHANGED <<strict, hour, party, prepared, acts, loose, losses>>

-----------------------------------------------------------------------------
(* Commands *)

\* Without a ready account every one is refused.
Forbid(t) ==
  /\ Admitted(t, "prepare") \/ Admitted(t, "execute")
  /\ account # "ready"
  /\ Over(t)
  /\ UNCHANGED <<strict, hour, account, Participant, prepared, connected, losses>>

Expires(i) == prepared[i].since + Lifetime

\* Rows that expired long ago go when another comes.
Purged == [i \in Prepared |->
  IF prepared[i].kept /\ Expires(i) + Keep < hour
  THEN [prepared[i] EXCEPT !.kept = FALSE] ELSE prepared[i]]

\* The participant's answer is stored under a new id, with its time.
Prepare(t) ==
  /\ Admitted(t, "prepare") /\ account = "ready"
  /\ \/ \E i \in Prepared :
          /\ prepared[i] = NoPrepared
          /\ prepared' = [Purged EXCEPT ![i] = [since |-> hour, kept |-> TRUE, result |-> FALSE]]
     \/ prepared' = prepared  \* refused, by the checks or the participant
  /\ Over(t)
  /\ UNCHANGED <<strict, hour, account, Participant, connected, losses>>

\* A row without a result may be tried at any time.
BuggyExecutable(i) == prepared[i].kept /\ ~prepared[i].result

\* A row that is there, has no result yet and has not expired is sent on.
Executable(i) == prepared[i].kept /\ ~prepared[i].result /\ ~(Expires(i) < hour)

Execute(t) ==
  /\ Admitted(t, "execute") /\ account = "ready"
  /\ IF Executable(request[t].id) THEN Goes(t, "executing") ELSE Over(t)
  /\ UNCHANGED <<strict, hour, account, Participant, prepared, connected, losses>>

\* The participant takes a command id once within the deduplication period.
Duplicate(i) == acts[i].times > 0 /\ hour < acts[i].last + Window

Applied(i) ==
  acts' = IF Duplicate(i) THEN acts
             ELSE [acts EXCEPT ![i] = [times |-> @.times + 1, last |-> hour]]

\* The participant decides and the handler goes on: the result is kept unless it
\* was a refusal.
Executed(t) ==
  LET i == request[t].id
  IN /\ request[t].stage = "executing"
     /\ Applied(i)
     /\ prepared' = IF Duplicate(i) THEN prepared ELSE [prepared EXCEPT ![i].result = TRUE]
     /\ Over(t)
     /\ UNCHANGED <<strict, hour, account, party, granted, connected, loose, losses>>

-----------------------------------------------------------------------------
(* What gets lost *)

\* The handler waits in vain: the connection breaks or the backend dies.  What
\* it asked for happened, or did not; an execution may still happen.
Lose(t) ==
  LET step == request[t].stage
      i == request[t].id
  IN /\ step \in {"generating", "allocating", "granting", "executing"}
     /\ losses < MaxLosses /\ losses' = losses + 1
     /\ Over(t)
     /\ \/ UNCHANGED Participant
        \/ /\ step = "allocating" /\ party' = TRUE
           /\ UNCHANGED <<granted, acts, loose>>
        \/ /\ step = "granting" /\ granted' = TRUE
           /\ UNCHANGED <<party, acts, loose>>
        \/ /\ step = "executing" /\ loose' = [loose EXCEPT ![i] = @ + 1]
           /\ UNCHANGED <<party, granted, acts>>
     /\ UNCHANGED <<strict, hour, account, prepared, connected>>

\* The participant gets to it.
Late(i) ==
  /\ loose[i] > 0 /\ loose' = [loose EXCEPT ![i] = @ - 1]
  /\ Applied(i)
  /\ UNCHANGED <<strict, hour, account, party, granted, prepared, request, connected, losses>>

-----------------------------------------------------------------------------
Serve(t) ==
  \/ Topology(t) \/ Generated(t) \/ Allocate(t) \/ Allocated(t) \/ Refused(t)
  \/ Granted(t) \/ Forbid(t) \/ Prepare(t) \/ Execute(t) \/ Executed(t)

WalletNext ==
  \/ Elapse
  \/ \E t \in Tab :
       Onboard(t) \/ Use(t) \/ Leave(t) \/ TurnAway(t) \/ Serve(t) \/ Lose(t)
  \/ \E i \in Prepared : Late(i)

\* A user who wants to be connected tries again; a handler that has started goes on.
WalletFairness == \A t \in Tab : WF_WalletVars(Onboard(t) \/ Serve(t))

WalletSpec == WalletInit /\ [][WalletNext]_WalletVars /\ WalletFairness

-----------------------------------------------------------------------------
\* What the user signed happens at most once, whichever tabs execute it how often
\* and whatever gets lost; a result is kept only for what happened.
ActsOnce == \A i \in Prepared :
  acts[i].times <= 1 /\ (prepared[i].result => acts[i].times = 1)

\* "Resumes a failed rights grant": onboarding that has begun and is tried again
\* comes to an account that works, and it stays so, unless an allocation was lost
\* that the participant refuses to repeat.
Works   == account = "ready" /\ party /\ granted
Wedged  == strict /\ party /\ account = "generated"
Onboards == <>[](account = "none" \/ Works \/ Wedged)
=============================================================================
