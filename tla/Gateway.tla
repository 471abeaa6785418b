------------------------------- MODULE Gateway -------------------------------
(***************************************************************************)
(* The HTTP server before the operator's services (http/index.ts): whom it *)
(* lets through to what (auth.ts, caller-auth.ts), how often               *)
(* (rate-limit.ts), what the wallet relay tells of a command it forwarded, *)
(* and what /v1/status tells of the participant.                           *)
(*                                                                         *)
(* A handler waits for the body, and then for the ledger; in between       *)
(* tokens expire, other requests take from the buckets, clocks are         *)
(* adjusted.  What a request then does is the services' business; here it  *)
(* is only known for whom it was done.                                     *)
(***************************************************************************)
EXTENDS Integers, FiniteSets

CONSTANTS
  Client,     \* parties, as callers and as subjects
  Capacity,   \* of a bucket, in requests
  PerRequest, \* ticks in which a bucket regains one request
  MaxIdle,    \* ticks after which a sweep drops a bucket
  SweepEvery, \* takes from one sweep to the next (1024)
  MaxOpen,    \* bound: public requests whose body is being read
  Retries,    \* of the relay, to read what a transaction created (4)
  MaxOffset   \* bound: the participant's ledger end

\* A bucket is full again well before a sweep may drop it: a minute and ten.
ASSUME GatewayAssumption ==
  /\ Capacity \in Nat \ {0} /\ PerRequest \in Nat \ {0} /\ MaxIdle \in Nat
  /\ MaxIdle >= Capacity * PerRequest
  /\ SweepEvery \in Nat \ {0} /\ MaxOpen \in Nat /\ Retries \in Nat \ {0}
  /\ MaxOffset \in Nat /\ "nobody" \notin Client

VARIABLES
  site,    \* which secrets and features the deployment configures
  inbound, \* the request being handled
  served,  \* what was done last, or shown, for whom and on whose word
  bucket,  \* the limiter's buckets, by handle
  takes,   \* since the last sweep
  open,    \* requests past the first bucket, their body being read
  drawn,   \* history: how far the admissions of a handle outrun its refill
  relay,   \* the wallet relay: where it is with a command, and what it replied
  landed,  \* contracts the command has created, once the ledger has taken it
  end, probe, slot, synced  \* ledger end; polls; and what /v1/status says

GatewayVars == <<site, inbound, served, bucket, takes, open, drawn, relay,
                 landed, end, probe, slot, synced>>
Limiter == <<bucket, takes, open, drawn>>
Relayed == <<relay, landed>>
Status  == <<end, probe, slot, synced>>

-----------------------------------------------------------------------------
(* The routes *)

OwnReads     == {"orders", "holdings", "balances"}
Feeds        == {"trades", "rfqs", "history"}
FetchBound   == {"rfqCancel", "rfqAccept", "bind", "fund", "cancel"}
InPath       == {"rfqCancel", "cancel"}
HostedRfq    == {"rfq", "rfqCancel", "rfqAccept"}
TradeWrites  == {"request", "settle", "abandon"}
OperatorWrites == {"relay", "match", "rfq"} \cup FetchBound \cup TradeWrites
AdminWrites  == {"pairs", "dealers", "config"}
Somebody     == Client \cup {"nobody"}

\* A request names a subject in its query or body, or a contract of the subject's;
\* its caller is whose token it carries, its bearer which of the venue's.
RequestSet ==
  [route : OwnReads \cup Feeds \cup OperatorWrites \cup AdminWrites,
   subject : Somebody, caller : Somebody, proved : Somebody, required : {"nobody"},
   bearer : {"none", "operator", "admin"}, at : {"body"}]
RequestOf == {r \in RequestSet : r.proved = r.caller}
NoInbound == [at |-> "none"]
NoService == [route |-> "none"]

-----------------------------------------------------------------------------
(* The gates *)

AdminToken(r) == site.admin /\ r.bearer = "admin"

checkAdminAuth(r) == r.route \in AdminWrites => AdminToken(r)

\* An expired token proves nobody, and without a secret nothing is proved.
callerParty(r) == IF site.binds THEN r.caller ELSE "nobody"

\* Any token passes for the venue's where none can be verified.
BuggyCallerAuthorizes(r) == r.route = "rfq" /\ r.caller # "nobody"
callerAuthorizes(r) == r.route = "rfq" /\ callerParty(r) # "nobody"

checkOperatorAuth(r) ==
  r.route \in OperatorWrites =>
    IF site.operator THEN r.bearer = "operator" ELSE site.devOpen

\* With the body: the routes that name the trader they act for in it.
checkCallerBinding(r) ==
  r.route = "rfq" /\ site.binds => callerParty(r) # "nobody" /\ callerParty(r) = r.subject

\* Reads of one party's records are that party's, or the admin's.
requireCallerForPrivateRead(r) ==
  AdminToken(r) \/ (site.binds => callerParty(r) # "nobody" /\ callerParty(r) = r.subject)
mayRead(r) ==
  IF r.subject = "nobody" THEN r.route \in Feeds /\ AdminToken(r)
  ELSE requireCallerForPrivateRead(r)

\* Routes whose subject is on the ledger ask for a caller now, and compare it later.
requireCallerForFetchBoundRoute(r) == site.binds => callerParty(r) # "nobody"

hostedRfqEnabled(r)   == r.route \in HostedRfq => site.hosted
walletRelayEnabled(r) == r.route = "relay" => site.relays

Grants(r) ==
  served' = [route |-> r.route, subject |-> r.subject, caller |-> r.proved, bearer |-> r.bearer]
Turned == served' = NoService

\* A request arrives.  What the gates refuse ends here; so does a read, whose only
\* wait is for the rows that it has been granted.  Where the path names the contract
\* the caller is asked for now, and otherwise with the body.
Receive(r) ==
  /\ inbound = NoInbound
  /\ LET passes == /\ checkAdminAuth(r) /\ (callerAuthorizes(r) \/ checkOperatorAuth(r))
                   /\ hostedRfqEnabled(r) /\ walletRelayEnabled(r)
                   /\ r.route \notin InPath \/ requireCallerForFetchBoundRoute(r)
     IN IF r.route \in OwnReads \cup Feeds
        THEN /\ inbound' = NoInbound
             /\ IF mayRead(r) THEN Grants(r) ELSE Turned
        ELSE /\ Turned
             /\ inbound' = IF ~passes THEN NoInbound
                           ELSE [r EXCEPT !.required =
                                   IF r.route \in InPath THEN callerParty(r) ELSE "nobody"]
  /\ UNCHANGED <<site, Limiter, Relayed, Status>>

\* Its body is there.  The routes that act on a contract of the subject's now fetch it.
ReadBody ==
  /\ inbound.at = "body"
  /\ LET r == inbound
         walletRelay == r.route = "relay" => r.subject \in site.allowed
     IN IF ~checkCallerBinding(r) \/ ~walletRelay THEN inbound' = NoInbound /\ Turned
        ELSE IF r.route \in InPath
        THEN Turned /\ inbound' = [r EXCEPT !.at = "fetch"]
        ELSE IF r.route \in FetchBound
        THEN /\ Turned
             /\ inbound' = IF ~requireCallerForFetchBoundRoute(r) THEN NoInbound
                           ELSE [r EXCEPT !.at = "fetch", !.required = callerParty(r)]
        ELSE inbound' = NoInbound /\ Grants(r)
  /\ UNCHANGED <<site, Limiter, Relayed, Status>>

\* The contract is there, with its trader; or it is gone.
requiredTrader(r) == r.required # "nobody" => r.required = r.subject
Fetched ==
  /\ inbound.at = "fetch" /\ inbound' = NoInbound
  /\ IF requiredTrader(inbound) THEN Grants(inbound) ELSE Turned
  /\ UNCHANGED <<site, Limiter, Relayed, Status>>
Gone ==
  /\ inbound.at = "fetch" /\ inbound' = NoInbound /\ Turned
  /\ UNCHANGED <<site, Limiter, Relayed, Status>>

\* The caller's token expires while the request waits.
TokenExpires ==
  /\ inbound # NoInbound /\ inbound.caller # "nobody"
  /\ inbound' = [inbound EXCEPT !.caller = "nobody"]
  /\ UNCHANGED <<site, served, Limiter, Relayed, Status>>

-----------------------------------------------------------------------------
(* The limiter.  A bucket keeps its tokens, in PerRequest parts, and the time  *)
(* it was last used, here as its age.                                          *)

Full      == Capacity * PerRequest
NoBucket  == [parts |-> -1, age |-> 0]
\* A source address and a bootstrap token.  A token that has expired goes by its hash
\* in place of its jti: another handle of the same kind.
Handle == {"source", "token"}
Smaller(a, b) == IF a < b THEN a ELSE b
Larger(a, b)  == IF a > b THEN a ELSE b

\* The bucket as it is when it is asked.
Refilled(b) ==
  IF b = NoBucket THEN Full ELSE Smaller(Full, b.parts + Larger(0, b.age))
BuggyDisused(b) == b.age > PerRequest  \* dropped before it is full again
Disused(b) == b.age > MaxIdle

\* sweep, every so many takes, and before the bucket that was asked is used.
Swept == IF takes + 1 < SweepEvery THEN bucket
         ELSE [h \in Handle |-> IF Disused(bucket[h]) THEN NoBucket ELSE bucket[h]]
Admits(h) == Refilled(Swept[h]) >= PerRequest
Take(h) ==
  LET had == Refilled(Swept[h]) IN
  /\ takes' = (takes + 1) % SweepEvery
  /\ bucket' = [Swept EXCEPT ![h] =
       [parts |-> IF Admits(h) THEN had - PerRequest ELSE had, age |-> 0]]
  /\ drawn' = [drawn EXCEPT ![h] = IF Admits(h) THEN @ + PerRequest ELSE @]

\* A public request: first its source is metered, then the token in its body.
Meter ==
  /\ open < MaxOpen /\ Take("source")
  /\ open' = IF Admits("source") THEN open + 1 ELSE open
  /\ UNCHANGED <<site, inbound, served, Relayed, Status>>
MeterToken ==
  /\ open > 0 /\ open' = open - 1 /\ Take("token")
  /\ UNCHANGED <<site, inbound, served, Relayed, Status>>

\* The clock moves on, or is set back.  Ages past the limit are all alike.
Aged(by) == [h \in Handle |->
  IF bucket[h] = NoBucket THEN NoBucket
  ELSE [bucket[h] EXCEPT !.age = Smaller(@ + by, MaxIdle + 1)]]
ClockMoves ==
  /\ bucket' = Aged(1)
  /\ drawn' = [h \in Handle |-> Larger(0, drawn[h] - 1)]
  /\ UNCHANGED <<site, inbound, served, takes, open, Relayed, Status>>
ClockSetBack ==
  /\ \A h \in Handle : bucket[h].age > -1
  /\ bucket' = Aged(-1)
  /\ UNCHANGED <<site, inbound, served, takes, open, drawn, Relayed, Status>>

-----------------------------------------------------------------------------
(* The wallet relay: submit and wait, and then read what was created           *)

NoReply == [status |-> "none", events |-> 0]
Idling  == [at |-> "idle", sent |-> FALSE, mine |-> FALSE, tries |-> 0, reply |-> NoReply]

Forward ==
  /\ relay.at = "idle" /\ relay' = [Idling EXCEPT !.at = "submit", !.sent = TRUE]
  /\ UNCHANGED <<site, inbound, served, Limiter, landed, Status>>

\* The command takes effect once, whatever is submitted again under its id; that may
\* be after the relay has given up on it.
TakesEffect(n) ==
  /\ relay.sent /\ landed = 0 /\ landed' = n
  /\ relay' = [relay EXCEPT !.mine = relay.at = "submit"]
  /\ UNCHANGED <<site, inbound, served, Limiter, Status>>

Replies(status, events) ==
  relay' = [Idling EXCEPT !.reply = [status |-> status, events |-> events],
                          !.sent = status = "proxyFailed"]

Submitted ==
  /\ relay.at = "submit" /\ relay.mine /\ relay' = [relay EXCEPT !.at = "tree"]
  /\ UNCHANGED <<site, inbound, served, Limiter, landed, Status>>
\* Refused, as a duplicate of what was taken before or otherwise; or no answer.
Rejected ==
  /\ relay.at = "submit" /\ ~relay.mine /\ Replies("refused", 0)
  /\ UNCHANGED <<site, inbound, served, Limiter, landed, Status>>
SubmitFails ==
  /\ relay.at \in {"submit", "tree"} /\ Replies("proxyFailed", 0)
  /\ UNCHANGED <<site, inbound, served, Limiter, landed, Status>>

\* The tree may lag behind the completion.
Unseen(r) == r.tries + 1 = Retries
BuggyAfterLastTry == Replies("ok", 0)  \* a tree that cannot be read has no events
AfterLastTry == Replies("treeFailed", 0)
NotYet ==
  /\ relay.at = "tree"
  /\ IF Unseen(relay) THEN AfterLastTry
     ELSE relay' = [relay EXCEPT !.tries = @ + 1]
  /\ UNCHANGED <<site, inbound, served, Limiter, landed, Status>>
TreeArrives ==
  /\ relay.at = "tree" /\ Replies("ok", landed)
  /\ UNCHANGED <<site, inbound, served, Limiter, landed, Status>>

-----------------------------------------------------------------------------
(* /v1/status: a poll every two seconds, whether or not the one before is back *)

Poll == {1, 2}
NoPoll == -3
Asking == -2
Unanswering == -1

pollSlot(p) ==
  /\ probe[p] = NoPoll /\ site.participant
  /\ probe' = [probe EXCEPT ![p] = Asking]
  /\ UNCHANGED <<site, inbound, served, Limiter, Relayed, end, slot, synced>>
\* Without a participant a counter stands in for the offset.
CountUp ==
  /\ ~site.participant /\ slot < MaxOffset
  /\ slot' = slot + 1 /\ synced' = TRUE
  /\ UNCHANGED <<site, inbound, served, Limiter, Relayed, end, probe>>
EndMoves ==
  /\ site.participant /\ end < MaxOffset /\ end' = end + 1
  /\ UNCHANGED <<site, inbound, served, Limiter, Relayed, probe, slot, synced>>
ParticipantAnswers(p) ==
  /\ probe[p] = Asking
  /\ \E answer \in {end, Unanswering} : probe' = [probe EXCEPT ![p] = answer]
  /\ UNCHANGED <<site, inbound, served, Limiter, Relayed, end, slot, synced>>
ProbeReturns(p) ==
  /\ probe[p] \notin {NoPoll, Asking} /\ probe' = [probe EXCEPT ![p] = NoPoll]
  /\ IF probe[p] = Unanswering THEN synced' = FALSE /\ UNCHANGED slot
     ELSE slot' = probe[p] /\ synced' = TRUE
  /\ UNCHANGED <<site, inbound, served, Limiter, Relayed, end>>
-----------------------------------------------------------------------------
SiteOf ==
  [binds : BOOLEAN, operator : BOOLEAN, devOpen : BOOLEAN, admin : BOOLEAN,
   hosted : BOOLEAN, relays : BOOLEAN, participant : BOOLEAN, allowed : SUBSET Client]

GatewayInit ==
  /\ site \in SiteOf /\ inbound = NoInbound /\ served = NoService
  /\ bucket = [h \in Handle |-> NoBucket] /\ takes = 0 /\ open = 0
  /\ drawn = [h \in Handle |-> 0]
  /\ relay = Idling /\ landed = 0
  /\ end = 0 /\ probe = [p \in Poll |-> NoPoll] /\ slot = 0
  /\ synced = ~site.participant

GateNext == (\E r \in RequestOf : Receive(r)) \/ ReadBody \/ Fetched \/ Gone \/ TokenExpires
LimitNext == Meter \/ MeterToken \/ ClockMoves \/ ClockSetBack
RelayNext ==
  \/ Forward \/ Submitted \/ Rejected \/ SubmitFails \/ NotYet \/ TreeArrives
  \/ \E n \in 1 .. 2 : TakesEffect(n)
StatusNext ==
  \/ CountUp \/ EndMoves
  \/ \E p \in Poll : pollSlot(p) \/ ParticipantAnswers(p) \/ ProbeReturns(p)
GatewayNext == GateNext \/ LimitNext \/ RelayNext \/ StatusNext

GatewaySpec == GatewayInit /\ [][GatewayNext]_GatewayVars

-----------------------------------------------------------------------------
\* "Generous enough for real interactive use, tight enough to blunt a script": while the
\* host's clock moves forward by some time no handle is admitted more than a bucket and
\* what it regains in that time, whatever sweeps drop meanwhile and however often the
\* clock is set back.  Time is what the clock has moved forward: putting a clock right
\* that was set back counts as time, for the limiter as for this property.
WithinRate == \A h \in Handle : drawn[h] <= Full

\* What is done for a trader, or shown of one, is by that trader's own word wherever
\* callers are told apart, and else by the operator's or the admin's; a token that
\* expires while a request waits is never replaced by another party's word.
OwnWord(s) == site.binds => s.caller = s.subject
ServedProperly == served # NoService =>
  /\ served.route \in FetchBound \cup {"rfq"} => OwnWord(served)
  /\ served.route \in OwnReads \cup Feeds => OwnWord(served) \/ AdminToken(served)
  /\ served.route \in OperatorWrites =>
       \/ IF site.operator THEN served.bearer = "operator" ELSE site.devOpen
       \/ site.binds /\ served.route = "rfq"
  /\ served.route \in AdminWrites => AdminToken(served)
  /\ served.route = "relay" => served.subject \in site.allowed

\* A relayed command that is said to be done has created what is said, and one whose
\* tree could not be read is done; the offset shown is never ahead of the participant's.
AnswersTrue ==
  /\ relay.reply.status \in {"ok", "treeFailed"} => landed > 0
  /\ relay.reply.status = "ok" => relay.reply.events = landed
  /\ site.participant => slot <= end
=============================================================================
