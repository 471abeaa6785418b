------------------------------ MODULE RfqScreen ------------------------------
(***************************************************************************)
(* The RFQ page of a trader: rows that a poll fetches every ten seconds,   *)
(* and that the page changes by itself when the trader composes, accepts   *)
(* or cancels, before the operator answers.  The poll's result replaces    *)
(* the rows only when it differs from the one before (the query client     *)
(* shares equal results), and a refetch takes the place of the poll that   *)
(* is under way.                                                           *)
(*                                                                         *)
(* The requests are the trader's; the page may be handed to somebody else  *)
(* at any time, who sees none of them.                                     *)
(***************************************************************************)
EXTENDS Naturals, FiniteSets

CONSTANTS
  Rfq,           \* requests for quotes
  MaxTaps,       \* bound: clicks on the page
  MaxAbsences,   \* bound: wallets that are swapped
  MaxUnheard,    \* bound: answers lost
  MaxPosted      \* bound: quotes for one request

ASSUME RfqScreenAssumption ==
  MaxTaps \in Nat /\ MaxAbsences \in Nat /\ MaxUnheard \in Nat /\ MaxPosted \in Nat

VARIABLES
  rfqAt,       \* the request on the ledger, its quotes, and its age
  tradeAt,     \* the trade that came of it
  viewer,      \* whose wallet is connected
  fetched,     \* what the poll of each viewer fetched last
  poll,        \* the poll of each viewer
  openTab,     \* the rows of a request on the active tab: the one listed, and one put on top
  acceptedTab, \* how often a request is among the accepted
  expiredTab,  \* the requests among the expired
  badge,       \* what is said of the settlement of a trade
  accepts,     \* the call that accepts a request
  withdraws,   \* the call that cancels it
  creates,     \* the call that creates it
  settles,     \* the call that settles its trade
  unheard,     \* requests that were accepted and whose answer was lost
  early,       \* requests that moved on before they had run out
  astray,      \* requests whose row another viewer's list replaced, or put too late
  aside,       \* requests whose row the page put, took or kept by itself since the list changed
  taps, absences

RfqScreenVars == <<rfqAt, tradeAt, viewer, fetched, poll, openTab, acceptedTab, expiredTab, badge,
                   accepts, withdraws, creates, settles, unheard, early, astray, aside, taps, absences>>
TradersCalls == <<accepts, withdraws, creates, settles>>

Viewer == {"trader", "other"}
Line(quotes_) == [is |-> "idle", quotes |-> quotes_]

\* A list: the row that it gives of each request.
Absent == [is |-> "absent", quotes |-> 0]
Unfetched == [r \in Rfq |-> [is |-> "unfetched", quotes |-> 0]]

\* The rows of a request.  A poll leaves at most one; one is put on top when the
\* request's creation is answered.
Spot == {"listed", "put"}
Listing(row) == [i \in Spot |-> IF i = "listed" THEN row ELSE Absent]
NoRows == Listing(Absent)
Drawn(rows_) == {i \in Spot : rows_[i].is # "absent"}
NotMarked(rows_) == {i \in Drawn(rows_) : rows_[i].is = "idle"}
WithoutIdle(rows_) == [i \in Spot |-> IF i \in NotMarked(rows_) THEN Absent ELSE rows_[i]]
RowsAs(rows_, is_) ==
  [i \in Spot |-> IF i \in Drawn(rows_) THEN [rows_[i] EXCEPT !.is = is_] ELSE rows_[i]]

RfqScreenInit ==
  /\ rfqAt \in [Rfq -> [is : {"none", "open"}, quotes : {0}, age : {"young"}]]
  /\ tradeAt = [r \in Rfq |-> "none"]
  /\ viewer = "trader" /\ fetched = [v \in Viewer |-> Unfetched]
  /\ poll = [v \in Viewer |-> [step |-> "idle", saw |-> Unfetched]]
  /\ openTab = [r \in Rfq |-> NoRows]
  /\ acceptedTab = [r \in Rfq |-> 0] /\ expiredTab = {} /\ badge = [r \in Rfq |-> "none"]
  /\ accepts = [r \in Rfq |-> "no"] /\ withdraws = [r \in Rfq |-> "no"]
  /\ creates = [r \in Rfq |-> "no"] /\ settles = [r \in Rfq |-> "no"]
  /\ unheard = {} /\ early = {} /\ astray = {} /\ aside = {} /\ taps = 0 /\ absences = 0

-----------------------------------------------------------------------------
(* The ledger *)

OnLedger == <<rfqAt, tradeAt>>
OnPage == <<viewer, fetched, poll, openTab, acceptedTab, expiredTab, badge, accepts, withdraws,
            creates, settles, unheard, early, astray, aside, taps, absences>>

\* A dealer posts a quote or takes it back; time passes; the trader, elsewhere, or the
\* operator, once it is late, takes the request back; somebody else settles a trade.
Quoted(r) ==
  /\ rfqAt[r].is = "open"
  /\ \E n \in (0 .. MaxPosted) \cap {rfqAt[r].quotes - 1, rfqAt[r].quotes + 1} :
       rfqAt' = [rfqAt EXCEPT ![r].quotes = n]
  /\ UNCHANGED <<tradeAt, OnPage>>

Ages(r) ==
  /\ rfqAt[r].is # "none" /\ rfqAt[r].age # "late"
  /\ rfqAt' = [rfqAt EXCEPT ![r].age = IF @ = "young" THEN "nearly" ELSE "late"]
  /\ UNCHANGED <<tradeAt, OnPage>>

Closed(r) ==
  /\ rfqAt[r].is = "open" /\ rfqAt' = [rfqAt EXCEPT ![r].is = "closed"]
  /\ UNCHANGED <<tradeAt, OnPage>>

SettledElsewhere(r) ==
  /\ tradeAt[r] = "live" /\ tradeAt' = [tradeAt EXCEPT ![r] = "settled"]
  /\ UNCHANGED <<rfqAt, OnPage>>

-----------------------------------------------------------------------------
(* The poll *)

\* What the operator lists for a viewer, and how the page reads it.
ListedFor(v) == [r \in Rfq |->
  IF v = "other" \/ rfqAt[r].is # "open" THEN Absent ELSE Line(rfqAt[r].quotes)]

PollAsks(v) ==
  /\ v = viewer /\ poll[v].step = "idle" /\ poll' = [poll EXCEPT ![v].step = "asked"]
  /\ UNCHANGED <<OnLedger, viewer, fetched, openTab, acceptedTab, expiredTab, badge, TradersCalls,
                 unheard, early, astray, aside, taps, absences>>

PollReads(v) ==
  /\ poll[v].step = "asked" /\ poll' = [poll EXCEPT ![v] = [step |-> "read", saw |-> ListedFor(v)]]
  /\ UNCHANGED <<OnLedger, viewer, fetched, openTab, acceptedTab, expiredTab, badge, TradersCalls,
                 unheard, early, astray, aside, taps, absences>>

\* Rows under acceptance, or just accepted, are kept as they are.
BuggyKept(r) == {}
Kept(r) == Drawn(openTab[r]) \ NotMarked(openTab[r])

Reconciled(snapshot) == [r \in Rfq |->
  IF snapshot[r] = Absent \/ Kept(r) = {} THEN Listing(snapshot[r])
  ELSE Listing(openTab[r][IF "listed" \in Kept(r) THEN "listed" ELSE "put"])]

PollLands(v) ==
  /\ poll[v].step = "read"
  /\ poll' = [poll EXCEPT ![v] = [step |-> "idle", saw |-> Unfetched]]
  /\ fetched' = [fetched EXCEPT ![v] = poll[v].saw]
  /\ IF v = viewer /\ fetched[v] # poll[v].saw
       THEN openTab' = Reconciled(poll[v].saw) /\ aside' = {}
       ELSE UNCHANGED <<openTab, aside>>
  /\ UNCHANGED <<OnLedger, viewer, acceptedTab, expiredTab, badge, TradersCalls, unheard, early, astray,
                 taps, absences>>

PollFails(v) ==
  /\ poll[v].step # "idle" /\ poll' = [poll EXCEPT ![v] = [step |-> "idle", saw |-> Unfetched]]
  /\ UNCHANGED <<OnLedger, viewer, fetched, openTab, acceptedTab, expiredTab, badge, TradersCalls,
                 unheard, early, astray, aside, taps, absences>>

Refetch == poll' = [poll EXCEPT ![viewer] = [step |-> "asked", saw |-> Unfetched]]

\* Another wallet: what was fetched for it before is shown at once, and nothing is
\* changed when there is nothing yet.
Swap ==
  /\ absences < MaxAbsences /\ absences' = absences + 1
  /\ viewer' = IF viewer = "trader" THEN "other" ELSE "trader"
  /\ IF fetched[viewer'] = Unfetched THEN UNCHANGED <<openTab, aside>>
     ELSE openTab' = Reconciled(fetched[viewer']) /\ aside' = {}
  /\ astray' = astray \cup {r \in Rfq :
       accepts[r] \notin {"no", "done"} \/ (Drawn(openTab'[r]) # {} /\ rfqAt[r].is # "open")}
  /\ UNCHANGED <<OnLedger, fetched, poll, acceptedTab, expiredTab, badge, TradersCalls, unheard, early, taps>>

\* What a row offers, and what the tabs show.
OffersAccept(r) == \E i \in NotMarked(openTab[r]) : openTab[r][i].quotes > 0
OffersCancel(r) == NotMarked(openTab[r]) # {}
ShowsAccepted(r) == acceptedTab[r]
ShowsExpired(r) == r \in expiredTab
ShowsSettled(r) == ShowsAccepted(r) > 0 /\ badge[r] = "settled"
Become(r, is_) == openTab' = [openTab EXCEPT ![r] = RowsAs(@, is_)]

\* Every second the rows that have run out move on.  They count down from what was
\* fetched, in whole seconds, and may be early by one.
RunsOut(r) ==
  /\ rfqAt[r].age # "young" /\ OffersCancel(r)
  /\ openTab' = [openTab EXCEPT ![r] = WithoutIdle(@)]
  /\ expiredTab' = expiredTab \cup {r}
  /\ early' = IF rfqAt[r].age = "late" THEN early ELSE early \cup {r}
  /\ UNCHANGED <<OnLedger, viewer, fetched, poll, acceptedTab, badge, TradersCalls, unheard, astray,
                 aside, taps, absences>>

-----------------------------------------------------------------------------
(* What the trader does *)

\* A request is composed in a sheet that can be closed before the answer.
Tap == taps < MaxTaps /\ taps' = taps + 1


TapAccept(r) ==
  /\ Tap /\ OffersAccept(r) /\ accepts[r] \in {"no", "done"}
  /\ Become(r, "accepting")
  /\ accepts' = [accepts EXCEPT ![r] = IF viewer = "trader" THEN "sent" ELSE "barred"]
  /\ UNCHANGED <<OnLedger, viewer, fetched, poll, acceptedTab, expiredTab, badge, withdraws,
                 creates, settles, unheard, early, astray, aside, absences>>

AcceptTakes(r) ==
  /\ accepts[r] = "sent" /\ rfqAt[r].is = "open" /\ rfqAt[r].age # "late"
  /\ rfqAt' = [rfqAt EXCEPT ![r].is = "accepted"] /\ tradeAt' = [tradeAt EXCEPT ![r] = "live"]
  /\ accepts' = [accepts EXCEPT ![r] = "took"]
  /\ UNCHANGED <<viewer, fetched, poll, openTab, acceptedTab, expiredTab, badge, withdraws, creates,
                 settles, unheard, early, astray, aside, taps, absences>>

AcceptRefused(r) ==
  /\ accepts[r] \in {"sent", "barred"} /\ accepts' = [accepts EXCEPT ![r] = "failed"]
  /\ UNCHANGED <<OnLedger, viewer, fetched, poll, openTab, acceptedTab, expiredTab, badge, withdraws,
                 creates, settles, unheard, early, astray, aside, taps, absences>>

AcceptUnheard(r) ==
  /\ accepts[r] = "took" /\ Cardinality(unheard) < MaxUnheard /\ unheard' = unheard \cup {r}
  /\ accepts' = [accepts EXCEPT ![r] = "failed"]
  /\ UNCHANGED <<OnLedger, viewer, fetched, poll, openTab, acceptedTab, expiredTab, badge, withdraws,
                 creates, settles, early, astray, aside, taps, absences>>

\* The trade is settled at once; the row is moved a moment later.
AcceptAnswered(r) ==
  /\ accepts[r] = "took" /\ accepts' = [accepts EXCEPT ![r] = "moving"]
  /\ Become(r, "accepted")
  /\ settles' = [settles EXCEPT ![r] = "sent"] /\ badge' = [badge EXCEPT ![r] = "settling"]
  /\ UNCHANGED <<OnLedger, viewer, fetched, poll, acceptedTab, expiredTab, withdraws, creates,
                 unheard, early, astray, aside, taps, absences>>

AcceptFailed(r) ==
  /\ accepts[r] = "failed" /\ accepts' = [accepts EXCEPT ![r] = "no"]
  /\ Become(r, "idle") /\ aside' = aside \cup {r}
  /\ UNCHANGED <<OnLedger, viewer, fetched, poll, acceptedTab, expiredTab, badge, withdraws,
                 creates, settles, unheard, early, astray, taps, absences>>

MovesToAccepted(r) ==
  /\ accepts[r] = "moving" /\ accepts' = [accepts EXCEPT ![r] = "done"]
  /\ openTab' = [openTab EXCEPT ![r] = NoRows] /\ acceptedTab' = [acceptedTab EXCEPT ![r] = @ + 1]
  /\ Refetch
  /\ UNCHANGED <<OnLedger, viewer, fetched, expiredTab, badge, withdraws, creates, settles,
                 unheard, early, astray, aside, taps, absences>>

SettleTakes(r) ==
  /\ settles[r] = "sent" /\ tradeAt[r] = "live"
  /\ tradeAt' = [tradeAt EXCEPT ![r] = "settled"] /\ settles' = [settles EXCEPT ![r] = "took"]
  /\ UNCHANGED <<rfqAt, viewer, fetched, poll, openTab, acceptedTab, expiredTab, badge, accepts,
                 withdraws, creates, unheard, early, astray, aside, taps, absences>>

SettleTells(r) ==
  /\ settles[r] \in {"sent", "took"} /\ settles' = [settles EXCEPT ![r] = "done"]
  /\ \/ settles[r] = "took" /\ badge' = [badge EXCEPT ![r] = "settled"]
     \/ badge' = [badge EXCEPT ![r] = "failed"]
  /\ UNCHANGED <<OnLedger, viewer, fetched, poll, openTab, acceptedTab, expiredTab, accepts,
                 withdraws, creates, unheard, early, astray, aside, taps, absences>>

TapCancel(r) ==
  /\ Tap /\ OffersCancel(r) /\ withdraws[r] = "no"
  /\ openTab' = [openTab EXCEPT ![r] = NoRows] /\ aside' = aside \cup {r}
  /\ withdraws' = [withdraws EXCEPT ![r] = IF viewer = "trader" THEN "sent" ELSE "barred"]
  /\ UNCHANGED <<OnLedger, viewer, fetched, poll, acceptedTab, expiredTab, badge, accepts,
                 creates, settles, unheard, early, astray, absences>>

CancelTakes(r) ==
  /\ withdraws[r] = "sent" /\ rfqAt[r].is = "open"
  /\ rfqAt' = [rfqAt EXCEPT ![r].is = "closed"] /\ withdraws' = [withdraws EXCEPT ![r] = "took"]
  /\ UNCHANGED <<tradeAt, viewer, fetched, poll, openTab, acceptedTab, expiredTab, badge, accepts,
                 creates, settles, unheard, early, astray, aside, taps, absences>>

\* Cancelled or not, the list is fetched again: as before, if not.
CancelReturns(r) ==
  /\ withdraws[r] # "no" /\ withdraws' = [withdraws EXCEPT ![r] = "no"] /\ Refetch
  /\ UNCHANGED <<OnLedger, viewer, fetched, openTab, acceptedTab, expiredTab, badge, accepts,
                 creates, settles, unheard, early, astray, aside, taps, absences>>

Compose(r) ==
  /\ Tap /\ rfqAt[r].is = "none" /\ viewer = "trader" /\ creates[r] = "no"
  /\ creates' = [creates EXCEPT ![r] = "sent"]
  /\ UNCHANGED <<OnLedger, viewer, fetched, poll, openTab, acceptedTab, expiredTab, badge, accepts,
                 withdraws, settles, unheard, early, astray, aside, absences>>

CreateTakes(r) ==
  /\ creates[r] = "sent" /\ creates' = [creates EXCEPT ![r] = "took"]
  /\ rfqAt' = [rfqAt EXCEPT ![r].is = "open"]
  /\ UNCHANGED <<tradeAt, viewer, fetched, poll, openTab, acceptedTab, expiredTab, badge, accepts,
                 withdraws, settles, unheard, early, astray, aside, taps, absences>>

\* The row is put on top, whether a poll has brought it by now or not.
CreateAnswered(r) ==
  /\ creates[r] = "took" /\ creates' = [creates EXCEPT ![r] = "no"] /\ Refetch
  /\ openTab' = [openTab EXCEPT ![r]["put"] = Line(0)] /\ aside' = aside \cup {r}
  /\ astray' = IF rfqAt[r].is = "open" /\ accepts[r] = "no" THEN astray
                ELSE astray \cup {r}
  /\ UNCHANGED <<OnLedger, viewer, fetched, acceptedTab, expiredTab, badge, accepts, withdraws,
                 settles, unheard, early, taps, absences>>

CreateFailed(r) ==
  /\ creates[r] \in {"sent", "took"} /\ creates' = [creates EXCEPT ![r] = "no"] /\ Refetch
  /\ UNCHANGED <<OnLedger, viewer, fetched, openTab, acceptedTab, expiredTab, badge, accepts,
                 withdraws, settles, unheard, early, astray, aside, taps, absences>>

RfqScreenNext ==
  \/ \E r \in Rfq :
       \/ Quoted(r) \/ Ages(r) \/ Closed(r) \/ SettledElsewhere(r) \/ RunsOut(r)
       \/ TapAccept(r) \/ AcceptTakes(r) \/ AcceptRefused(r) \/ AcceptUnheard(r)
       \/ AcceptAnswered(r) \/ AcceptFailed(r) \/ MovesToAccepted(r)
       \/ SettleTakes(r) \/ SettleTells(r)
       \/ TapCancel(r) \/ CancelTakes(r) \/ CancelReturns(r)
       \/ Compose(r) \/ CreateTakes(r) \/ CreateAnswered(r) \/ CreateFailed(r)
  \/ \E v \in Viewer : PollAsks(v) \/ PollReads(v) \/ PollLands(v) \/ PollFails(v)
  \/ Swap

RfqScreenSpec == RfqScreenInit /\ [][RfqScreenNext]_RfqScreenVars

-----------------------------------------------------------------------------
\* Nobody is offered to accept what is being accepted, whatever the poll brings,
\* unless the wallet was swapped meanwhile or the row put too late.
OffersOnce == \A r \in Rfq :
  OffersAccept(r) => accepts[r] \in {"no", "done"} \/ r \in astray

\* What the tabs say has happened: an accepted request once, a settled trade, and of
\* an expired one that it was not accepted, if the page could know.
RfqTold == \A r \in Rfq :
  /\ ShowsAccepted(r) <= 1
  /\ (ShowsAccepted(r) = 1 \/ \E i \in Drawn(openTab[r]) : openTab[r][i].is = "accepted")
       => rfqAt[r].is = "accepted"
  /\ ShowsSettled(r) => tradeAt[r] = "settled"
  /\ ShowsExpired(r) => rfqAt[r].is # "accepted" \/ r \in unheard \cup early \cup astray

\* With nothing under way and the newest list fetched, the rows are that list, except
\* for those that have run out, and those that the page put, took or kept as they were
\* by itself, while the list has stayed as it was since.
Unhurried == \A r \in Rfq : accepts[r] \in {"no", "done"} /\ withdraws[r] = "no" /\ creates[r] = "no"
RowsExplained ==
  (Unhurried /\ fetched[viewer] = ListedFor(viewer)) => \A r \in Rfq \ (expiredTab \cup aside) :
    openTab[r] = Listing(fetched[viewer][r])

\* The page tells a trader the truth about the requests, as far as it is told.
RfqShown == OffersOnce /\ RfqTold /\ RowsExplained
=============================================================================
