------------------------------ MODULE OrderDesk ------------------------------
(***************************************************************************)
(* One limit order of a trader, from the form to the book: placeOrder and  *)
(* cancelOrder of the web client, the order routes of the HTTP layer, and  *)
(* OrderService, over the contracts OrderFundingRequest, Order and         *)
(* OrderAllocationRequest.                                                 *)
(*                                                                         *)
(* Placing takes a chain of calls - wallet, bind, wallet, fund - and, when *)
(* the chain breaks behind the bind, a cancellation.  A call that the      *)
(* browser or the backend has given up on may still take effect.  What the *)
(* order's terms are, and how it is matched, is module OrderBook.          *)
(***************************************************************************)
EXTENDS Naturals

CONSTANTS
  MaxFills,   \* bound: partial fills of the order
  MaxSlips,   \* bound: lost answers, refusals and calls given up
  MaxClicks   \* bound: cancellations from the orders page

ASSUME OrderDeskAssumption ==
  MaxFills \in Nat /\ MaxSlips \in Nat /\ MaxClicks \in Nat

\* The calls of the backend: "undo" is the cancellation by placeOrder itself,
\* "click" the one from the orders page.
Job == {"bind", "fund", "undo", "click"}

VARIABLES
  intent,   \* the OrderFundingRequest: "none", "live" or "gone"
  order,    \* the Order: which of its contract ids is current, and is it live?
  lock,     \* the order's allocations: "none", "held", "bound", "free" or "spent"
  invited,  \* is the OrderAllocationRequest live?
  ticket,   \* placeOrder: its step, and what its user has been told
  visit,    \* the calls the backend works on: phase, contract id, does anybody wait?
  cancels,  \* the rows of order-cancel:<contract id>
  stray,    \* commands the backend has given up on and the participant has not
  page,     \* the orders page: the contract id shown, and the last answer
  clicks, slips

OrderDeskVars == <<intent, order, lock, invited, ticket, visit, cancels, stray,
                   page, clicks, slips>>
Contracts == <<intent, order, lock, invited>>

Away == [phase |-> "away", cid |-> 0, heard |-> FALSE]

OrderDeskInit ==
  /\ intent = "none" /\ lock = "none" /\ invited = FALSE
  /\ order = [cid |-> 0, live |-> FALSE]
  /\ ticket = [step |-> "form", told |-> "nothing"]
  /\ visit = [j \in Job |-> Away]
  /\ cancels = [c \in 0 .. MaxFills + 2 |-> "none"]
  /\ stray = {}
  /\ page = [shown |-> 0, told |-> "nothing"]
  /\ clicks = 0 /\ slips = 0

Slips == slips < MaxSlips /\ slips' = slips + 1

-----------------------------------------------------------------------------
(* Wallet and browser *)

CallsFor(j, c) == visit' = [visit EXCEPT ![j] = [phase |-> "called", cid |-> c, heard |-> TRUE]]

Ends(told) == ticket' = [step |-> "over", told |-> told]

\* The wallet signs the intent, and the bind is asked for; or it does not sign, or
\* its answer gets lost.
PlaceIntent ==
  /\ ticket.step = "form"
  /\ \/ /\ intent' = "live" /\ CallsFor("bind", 0)
        /\ ticket' = [ticket EXCEPT !.step = "binding"] /\ UNCHANGED slips
     \/ intent' = "none" /\ Ends("failed") /\ UNCHANGED <<visit, slips>>
     \/ intent' = "live" /\ Ends("failed") /\ Slips /\ UNCHANGED visit
  /\ UNCHANGED <<order, lock, invited, cancels, stray, page, clicks>>

\* The intent is closed by its trader or its operator instead of bound.
CloseRequest ==
  /\ intent = "live" /\ intent' = "gone"
  /\ UNCHANGED <<order, lock, invited, ticket, visit, cancels, stray, page, clicks, slips>>

\* Funds are chosen, factories discovered, and the wallet authors the allocations
\* of all registries.  Whatever fails, the order that is bound is cancelled.
AuthorFunding ==
  /\ ticket.step = "bound"
  /\ \/ lock' = "held" /\ CallsFor("fund", 1)
        /\ ticket' = [ticket EXCEPT !.step = "funding"] /\ UNCHANGED slips
     \/ lock' = "none" /\ CallsFor("undo", 1)
        /\ ticket' = [ticket EXCEPT !.step = "undoing"] /\ UNCHANGED slips
     \/ lock' = "held" /\ CallsFor("undo", 1) /\ Slips
        /\ ticket' = [ticket EXCEPT !.step = "undoing"]
  /\ UNCHANGED <<intent, order, invited, cancels, stray, page, clicks>>

\* Polled every five seconds.
ListOrders ==
  /\ page' = [page EXCEPT !.shown = IF order.live THEN order.cid ELSE 0]
  /\ page' # page
  /\ UNCHANGED <<Contracts, ticket, visit, cancels, stray, clicks, slips>>

ClickCancel ==
  /\ page.shown # 0 /\ visit["click"] = Away
  /\ clicks < MaxClicks /\ clicks' = clicks + 1
  /\ CallsFor("click", page.shown)
  /\ page' = [page EXCEPT !.told = "nothing"]
  /\ UNCHANGED <<Contracts, ticket, cancels, stray, slips>>

\* The browser hears the answer of a job, or of its own failure to wait for it.
Heard(j, ok) ==
  CASE j = "bind" /\ ok    -> ticket' = [ticket EXCEPT !.step = "bound"] /\ UNCHANGED page
    [] j = "bind" /\ ~ok   -> Ends("failed") /\ UNCHANGED page
    [] j = "fund" /\ ok    -> Ends("open") /\ UNCHANGED page
    [] j = "fund" /\ ~ok   -> ticket' = [ticket EXCEPT !.step = "undoing"] /\ UNCHANGED page
    [] j = "undo"          -> Ends(IF ok THEN "cancelled" ELSE "stuck") /\ UNCHANGED page
    [] j = "click"         -> /\ page' = [page EXCEPT !.told = IF ok THEN "cancelled" ELSE "failed"]
                              /\ UNCHANGED ticket

\* A fund that is heard to fail is followed by the cancellation.
Followed(j, ok, v) == IF j = "fund" /\ ~ok
                   THEN [v EXCEPT !["undo"] = [phase |-> "called", cid |-> 1, heard |-> TRUE]]
                   ELSE v

\* The backend is done with a job; it answers whoever still waits.
Answers(j, ok) ==
  LET idle == [visit EXCEPT ![j] = Away]
  IN IF visit[j].heard
     THEN visit' = Followed(j, ok, idle) /\ Heard(j, ok)
     ELSE visit' = idle /\ UNCHANGED <<ticket, page>>

HangUp(j) ==
  /\ visit[j].heard /\ Slips
  /\ visit' = Followed(j, FALSE, [visit EXCEPT ![j].heard = FALSE])
  /\ Heard(j, FALSE)
  /\ UNCHANGED <<Contracts, cancels, stray, clicks>>

-----------------------------------------------------------------------------
(* The participant *)

Choice(j) == IF j \in {"undo", "click"} THEN "cancel" ELSE j

\* Order_Fund consumes the order, binds the allocations, and creates it anew.
\* Order_Cancel cancels every allocation the order is bound to; a pending order is
\* bound to none.
Possible(choice, c) ==
  CASE choice = "bind"   -> intent = "live"
    [] choice = "fund"   -> order.live /\ order.cid = c /\ c = 1 /\ lock = "held"
    [] choice = "cancel" -> order.live /\ order.cid = c /\ (c > 1 => lock = "bound")

Done(choice) ==
  CASE choice = "bind" ->
         /\ intent' = "gone" /\ order' = [cid |-> 1, live |-> TRUE] /\ invited' = TRUE
         /\ UNCHANGED lock
    [] choice = "fund" ->
         /\ order' = [order EXCEPT !.cid = @ + 1] /\ lock' = "bound"
         /\ UNCHANGED <<intent, invited>>
    [] choice = "cancel" ->
         /\ order' = [order EXCEPT !.live = FALSE]
         /\ lock' = IF lock = "bound" THEN "free" ELSE lock
         /\ UNCHANGED <<intent, invited>>

\* A match fills the order, or rolls it and its allocations forward.
Match ==
  /\ order.live /\ lock = "bound"
  /\ \/ /\ order.cid < MaxFills + 2
        /\ order' = [order EXCEPT !.cid = @ + 1] /\ UNCHANGED lock
     \/ order' = [order EXCEPT !.live = FALSE] /\ lock' = "spent"
  /\ UNCHANGED <<intent, invited, ticket, visit, cancels, stray, page, clicks, slips>>

\* The trader takes its allocations back: the page places orders without expiry,
\* and those are not committed.
TakeBack ==
  /\ lock \in {"held", "bound"} /\ lock' = "free"
  /\ UNCHANGED <<intent, order, invited, ticket, visit, cancels, stray, page, clicks, slips>>

\* A wallet that accepts the request archives it.
AcceptInvitation ==
  /\ invited /\ invited' = FALSE
  /\ UNCHANGED <<intent, order, lock, ticket, visit, cancels, stray, page, clicks, slips>>

-----------------------------------------------------------------------------
(* The backend *)

\* bind looks for the intent; fund and cancel look the order up by its contract id.
Found(j) == IF j = "bind" THEN intent = "live"
            ELSE order.live /\ order.cid = visit[j].cid

\* What is not there any more has been cancelled.
BuggyMissing(j) == Answers(j, Choice(j) = "cancel")

Missing(j) == Answers(j, FALSE)

LookUp(j) ==
  /\ visit[j].phase = "called"
  /\ IF Found(j) \/ j = "fund"
     THEN visit' = [visit EXCEPT ![j].phase = "found"] /\ UNCHANGED <<ticket, page>>
     ELSE Missing(j)
  /\ UNCHANGED <<Contracts, cancels, stray, clicks, slips>>

Row(j, status) == IF Choice(j) = "cancel"
                  THEN cancels' = [cancels EXCEPT ![visit[j].cid] = status]
                  ELSE UNCHANGED cancels

\* The command is through.  The cancellation of placeOrder goes on to withdraw the
\* request for allocations, and does not mind if that fails.
Through(j) ==
  IF j = "undo"
  THEN visit' = [visit EXCEPT ![j].phase = "withdrawing"] /\ UNCHANGED <<ticket, page>>
  ELSE Answers(j, TRUE)

WithdrawInvitation ==
  /\ visit["undo"].phase = "withdrawing"
  /\ invited' \in {invited, FALSE}
  /\ Answers("undo", TRUE)
  /\ UNCHANGED <<intent, order, lock, cancels, stray, clicks, slips>>

\* Both cancellations of one contract share a command id: the later one is turned
\* away while the first is under way, and takes over its success.
SubmitJob(j) ==
  /\ visit[j].phase = "found"
  /\ LET shared == Choice(j) = "cancel"
         status == cancels[visit[j].cid]
     IN \/ /\ shared /\ status = "pending"
           /\ Answers(j, FALSE) /\ UNCHANGED cancels
        \/ /\ shared /\ status = "ok"
           /\ Through(j) /\ UNCHANGED cancels
        \/ /\ shared => status \notin {"pending", "ok"}
           /\ Row(j, "pending") /\ visit' = [visit EXCEPT ![j].phase = "sent"]
           /\ UNCHANGED <<ticket, page>>
  /\ UNCHANGED <<Contracts, stray, clicks, slips>>

Sent(j) == visit[j].phase = "sent"
Doable(j) == Possible(Choice(j), visit[j].cid)

\* It takes effect.
Lands(j) ==
  /\ Sent(j) /\ Doable(j)
  /\ Done(Choice(j)) /\ Row(j, "ok") /\ Through(j)
  /\ UNCHANGED <<stray, clicks, slips>>

\* It is refused, because it cannot be done or for a reason that will pass.
Bounces(j) ==
  /\ Sent(j)
  /\ (~Doable(j) /\ UNCHANGED slips) \/ Slips
  /\ Row(j, "error") /\ Answers(j, FALSE)
  /\ UNCHANGED <<Contracts, stray, clicks>>

\* It is given up on, and may take effect later.
GivesUp(j) ==
  /\ Sent(j) /\ Slips
  /\ stray' = stray \cup {[choice |-> Choice(j), cid |-> visit[j].cid]}
  /\ Row(j, "error") /\ Answers(j, FALSE)
  /\ UNCHANGED <<Contracts, clicks>>

TakesEffectLate ==
  /\ \E m \in stray :
       /\ stray' = stray \ {m}
       /\ IF Possible(m.choice, m.cid) THEN Done(m.choice) ELSE UNCHANGED Contracts
  /\ UNCHANGED <<ticket, visit, cancels, page, clicks, slips>>

-----------------------------------------------------------------------------
Progresses(j) == LookUp(j) \/ SubmitJob(j) \/ Lands(j) \/ Bounces(j)

OrderDeskNext ==
  \/ PlaceIntent \/ CloseRequest \/ AuthorFunding
  \/ ListOrders \/ ClickCancel
  \/ Match \/ TakeBack \/ AcceptInvitation \/ TakesEffectLate \/ WithdrawInvitation
  \/ \E j \in Job : Progresses(j) \/ HangUp(j) \/ GivesUp(j)

OrderDeskSpec == OrderDeskInit /\ [][OrderDeskNext]_OrderDeskVars

-----------------------------------------------------------------------------
\* What the trader is told of the order is so, and stays so, whatever is still
\* under way: an order said to be open has been funded; one that placing said it
\* had cancelled is closed and never came to hold funds; and one that the orders
\* page said it had cancelled is closed and holds none any more.
ToldTrue ==
  /\ ticket.told = "open" => order.cid > 1
  /\ ticket.told = "cancelled" => ~order.live /\ order.cid = 1 /\ lock # "bound"
  /\ page.told = "cancelled" => ~order.live /\ lock # "bound"
=============================================================================
