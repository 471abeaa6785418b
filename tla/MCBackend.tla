------------------------------ MODULE MCBackend ------------------------------
(***************************************************************************)
(* The off-ledger components side by side, for TLC.  They share no state:  *)
(* what one needs of another is part of its module.  So every behaviour is *)
(* one component's, named by focus, and the others rest.  Those of which   *)
(* something must eventually come are in MCProgress.                       *)
(***************************************************************************)
EXTENDS Submissions, TradeDesk, Sessions, OrderDesk, Funding, Recovery, Screens,
        Gateway, Authoring, WalletLink, RfqScreen

CONSTANTS alice, d1, d2, c1, g1, g2, a1, r1  \* of Party, Deal, Client, Page, Account and Rfq
VARIABLE focus

vars == <<focus, SubmissionsVars, DeskVars, SessionsVars, OrderDeskVars, FundingVars,
          RecoveryVars, ScreensVars, GatewayVars, AuthoringVars, LinkVars, RfqScreenVars>>

\* A component with two concerns that do not meet is explored once for each.
Focus == {"submissions", "quotes", "settle", "keys", "deals", "orders", "funding",
          "recovery", "screens", "gates", "limits", "relay", "status", "authoring",
          "link", "page"}

\* What a component that rests starts with, where it has a choice.
Pinned ==
  /\ focus # "submissions" => kind = "create"
  /\ focus # "funding" => worth = <<1>> /\ amount = 1 /\ cosigns = FALSE
  /\ focus # "screens" => lpHeld = 0
  /\ focus # "recovery" => commands = << >> /\ wanted = 1 /\ driver = "deployed"
OneSite ==
  /\ focus # "status" => site.participant
  /\ focus # "authoring" => provider = "relay" /\ signer = a1
  /\ focus # "link" => adapter["single"] = Off
  /\ focus # "page" => rfqAt[r1].is = "none"
  /\ focus # "gates" => site.binds /\ site.operator /\ ~site.devOpen /\ site.admin /\ site.hosted
  /\ site.relays = site.hosted /\ site.allowed = {c1}

Init ==
  /\ focus \in Focus /\ Pinned
  /\ GatewayInit /\ AuthoringInit /\ LinkInit /\ RfqScreenInit /\ OneSite
  /\ SubmissionsInit /\ DeskInit /\ SessionsInit /\ OrderDeskInit /\ FundingInit
  /\ RecoveryInit /\ ScreensInit

\* Bounds of the settlement runs: one quote is accepted, and time passes while the
\* trade is live; the dealer, who could do what the trader does, funds once, signs
\* for all registries at once and takes nothing back by itself; a batch is missing for
\* one registry, if any, the requests are archived with a settlement all or none, and
\* nobody asks for a preview of a trade that is gone.
OneQuote == \A q \in Quote :
  quote'[q] = NoQuote \/
  (q = 1 /\ [quote'[q] EXCEPT !.status = "live"] =
     [status |-> "live", dealer |-> 1, tier |-> 0, posted |-> 0, expires |-> MaxTime + 1]
   /\ quote'[q].status # "withdrawn")
OneBatch == {CHOOSE a \in Admins : TRUE}
Few ==
  /\ session'["dealer"].nth <= 1
  /\ session'["dealer"].phase = "authoring" => session'["dealer"].multi
  /\ \A a \in Admins : alloc'[<<"dealer", a, 1>>] = "released" => tradeIs' = "cancelled"
  /\ asked'["dealer"] = "gone" => asked'["trader"] = "gone"
  /\ rfqIs' \notin {"expired", "cancelled"}
  /\ clock' # clock => tradeIs = "live"
  /\ settling' # NoSettle =>
       settling'.pick.admins = Admins \/ settling'.pick = [of |-> [p \in Side |-> 1], admins |-> OneBatch]
  /\ tradeIs # "live" => preview' = preview
  /\ tradeIs # tradeIs' /\ asked # asked' => \A p \in Side : asked'[p] = "gone"

\* Bounds of the session runs: either wallets sign or trades settle; the party that
\* connects first has a name, and trades start in order.
Signs == \A t \in Deal : deal'[t] = NoDeal
Deals ==
  /\ nonces' = 0
  /\ deal'[d2] # NoDeal => deal'[d1] # NoDeal
FirstIsAlice == connects = 0 => tab'.party \in {"nobody", alice}

\* Of the gateway: a request is followed until something is done for it, which the
\* handler of another does not read.
Undone == served = NoService

\* Of authoring: one page does not deal with liquidity, and requests start in order;
\* nobody takes back an allocation that locks nothing.
Requests ==
  /\ errand'[g2].step # "away" => ~errand'[g2].lp /\ errand'[g2].make # "other"
  /\ (errand'[g1].step # "away" /\ errand'[g2].step # "away") => errand'[g1].round < errand'[g2].round
  /\ \A i \in DOMAIN made' : made'[i].is = "free" => made'[i].coin # NoCoin

\* Of the RFQ page: a wallet that comes back finds what one click left.
OneClick == taps' + absences' <= 3

Rest(c) ==
  /\ UNCHANGED focus
  /\ c # "submissions" => UNCHANGED SubmissionsVars
  /\ c # "desk" => UNCHANGED DeskVars
  /\ c # "sessions" => UNCHANGED SessionsVars
  /\ c # "orders" => UNCHANGED OrderDeskVars
  /\ c # "funding" => UNCHANGED FundingVars
  /\ c # "recovery" => UNCHANGED RecoveryVars
  /\ c # "screens" => UNCHANGED ScreensVars
  /\ c # "gateway" => UNCHANGED GatewayVars
  /\ c # "authoring" => UNCHANGED AuthoringVars
  /\ c # "link" => UNCHANGED LinkVars
  /\ c # "page" => UNCHANGED RfqScreenVars

Next ==
  \/ focus = "submissions" /\ SubmissionsNext /\ Rest("submissions")
  \/ focus = "quotes" /\ DeskNext /\ asked' = asked /\ Rest("desk")
  \/ focus = "settle" /\ DeskNext /\ OneQuote /\ Few /\ Rest("desk")
  \/ focus = "keys" /\ SessionsNext /\ Signs /\ FirstIsAlice /\ Rest("sessions")
  \/ focus = "deals" /\ SessionsNext /\ Deals /\ FirstIsAlice /\ Rest("sessions")
  \/ focus = "orders" /\ OrderDeskNext /\ Rest("orders")
  \/ focus = "funding" /\ FundingNext /\ Rest("funding")
  \/ focus = "recovery" /\ RecoveryNext /\ Rest("recovery")
  \/ focus = "screens" /\ ScreensNext /\ Rest("screens")
  \/ focus = "gates" /\ Undone /\ GateNext /\ Rest("gateway")
  \/ focus = "limits" /\ LimitNext /\ Rest("gateway")
  \/ focus = "relay" /\ RelayNext /\ Rest("gateway")
  \/ focus = "status" /\ StatusNext /\ Rest("gateway")
  \/ focus = "authoring" /\ AuthoringNext /\ Requests /\ Rest("authoring")
  \/ focus = "link" /\ LinkNext /\ Rest("link")
  \/ focus = "page" /\ RfqScreenNext /\ OneClick /\ Rest("page")

\* Up to four unlocked holdings of up to three units; their order does not matter.
PurseSet == {p \in UNION {[1 .. n -> 1 .. 3] : n \in 1 .. 4} :
               \A i \in 1 .. Len(p) - 1 : p[i] <= p[i + 1]}

\* A pool that is found funded, all of it the trader's, and one that is not.
FoundPools == {[reserve |-> [base |-> 700, quote |-> 330], supply |-> 470, held |-> 470],
               [reserve |-> [base |-> 0, quote |-> 0], supply |-> 0, held |-> 0]}

Spec == Init /\ [][Next]_vars
=============================================================================
