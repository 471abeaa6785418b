----------------------------- MODULE MCProgress -----------------------------
(***************************************************************************)
(* The components of which something must eventually come, side by side,   *)
(* for TLC: the indexer with its feeds, the settlement of a pool flow, and *)
(* the hosted wallet.  As in MCBackend a behaviour is one component's; the *)
(* indexer's are explored once for what it follows of the pool and once    *)
(* for the RFQ and its trade, which do not meet.                           *)
(***************************************************************************)
EXTENDS Feeds, PoolDesk, HostedWallet

VARIABLE focus

vars == <<focus, IndexerVars, PoolDeskVars, WalletVars>>

Focus == {"pools", "rfqs", "flow", "wallet"}

Pinned ==
  /\ focus # "rfqs" => side = "buy"
  /\ focus # "flow" => flow = "swap"
  /\ focus # "wallet" => strict = FALSE

Init == focus \in Focus /\ Pinned /\ IndexerInit /\ PoolDeskInit /\ WalletInit

\* A task of the other concern, which only holds the flag, answers before those that are
\* followed.
Before(j, k) == \A t \in Tick : task'[t][k] # task[t][k] => task[t][j].phase = "idle"
OfPools == /\ rfq' = "none"
           /\ Before("trades", "rfqs") /\ Before("rfqs", "pools")
OfRfqs  == /\ ~listed'
           /\ Before("pools", "rfqs") /\ Before("pools", "trades")

\* A second tick is one that overlaps, and a behaviour is left with a belated write, after
\* which nothing is claimed: what one does is the question of Indexer_overlap.
Second == (running = 0 /\ running' = 2) => \E k \in Tasks : Reading(1, k)
InTime == focus \notin belated'

Index == IndexerNext /\ Second /\ InTime /\ UNCHANGED <<PoolDeskVars, WalletVars>>

Next ==
  /\ UNCHANGED focus
  /\ \/ focus = "pools" /\ Index /\ OfPools
     \/ focus = "rfqs" /\ Index /\ OfRfqs
     \/ focus = "flow" /\ PoolDeskNext /\ UNCHANGED <<IndexerVars, WalletVars>>
     \/ focus = "wallet" /\ WalletNext /\ UNCHANGED <<IndexerVars, PoolDeskVars>>

\* The fairness of the components.
Fair ==
  /\ \A t \in Tick : WF_IndexerVars(focus \in {"pools", "rfqs"} /\ Polls(t))
  /\ WF_PoolDeskVars(focus = "flow" /\ Serving)
  /\ WF_PoolDeskVars(focus = "flow" /\ Responding)
  /\ \A t \in Tab : WF_WalletVars(focus = "wallet" /\ (Onboard(t) \/ Serve(t)))

Spec == Init /\ [][Next]_vars /\ Fair
=============================================================================
