----------------------------- MODULE MCClients -----------------------------
(* Instances of the clients' stateful parts for TLC: the session of a tab, a  *)
(* chat, the offers' socket, the notification panel, the notifications screen *)
(* and the toasts, the checkout, the plan analysis, and the way of a request *)
(* to its handler. They share nothing but the backend, so one of them runs    *)
(* and the others stay as they are.                                           *)
EXTENDS Session, Chat, Socket, Panel, Feed, Checkout, Analysis, Calls

VARIABLE part   \* which one runs

clientVars ==
  <<vars, chatVars, socketVars, panelVars, feedVars, checkoutVars, analysisVars, callVars, part>>

Parts == {"session", "chat", "socket", "panel", "feed", "toasts", "checkout", "analysis", "calls"}

AnyCall == CHOOSE c \in WebCalls : TRUE

\* The initial state of a part that does not run: nothing is under way in it.
ClientsInit ==
  /\ part \in Parts
  /\ Init /\ (part # "session" => sameSite)
  /\ ChatInit /\ (part # "chat" => client = "useChat" /\ logged = 0)
  /\ SocketInit /\ (part # "socket" => building = "b1")
  /\ PanelInit /\ (part # "panel" => notes = NoView)
  /\ FeedInit /\ (part # "feed" => born = 0 /\ readIds = {})
  /\ CheckoutInit /\ (part # "checkout" => provider = "mock")
  /\ AnalysisInit /\ (part # "analysis" => app = "web")
  /\ CallsInit /\ (part # "calls" => wanted = AnyCall)

Others(p) ==
  /\ p # "session"  => UNCHANGED vars
  /\ p # "chat"     => UNCHANGED chatVars
  /\ p # "socket"   => UNCHANGED socketVars
  /\ p # "panel"    => UNCHANGED panelVars
  /\ p \notin {"feed", "toasts"} => UNCHANGED feedVars
  /\ p # "checkout" => UNCHANGED checkoutVars
  /\ p # "analysis" => UNCHANGED analysisVars
  /\ p # "calls"    => UNCHANGED callVars
  /\ part' = p

ClientsNext ==
  \/ part = "session"  /\ Next         /\ Others("session")
  \/ part = "chat"     /\ ChatNext     /\ Others("chat")
  \/ part = "socket"   /\ SocketNext   /\ Others("socket")
  \/ part = "panel"    /\ PanelNext    /\ Others("panel")
  \/ part = "feed"     /\ ListNext     /\ Others("feed")
  \/ part = "toasts"   /\ ToastNext    /\ Others("toasts")
  \/ part = "checkout" /\ CheckoutNext /\ Others("checkout")
  \/ part = "analysis" /\ AnalysisNext /\ Others("analysis")
  \/ part = "calls"    /\ CallsNext    /\ Others("calls")

ClientsSpec ==
  ClientsInit /\ [][ClientsNext]_clientVars /\ Fairness /\ ChatFairness /\ AnalysisFairness

\* Types of all the parts.
ClientsTypeOK ==
  /\ TypeOK /\ ChatTypeOK /\ SocketTypeOK /\ PanelTypeOK
  /\ FeedTypeOK /\ CheckoutTypeOK /\ AnalysisTypeOK /\ CallsTypeOK

\* Whatever the user waits for comes to an end: a message (sendMessage), the polling
\* of an analysis (pollFor).
WaitsEnd == SendEnds /\ AnalysisEnds

============================================================================
