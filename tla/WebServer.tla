------------------------------ MODULE WebServer ------------------------------
(***************************************************************************)
(* The web dashboard: the server thread, which serves one connection at a  *)
(* time, the checkbox that starts and stops it on the UI thread, and the   *)
(* page in the browser.                                                    *)
(*                                                                         *)
(* A connection is a fetch of the page, named by the endpoint it asks for, *)
(* or a client that is "silent": it connects and neither sends a request   *)
(* nor reads until it goes away.  An answer is named by its endpoint; what *)
(* the lists hold is left out.                                             *)
(***************************************************************************)
EXTENDS Naturals, Sequences, SequencesExt

CONSTANTS
    Tabs,       \* the tabs of the page: "voice" and others
    MaxOpen     \* bound on the connections

Endpoint(t) == IF t = "voice" THEN "voicecalls" ELSE t
Endpoints   == {Endpoint(t) : t \in Tabs}
Nothing     == "nothing"

VARIABLES
    running,    \* running_
    thread,     \* "off" "bind" "loop" "select" "recv" "send" "ended"
    ui,         \* the UI thread is "free" or in "join"
    backlog,    \* connections not yet accepted, oldest first
    client,     \* the connection served
    tab, auto,  \* the tab of the page and its refresh box
    data,       \* the page's store: endpoint -> of which endpoint the rows are
    shown       \* [tab, rows]: what renderTab drew last

vars == <<running, thread, ui, backlog, client, tab, auto, data, shown>>

Init ==
    /\ running = FALSE /\ thread = "off" /\ ui = "free"
    /\ backlog = <<>> /\ client = Nothing
    /\ tab \in Tabs /\ auto = TRUE
    /\ data = [e \in Endpoints |-> Nothing] /\ shown = [tab |-> Nothing, rows |-> Nothing]

page   == <<tab, auto, data, shown>>
server == <<running, thread, ui, backlog, client>>

\* The checkbox (and main, at launch).  start() calls stop() first; the thread is off.
Enable ==
    /\ ui = "free" /\ ~running
    /\ running' = TRUE /\ thread' = "bind"
    /\ UNCHANGED <<ui, backlog, client, page>>

Disable ==
    /\ ui = "free" /\ running
    /\ running' = FALSE /\ ui' = "join"
    /\ UNCHANGED <<thread, backlog, client, page>>

Joined ==
    /\ ui = "join" /\ thread = "ended"
    /\ ui' = "free" /\ thread' = "off"
    /\ UNCHANGED <<running, backlog, client, page>>

\* A port in use ends the thread and leaves running_ set.
Bind ==
    /\ thread = "bind"
    /\ thread' \in {"loop", "ended"}
    /\ UNCHANGED <<running, ui, backlog, client, page>>

\* Mutant of Loop: running_ is tested only when nobody waits.
TestsWhenIdle ==
    /\ thread = "loop"
    /\ \/ /\ running \/ backlog # <<>>
          /\ thread' = "select" /\ UNCHANGED backlog
       \/ /\ ~running /\ backlog = <<>>
          /\ thread' = "ended" /\ UNCHANGED backlog
    /\ UNCHANGED <<running, ui, client, page>>

\* The head of the loop; closing the socket resets whoever waits.
Loop ==
    /\ thread = "loop"
    /\ \/ running /\ thread' = "select" /\ UNCHANGED backlog
       \/ ~running /\ thread' = "ended" /\ backlog' = <<>>
    /\ UNCHANGED <<running, ui, client, page>>

\* select() and accept(); after 200 ms without a connection back to the test.
Select ==
    /\ thread = "select"
    /\ IF backlog # <<>>
       THEN client' = Head(backlog) /\ backlog' = Tail(backlog) /\ thread' = "recv"
       ELSE thread' = "loop" /\ UNCHANGED <<client, backlog>>
    /\ UNCHANGED <<running, ui, page>>

\* recv() has no timeout: it waits for the request or the end of the client.
Recv ==
    /\ thread = "recv" /\ client # "silent"
    /\ thread' = IF client = Nothing THEN "loop" ELSE "send"
    /\ UNCHANGED <<running, ui, backlog, client, page>>

\* The store of the page after an answer of endpoint e: under the endpoint of the tab
\* of now, and drawn from the name of the tab.
Stored(e) == [data EXCEPT ![Endpoint(tab)] = e]
Drawn(d)  == [tab |-> tab, rows |-> IF tab \in Endpoints THEN d[tab] ELSE Nothing]

\* The list is taken, answered, and the page's then() runs.
Send ==
    /\ thread = "send"
    /\ data' = Stored(client)
    /\ shown' = Drawn(data')
    /\ client' = Nothing /\ thread' = "loop"
    /\ UNCHANGED <<running, ui, backlog, tab, auto>>

Listening == thread \in {"loop", "select", "recv", "send"}

Connected(c) == IF Listening THEN Append(backlog, c) ELSE backlog

\* fetchData() by the timer; without a listener the fetch fails and is forgotten.
Tick ==
    /\ auto /\ Len(backlog) < MaxOpen
    /\ backlog' = Connected(Endpoint(tab))
    /\ UNCHANGED <<running, thread, ui, client, page>>

PressTab(t) ==
    /\ t # tab /\ Len(backlog) < MaxOpen
    /\ tab' = t
    /\ backlog' = Connected(Endpoint(t))
    /\ UNCHANGED <<running, thread, ui, client, auto, data, shown>>

ToggleAuto ==
    /\ auto' = ~auto
    /\ UNCHANGED <<server, tab, data, shown>>

\* One silent client at a time.
SilentConnects ==
    /\ client # "silent" /\ ~Contains(backlog, "silent")
    /\ Len(backlog) < MaxOpen /\ Listening
    /\ backlog' = Append(backlog, "silent")
    /\ UNCHANGED <<running, thread, ui, client, page>>

SilentLeaves ==
    \/ /\ client = "silent" /\ client' = Nothing
       /\ UNCHANGED <<running, thread, ui, backlog, page>>
    \/ /\ Contains(backlog, "silent") /\ backlog' = Remove(backlog, "silent")
       /\ UNCHANGED <<running, thread, ui, client, page>>

Next ==
    \/ Enable \/ Disable \/ Joined \/ Bind \/ Loop \/ Select \/ Recv \/ Send
    \/ Tick \/ ToggleAuto \/ SilentConnects \/ SilentLeaves
    \/ \E t \in Tabs : PressTab(t)

Spec == Init /\ [][Next]_vars

\* The threads and the timer go on; nobody has to click, and a silent client may stay.
Fairness ==
    /\ WF_vars(Joined) /\ WF_vars(Bind) /\ WF_vars(Loop) /\ WF_vars(Select)
    /\ WF_vars(Recv) /\ WF_vars(Send) /\ WF_vars(Tick)

FairSpec == Spec /\ Fairness
-----------------------------------------------------------------------------
(* Properties                                                              *)

\* The window gets past stop() however busy the server is, unless a client that sends
\* nothing is being served.
StopReturnsOrClientSilent == ui = "join" ~> ui = "free" \/ client = "silent"

\* A tab that stays open with the refresh box set is shown again and again with its own
\* rows, whatever was asked before and however late it was answered, while the server
\* runs and no silent client holds it up; but for the voice tab, whose rows are stored
\* under another name than they are read.
OpenTabIsShown ==
    \A t \in Tabs \ {"voice"} :
        <>[](auto /\ tab = t /\ running /\ thread # "ended" /\ client # "silent")
            => []<>(shown = [tab |-> t, rows |-> Endpoint(t)])

\* Both, of the server under its checkbox.
DashboardServes == StopReturnsOrClientSilent /\ OpenTabIsShown
=============================================================================
