----------------------------- MODULE ServerRate -----------------------------
(***************************************************************************)
(* The sample rate of an SDR++ server.  The server's rate is an entry of a *)
(* combo in the user interface it sends; choosing one sends an action over *)
(* the socket, which the server answers with the new interface and with    *)
(* the rate.  The reader thread (worker) reads the answers, applies a rate *)
(* that was asked for before the interface was known, and stores the rate; *)
(* the frame loop reconfigures the decoders when it differs.               *)
(*                                                                         *)
(* A rate is its index in the combo.  sendCommand takes no lock: the two   *)
(* threads' commands go out in the order they are sent.                    *)
(***************************************************************************)
EXTENDS Naturals, Sequences

CONSTANTS
    Rates,        \* the entries of the server's combo, positive numbers
    MaxRequests,  \* bound: how often the user chooses a rate
    MaxConnects   \* bound: how often the user connects

VARIABLES
    req,         \* reqSampleRate_
    known,       \* the combo has been parsed; it is kept when the connection ends
    cur,         \* srCurrentIdx_
    apply,       \* the index parseUi is about to send
    sampleRate,  \* sampleRate_, as the server last reported it
    configured,  \* lastConfiguredFs
    out, back,   \* the commands and the answers under way
    srv,         \* the rate the server runs at
    up,          \* connected and running
    asked,       \* history: the rate chosen last
    excused,     \* history: it met one of the two known races
    requests, connects

vars == <<req, known, cur, apply, sampleRate, configured, out, back, srv, up, asked,
          excused, requests, connects>>

NoRate == 0

Init ==
    /\ req = NoRate /\ known = FALSE /\ cur = NoRate /\ apply = NoRate
    /\ srv \in Rates /\ sampleRate \in Rates /\ configured = NoRate
    /\ out = <<>> /\ back = <<>> /\ up = FALSE
    /\ asked = NoRate /\ excused = FALSE /\ requests = 0 /\ connects = 0

\* Commands and answers are pairs of a kind and a rate.
Set(r) == <<"set", r>>
GetUi == <<"ui", NoRate>>
GetRate == <<"rate", NoRate>>

\* start(): the interface is asked for before and after START, then the rate.  sampleRate
\* has its default or the rate of the last connection, so the wait of startActive ends
\* after one round and the decoders are configured with that.
Connect ==
    /\ ~up /\ connects < MaxConnects
    /\ up' = TRUE /\ connects' = connects + 1
    /\ out' = <<GetUi, GetUi, GetRate>>
    /\ configured' = sampleRate
    /\ UNCHANGED <<req, known, cur, apply, sampleRate, back, srv, asked, excused, requests>>

\* stop(): what is under way is lost, the thread is joined.
Disconnect ==
    /\ up
    /\ up' = FALSE /\ out' = <<>> /\ back' = <<>> /\ apply' = NoRate
    /\ excused' = (excused \/ (req = NoRate /\ (apply # NoRate \/ \E i \in DOMAIN out : out[i][1] = "set")))
    /\ UNCHANGED <<req, known, cur, sampleRate, configured, srv, asked, requests, connects>>

\* setSampleRate, from the combo of the panel: it is remembered, and sent when the combo
\* is known.
SetSampleRate(r) ==
    /\ requests < MaxRequests
    /\ req' = r /\ asked' = r /\ requests' = requests + 1
    /\ out' = IF up /\ known THEN Append(out, Set(r)) ELSE out
    /\ excused' = (apply # NoRate)
    /\ UNCHANGED <<known, cur, apply, sampleRate, configured, back, srv, up, connects>>

\* The server carries out a command and answers with its interface and its rate.
ServerAnswers ==
    /\ out # <<>>
    /\ LET command == Head(out)[1] IN
       /\ srv' = IF command = "set" THEN Head(out)[2] ELSE srv
       /\ back' = back \o (IF command = "rate" THEN <<>> ELSE << <<"ui", srv'>> >>)
                       \o (IF command = "ui" THEN <<>> ELSE << <<"rate", srv'>> >>)
    /\ out' = Tail(out)
    /\ UNCHANGED <<req, known, cur, apply, sampleRate, configured, up, asked, excused, requests, connects>>

Read(kind) ==
    /\ up /\ apply = NoRate
    /\ back # <<>> /\ Head(back)[1] = kind
    /\ back' = Tail(back)
    /\ UNCHANGED <<configured, out, srv, up, asked, excused, requests, connects>>

\* Mutant of ParseUi: a request that was made before the interface was known is dropped.
ForgetsRequest ==
    /\ Read("ui")
    /\ known' = TRUE /\ cur' = Head(back)[2]
    /\ req' = NoRate
    /\ UNCHANGED <<apply, sampleRate>>

\* parseUi under uiMtx_: a rate asked for is applied once if the server is not at it.
ParseUi ==
    /\ Read("ui")
    /\ known' = TRUE /\ cur' = Head(back)[2]
    /\ apply' = IF req # cur' THEN req ELSE NoRate
    /\ req' = NoRate
    /\ UNCHANGED sampleRate

\* The action goes out after the mutex is released.
SendApply ==
    /\ apply # NoRate
    /\ out' = Append(out, Set(apply))
    /\ apply' = NoRate
    /\ UNCHANGED <<req, known, cur, sampleRate, configured, back, srv, up, asked, excused, requests, connects>>

\* CMD_SET_SAMPLERATE from the server.
RateReported ==
    /\ Read("rate")
    /\ sampleRate' = Head(back)[2]
    /\ UNCHANGED <<req, known, cur, apply>>

\* updateRateChange, every frame: decoders and pre-buffer are set up anew.  A followed
\* call puts it off until it ends; no call is followed here.
UpdateRateChange ==
    /\ up /\ sampleRate # configured
    /\ configured' = sampleRate
    /\ UNCHANGED <<req, known, cur, apply, sampleRate, out, back, srv, up, asked, excused, requests, connects>>

Worker == ParseUi \/ SendApply \/ RateReported

Next ==
    \/ Connect
    \/ Disconnect
    \/ \E r \in Rates : SetSampleRate(r)
    \/ ServerAnswers
    \/ ParseUi
    \/ SendApply
    \/ RateReported
    \/ UpdateRateChange

Spec == Init /\ [][Next]_vars

\* The server answers, the worker reads, frames are drawn.
Fairness == WF_vars(ServerAnswers) /\ WF_vars(Worker) /\ WF_vars(UpdateRateChange)

FairSpec == Spec /\ Fairness

-----------------------------------------------------------------------------
(* Properties                                                              *)

Quiet == up /\ out = <<>> /\ back = <<>> /\ apply = NoRate /\ known

\* When everything under way has arrived, the server runs at the rate that was chosen
\* last, also over a reconnection.  The exceptions are a choice made while the worker was
\* between deciding to apply the previous one and sending it, and one that was on its
\* way, and no longer remembered, when the connection was closed.
LastChoiceWins == Quiet /\ asked # NoRate /\ ~excused => srv = asked

\* However the default rate, the request and the server's own rate differ when a
\* connection is made, the decoders are in the end configured for the rate the server
\* really runs at, unless it is closed.
DecodersGetServerRate == up ~> (~up \/ (Quiet /\ configured = srv))

\* Both, of a connection under its combo.
RateSettles == []LastChoiceWins /\ DecodersGetServerRate
=============================================================================
