-------------------------------- MODULE MCLive -------------------------------
(***************************************************************************)
(* What must eventually happen, on small instances: operations on radios   *)
(* end, the sample rate of an SDR++ server settles, follows end, LES       *)
(* channels get decoders, the web dashboard serves. A behaviour is one of  *)
(* the part that `part' names; the variables of the others stay as they    *)
(* are. A part that stands still does so in one initial state.             *)
(***************************************************************************)
EXTENDS RadioSources, Integers

VARIABLE part   \* the part this behaviour is about

\* ServerRate
VARIABLES req, known, cur, apply, sampleRate, configured, out, back, srv, connected,
          asked, excused, requests, connects
\* Tuning
VARIABLES tuneMode, tuneDual, running, center, conf, tuneDec, panel, assigned,
          voiceFollow, follow, saved, chosen, edited, kept
\* LesChannels
VARIABLES autoAdd, second, reach, egc, table
\* WebServer
VARIABLES serving, server, box, backlog, client, tab, auto, data, shown

rates == <<req, known, cur, apply, sampleRate, configured, out, back, srv, connected,
           asked, excused, requests, connects>>
tuning == <<tuneMode, tuneDual, running, center, conf, tuneDec, panel, assigned,
            voiceFollow, follow, saved, chosen, edited, kept>>
pane == <<autoAdd, second, reach, egc, table>>
web == <<serving, server, box, backlog, client, tab, auto, data, shown>>

Rate == INSTANCE ServerRate WITH
    Rates <- {1, 2}, MaxRequests <- 3, MaxConnects <- 2, up <- connected
Tuner == INSTANCE Tuning WITH
    Bands <- {1, 2}, Modes <- {"wav"}, MaxDecoders <- 1, mode <- tuneMode,
    dual <- tuneDual, dec <- tuneDec
Les == INSTANCE LesChannels WITH
    Bands <- {1}, Band <- <<1, 1>>, Cap <- 1, MaxDecoders <- 2, tuned <- reach
Web == INSTANCE WebServer WITH
    Tabs <- {"egc", "voice"}, MaxOpen <- 2, running <- serving, thread <- server,
    ui <- box

SumInit ==
    /\ part \in {"sources", "rates", "tuning", "pane", "web"}
    /\ Init
    /\ part = "sources" \/ mode = "rtl"
    /\ Rate!Init
    /\ part = "rates" \/ (srv = 1 /\ sampleRate = 1)
    /\ Tuner!Init
    /\ part = "tuning" \/ (voiceFollow /\ panel = [r \in Tuner!Receivers |-> 1])
    /\ Les!Init
    /\ part = "pane" \/ second
    /\ Web!Init
    /\ part = "web" \/ tab = "egc"

SumNext ==
    \/ /\ part = "sources" /\ Next
       /\ UNCHANGED <<part, rates, tuning, pane, web>>
    \/ /\ part = "rates" /\ Rate!Next
       /\ UNCHANGED <<part, vars, tuning, pane, web>>
    \/ /\ part = "tuning" /\ Tuner!Next
       /\ UNCHANGED <<part, vars, rates, pane, web>>
    \/ /\ part = "pane" /\ Les!Next
       /\ UNCHANGED <<part, vars, rates, tuning, web>>
    \/ /\ part = "web" /\ Web!Next
       /\ UNCHANGED <<part, vars, rates, tuning, pane>>

sumVars == <<part, vars, rates, tuning, pane, web>>
SumSpec == SumInit /\ [][SumNext]_sumVars

\* The fairness of each part, as its module states it, asked of that part's behaviours.
SumFairSpec ==
    /\ SumSpec
    /\ WF_vars(part = "sources" /\ UiStep)
    /\ \A s \in Sources : WF_vars(part = "sources" /\ ReaderStep(s))
    /\ WF_rates(part = "rates" /\ Rate!ServerAnswers) /\ WF_rates(part = "rates" /\ Rate!Worker)
    /\ WF_rates(part = "rates" /\ Rate!UpdateRateChange)
    /\ WF_tuning(part = "tuning" /\ Tuner!Frame) /\ WF_tuning(part = "tuning" /\ Tuner!Silence)
    /\ WF_pane(part = "pane" /\ Les!AutoAdd)
    /\ WF_web(part = "web" /\ Web!Joined) /\ WF_web(part = "web" /\ Web!Bind)
    /\ WF_web(part = "web" /\ Web!Loop) /\ WF_web(part = "web" /\ Web!Select)
    /\ WF_web(part = "web" /\ Web!Recv)
    /\ WF_web(part = "web" /\ Web!Send) /\ WF_web(part = "web" /\ Web!Tick)
-----------------------------------------------------------------------------
(* The properties of the parts, as their modules state them; that of       *)
(* RadioSources is OperationsEndOrReaderNotWoken of its module.            *)

\* The last rate chosen wins, and the decoders are configured for the server's rate.
RateSettles == part = "rates" => Rate!RateSettles

\* A follow ends when the call falls silent.
FollowEnds == part = "tuning" => Tuner!FollowEnds

\* A new LES channel gets one decoder.
EachChannelGetsOne == part = "pane" => Les!EachChannelGetsOne

\* The server stops, and an open tab is shown, unless a silent client holds it up.
DashboardServes == part = "web" => Web!DashboardServes
=============================================================================
