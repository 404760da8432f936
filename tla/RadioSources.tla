---------------------------- MODULE RadioSources ----------------------------
(***************************************************************************)
(* The life cycle of the SDR sources: startActive, the Stop button, the    *)
(* Source combo, the SDRplay failure check and the end of main run start() *)
(* and stop() of the sources in some order, while the reader thread of a   *)
(* source delivers blocks, loses its device or ends by itself.             *)
(*                                                                         *)
(* The UI thread works off todo, a sequence of <<operation, source>>.      *)
(* stop() is two of them: what it does before join() and the rest.  A      *)
(* reader thread is at "start", "loop" (about to test whether to go on),   *)
(* "recv" (in the blocking call), "cb" (in the sample callback) or "end"   *)
(* (returned, not joined); "none" is a std::thread that is not joinable.   *)
(* HackRF and Airspy have a thread of the vendor's library instead.        *)
(*                                                                         *)
(* Socket descriptors are numbers that the rest of the program (feed, web  *)
(* server, log files) takes and returns as well.                           *)
(***************************************************************************)
EXTENDS Naturals, Sequences, FiniteSets

CONSTANTS
    Modes,   \* the entries of the Source combo that are used
    Fds      \* descriptor numbers

ASSUME RadioAssumption ==
    /\ Modes \subseteq {"rtl", "dual", "rtltcp", "server", "wav", "hackrf", "airspy", "pluto",
                       "sdrplay", "sdrplay2"}
    /\ Fds \subseteq Nat \ {0}

Sources == {"sdr", "sdrB", "wav", "server", "hack", "airspy", "rtltcp",
            "pluto", "rsp", "rspB"}
Rtl     == {"sdr", "sdrB"}
Rsp     == {"rsp", "rspB"}
Library == {"hack", "airspy"}
FeedsB  == {"sdrB", "rspB"}
NoFd    == 0

VARIABLES
    mode,            \* sourceMode; "sdrplay2" is SDRplay with a second receiver
    active, activeB, \* the sources the pointers name
    dual,            \* dualMode
    todo,            \* what the UI thread has still to do
    thread,          \* where each reader thread is
    run,             \* running_
    open,            \* the device, context, stream or socket is held
    device,          \* the SDRplay devices that prepare() has opened
    woken,           \* stop() has ended the blocking call of the reader
    sock,            \* sock_ of the two network sources
    rfd,             \* the descriptor recvLoop has copied
    owner,           \* who has each descriptor: "free", "other" or a source
    gone             \* the rings and managers have been destroyed

\* History: what a source did to a descriptor of somebody else since the last button,
\* whether a failed handshake has left sock_ behind, and the joinable threads lost.
VARIABLES touched, badHandshake, overwritten

session == <<mode, active, activeB, dual>>
readers == <<thread, run, open, woken>>
fds     == <<sock, rfd, owner, touched, badHandshake>>
sources == <<readers, device, sock, rfd, owner, badHandshake, gone, overwritten>>
vars    == <<session, todo, sources, touched>>

Init ==
    /\ mode \in Modes /\ active = "sdr" /\ activeB = "sdrB" /\ dual = FALSE
    /\ todo = <<>> /\ gone = FALSE
    /\ thread = [s \in Sources |-> "none"]
    /\ run = [s \in Sources |-> FALSE]
    /\ open = [s \in Sources |-> FALSE]
    /\ woken = [s \in Sources |-> FALSE]
    /\ device = {}
    /\ sock = [s \in {"rtltcp", "server"} |-> NoFd] /\ rfd = NoFd
    /\ owner = [d \in Fds |-> "free"]
    /\ touched = {} /\ badHandshake = FALSE /\ overwritten = {}

Idle == todo = <<>>
Doing == IF Idle THEN <<>> ELSE Head(todo)

\* The next thing the UI thread does is `what' to s; `more' comes right after.
Do(what, s, more) ==
    /\ Doing = <<what, s>>
    /\ todo' = more \o Tail(todo)

StopOf(s)  == << <<"signal", s>>, <<"join", s>> >>
CloseOf(s) == StopOf(s) \o << <<"unmake", s>> >>

-----------------------------------------------------------------------------
(* start()                                                                 *)

\* The new thread runs; a joinable one would end the program.
Launch(s, where) ==
    /\ overwritten' = IF thread[s] = "none" THEN overwritten ELSE overwritten \cup {s}
    /\ thread' = [thread EXCEPT ![s] = where]
    /\ run' = [run EXCEPT ![s] = TRUE]
    /\ open' = [open EXCEPT ![s] = TRUE]
    /\ woken' = [woken EXCEPT ![s] = FALSE]

Fails == UNCHANGED <<readers, device, fds, overwritten>>

\* RTL-SDR: no device, bad index, open error, or the thread is launched.
RtlStart(s) ==
    /\ s \in Rtl
    /\ ~run[s]
    /\ Launch(s, "start")
    /\ UNCHANGED <<device, fds>>

WavStart(s) ==
    /\ s = "wav"
    /\ ~run[s]
    /\ Launch(s, "start")
    /\ UNCHANGED <<device, fds>>

\* The samples come from a thread of the vendor's library.
HackRfStart(s) ==
    /\ s = "hack"
    /\ ~run[s]
    /\ Launch(s, "recv")
    /\ UNCHANGED <<device, fds>>

AirspyStart(s) ==
    /\ s = "airspy"
    /\ ~run[s]
    /\ Launch(s, "recv")
    /\ UNCHANGED <<device, fds>>

\* A thread that has ended is joined first.
PlutoStart(s) ==
    /\ s = "pluto"
    /\ ~run[s]
    /\ thread[s] \in {"none", "end"}
    /\ thread' = [thread EXCEPT ![s] = "start"]
    /\ run' = [run EXCEPT ![s] = TRUE]
    /\ open' = [open EXCEPT ![s] = TRUE]
    /\ woken' = [woken EXCEPT ![s] = FALSE]
    /\ UNCHANGED <<device, fds, overwritten>>

FreeFds == {d \in Fds : owner[d] = "free"}
LowestFree == CHOOSE d \in FreeFds : \A e \in FreeFds : d <= e

\* Connected; the socket gets the lowest free descriptor.
Connect(s) ==
    /\ FreeFds # {}
    /\ owner' = [owner EXCEPT ![LowestFree] = s]
    /\ sock' = [sock EXCEPT ![s] = LowestFree]

ServerStart(s) ==
    /\ s = "server"
    /\ ~run[s]
    /\ Connect(s)
    /\ Launch(s, "start")
    /\ UNCHANGED <<device, rfd, touched, badHandshake>>

RtlTcpStart(s) ==
    /\ s = "rtltcp"
    /\ Connect(s)
    /\ Launch(s, "start")
    /\ UNCHANGED <<device, rfd, touched, badHandshake>>

\* The dongle header is missing or wrong: the descriptor is closed again, but
\* sock_ keeps its number.
RtlTcpBadHandshake(s) ==
    /\ s = "rtltcp" /\ FreeFds # {}
    /\ sock' = [sock EXCEPT ![s] = LowestFree]
    /\ badHandshake' = TRUE
    /\ UNCHANGED <<readers, device, rfd, owner, touched, overwritten>>

\* prepare(), apply() and start() of an SDRplay: the device may be opened and a
\* later call fail.
RspPrepareFails(s) ==
    /\ s \in Rsp
    /\ device' = device \cup {s}
    /\ UNCHANGED <<readers, fds, overwritten>>

RspStart(s) ==
    /\ s \in Rsp
    /\ ~run[s]
    /\ device' = device \cup {s}
    /\ Launch(s, "start")
    /\ UNCHANGED fds

Starts(s) ==
    \/ RtlStart(s) \/ WavStart(s) \/ HackRfStart(s) \/ AirspyStart(s)
    \/ PlutoStart(s) \/ ServerStart(s) \/ RtlTcpStart(s) \/ RspStart(s)

StartFails(s) == Fails \/ RtlTcpBadHandshake(s) \/ RspPrepareFails(s)

-----------------------------------------------------------------------------
(* stop(), up to the join                                                  *)

\* The cancellation reaches librtlsdr only while it reads.
RtlSignal(s) ==
    /\ s \in Rtl
    /\ woken' = [woken EXCEPT ![s] = open[s] /\ thread[s] \in {"loop", "recv", "cb"}]
    /\ UNCHANGED <<thread, run, open, fds>>

WavSignal(s) ==
    /\ s = "wav"
    /\ run' = [run EXCEPT ![s] = FALSE]
    /\ UNCHANGED <<thread, open, woken, fds>>

RspSignal(s) ==
    /\ s \in Rsp
    /\ run' = [run EXCEPT ![s] = FALSE]
    /\ UNCHANGED <<thread, open, woken, fds>>

PlutoSignal(s) ==
    /\ s = "pluto"
    /\ run' = [run EXCEPT ![s] = FALSE]
    /\ woken' = [woken EXCEPT ![s] = open[s]]
    /\ UNCHANGED <<thread, open, fds>>

\* stop_rx returns when the library runs no callback any more.
LibrarySignal(s) ==
    /\ s \in Library
    /\ open[s] => thread[s] # "cb"
    /\ thread' = [thread EXCEPT ![s] = "none"]
    /\ run' = [run EXCEPT ![s] = FALSE]
    /\ open' = [open EXCEPT ![s] = FALSE]
    /\ UNCHANGED <<woken, fds>>

\* close(d), whoever has it by now.
CloseFd(s, d) ==
    /\ owner' = [owner EXCEPT ![d] = "free"]
    /\ touched' = IF owner[d] # "other" THEN touched
                  ELSE touched \cup {<<s, IF badHandshake THEN "closed before" ELSE "close">>}

\* Mutant of RtlTcpSignal: the descriptor stays in sock_ and is closed once more.
KeepsSocket(s) ==
    /\ s = "rtltcp"
    /\ run' = [run EXCEPT ![s] = FALSE]
    /\ IF sock[s] = NoFd
       THEN UNCHANGED <<owner, touched, woken>>
       ELSE CloseFd(s, sock[s]) /\ woken' = [woken EXCEPT ![s] = TRUE]
    /\ badHandshake' = FALSE
    /\ UNCHANGED <<thread, open, sock, rfd>>

\* Mutant of RtlTcpSignal: stop() without shutdown().
ClosesOnly(s) ==
    /\ s = "rtltcp"
    /\ run' = [run EXCEPT ![s] = FALSE]
    /\ IF sock[s] = NoFd THEN UNCHANGED <<owner, touched>> ELSE CloseFd(s, sock[s])
    /\ sock' = [sock EXCEPT ![s] = NoFd]
    /\ badHandshake' = FALSE
    /\ UNCHANGED <<thread, open, woken, rfd>>

\* sock_ is taken under its mutex, shut down and closed.
RtlTcpSignal(s) ==
    /\ s = "rtltcp"
    /\ run' = [run EXCEPT ![s] = FALSE]
    /\ IF sock[s] = NoFd
       THEN UNCHANGED <<owner, touched, woken>>
       ELSE CloseFd(s, sock[s]) /\ woken' = [woken EXCEPT ![s] = TRUE]
    /\ sock' = [sock EXCEPT ![s] = NoFd]
    /\ badHandshake' = FALSE
    /\ UNCHANGED <<thread, open, rfd>>

\* The socket is closed without shutdown(): whether that ends a recv() under way
\* depends on the system.
ServerSignal(s) ==
    /\ s = "server"
    /\ run' = [run EXCEPT ![s] = FALSE]
    /\ IF sock[s] = NoFd
       THEN UNCHANGED <<owner, touched, woken>>
       ELSE /\ CloseFd(s, sock[s])
            /\ \E w \in BOOLEAN : woken' = [woken EXCEPT ![s] = w]
    /\ sock' = [sock EXCEPT ![s] = NoFd]
    /\ UNCHANGED <<thread, open, rfd, badHandshake>>

Signal(s) ==
    /\ Do("signal", s, <<>>)
    /\ \/ RtlSignal(s) \/ WavSignal(s) \/ RspSignal(s) \/ PlutoSignal(s)
       \/ LibrarySignal(s) \/ RtlTcpSignal(s) \/ ServerSignal(s)
    /\ UNCHANGED <<session, device, gone, overwritten>>

\* stop() after the join: the device or stream is closed.
Join(s) ==
    /\ Do("join", s, <<>>)
    /\ thread[s] \in {"none", "end"}
    /\ thread' = [thread EXCEPT ![s] = "none"]
    /\ run' = [run EXCEPT ![s] = FALSE]
    /\ open' = [open EXCEPT ![s] = FALSE]
    /\ woken' = [woken EXCEPT ![s] = FALSE]
    /\ rfd' = IF s = "rtltcp" THEN NoFd ELSE rfd
    /\ UNCHANGED <<session, device, sock, owner, touched, badHandshake, gone, overwritten>>

\* The rest of SdrplaySource::close().
Unmake(s) ==
    /\ Do("unmake", s, <<>>)
    /\ device' = device \ {s}
    /\ UNCHANGED <<session, readers, fds, gone, overwritten>>

-----------------------------------------------------------------------------
(* The reader threads                                                      *)

Goes(s, here, there) ==
    /\ thread[s] = here
    /\ thread' = [thread EXCEPT ![s] = there]

\* recvLoop copies sock_, or returns if stop() was first.
ThreadBegins(s) ==
    /\ Goes(s, "start", IF s = "rtltcp" /\ sock[s] = NoFd THEN "end" ELSE "loop")
    /\ rfd' = IF s = "rtltcp" THEN sock[s] ELSE rfd
    /\ UNCHANGED <<session, todo, run, open, woken, device, sock, owner, touched,
                   badHandshake, gone, overwritten>>

\* rtlsdr_read_async goes on until it is cancelled, the loops while running_.
GoesOn(s) == IF s \in Rtl THEN ~woken[s] ELSE run[s]

Reads(s) == IF s = "rtltcp" THEN rfd ELSE IF s = "server" THEN sock[s] ELSE NoFd

\* The test of the loop, then the blocking call: on a descriptor that may have
\* changed hands since.
ReaderCalls(s) ==
    /\ GoesOn(s) /\ s \notin Library
    /\ Goes(s, "loop", "recv")
    /\ UNCHANGED <<session, todo, run, open, woken, device, fds, gone, overwritten>>

ReadsForeign(s) ==
    /\ thread[s] = "recv" /\ Reads(s) # NoFd /\ owner[Reads(s)] = "other"
    /\ touched' = touched \cup {<<s, "recv">>}
    /\ UNCHANGED <<session, todo, readers, device, sock, rfd, owner, badHandshake, gone,
                   overwritten>>

\* The reader returns: a failed read, or the loop's test.
Ends(s, here) ==
    /\ Goes(s, here, "end")
    /\ run' = [run EXCEPT ![s] = FALSE]
    /\ UNCHANGED <<session, todo, open, woken, device, fds, gone, overwritten>>

ReaderLeaves(s) == ~GoesOn(s) /\ Ends(s, "loop")

\* The call returns because stop() has woken it.
Wakes(s) == woken[s] /\ s \notin Rsp /\ Ends(s, "recv")

\* readStream has a time-out; a file always gives the next block.
ReturnsInTime(s) ==
    /\ s \in Rsp \cup {"wav"}
    /\ Goes(s, "recv", IF s = "wav" THEN "cb" ELSE "loop")
    /\ UNCHANGED <<session, todo, run, open, woken, device, fds, gone, overwritten>>

\* The device is unplugged, the server closes the connection, the file ends.
DeviceLost(s) == s \notin Library /\ Ends(s, "recv")

\* Samples arrive: the callback runs.  stop_rx() makes the vendor's library deliver
\* no more while it waits for the callback under way.
SamplesArrive(s) ==
    /\ s \in Library => run[s] /\ Doing # <<"signal", s>>
    /\ Goes(s, "recv", "cb")
    /\ UNCHANGED <<session, todo, run, open, woken, device, fds, gone, overwritten>>

CallbackReturns(s) ==
    /\ Goes(s, "cb", IF s \in Library THEN "recv" ELSE "loop")
    /\ UNCHANGED <<session, todo, run, open, woken, device, fds, gone, overwritten>>

-----------------------------------------------------------------------------
(* The UI thread                                                           *)

SourceOf(m) ==
    CASE m \in {"rtl", "dual"} -> "sdr"
      [] m \in {"sdrplay", "sdrplay2"} -> "rsp"
      [] m = "hackrf" -> "hack"
      [] OTHER -> m

\* Mutant of PressStart: receiver B is left alone.
StopsAOnly ==
    /\ Idle /\ ~gone /\ ~run[active]
    /\ todo' = StopOf(active) \o << <<"begin", SourceOf(mode)>> >>
    /\ dual' = FALSE
    /\ touched' = {}
    /\ UNCHANGED <<mode, active, activeB, sources>>

\* The Start button, shown while the active source does not run.
PressStart ==
    /\ Idle /\ ~gone /\ ~run[active]
    /\ todo' = StopOf(activeB) \o StopOf(active)
               \o (IF SourceOf(mode) = "rsp" THEN CloseOf("rspB") \o CloseOf("rsp") ELSE <<>>)
               \o << <<"begin", SourceOf(mode)>> >>
    /\ dual' = FALSE
    /\ touched' = {}
    /\ UNCHANGED <<mode, active, activeB, sources>>

\* The branch of the source mode: the pointers move, the source starts or not.
BeginSource(s) ==
    /\ active' = s
    /\ activeB' = IF s = "rsp" THEN "rspB" ELSE "sdrB"
    /\ \/ Starts(s) /\ Do("begin", s, CASE mode = "dual" -> << <<"second", "sdrB">> >>
                                        [] mode = "sdrplay2" -> << <<"second", "rspB">> >>
                                        [] OTHER -> <<>>)
       \/ StartFails(s) /\ Do("begin", s, <<>>)
    /\ UNCHANGED <<mode, dual, gone>>

\* The second receiver; without it a dual RTL runs on, an SDRplay is closed.
BeginSecond(s) ==
    /\ \/ Starts(s) /\ Do("second", s, <<>>) /\ dual' = TRUE
       \/ /\ StartFails(s) /\ dual' = FALSE
          /\ Do("second", s, IF s = "rspB" THEN CloseOf("rspB") \o CloseOf("rsp") ELSE <<>>)
    /\ UNCHANGED <<mode, active, activeB, gone>>

PressStop ==
    /\ Idle /\ ~gone /\ run[active]
    /\ todo' = StopOf(activeB) \o StopOf(active) \o (IF dual THEN StopOf("sdrB") ELSE <<>>)
    /\ dual' = FALSE
    /\ touched' = {}
    /\ UNCHANGED <<mode, active, activeB, sources>>

\* The Source combo, disabled while the active source runs.
ChooseSource(m) ==
    /\ Idle /\ ~gone /\ ~run[active] /\ m # mode
    /\ mode' = m
    /\ todo' = CloseOf("rspB") \o CloseOf("rsp")
    /\ touched' = {}
    /\ UNCHANGED <<active, activeB, dual, sources>>

\* A stream of an SDRplay is open and its reader has ended.
StreamFailed ==
    /\ Idle /\ ~gone /\ mode \in {"sdrplay", "sdrplay2"}
    /\ \E s \in Rsp : open[s] /\ ~run[s]
    /\ todo' = StopOf("rspB") \o StopOf("rsp")
    /\ dual' = FALSE
    /\ touched' = {}
    /\ UNCHANGED <<mode, active, activeB, sources>>

\* The end of main: the sources it stops, then ~App: the members of App in
\* reverse order, the rings and managers before most of the sources.
Exit ==
    /\ Idle /\ ~gone
    /\ todo' = CloseOf("rspB") \o CloseOf("rsp") \o StopOf("sdr") \o StopOf("sdrB")
               \o StopOf("wav") \o StopOf("server") \o StopOf("hack")
               \o << <<"destroy", "app">> >>
               \o StopOf("pluto") \o StopOf("airspy") \o StopOf("rtltcp")
    /\ touched' = {}
    /\ UNCHANGED <<session, sources>>

Destroy ==
    /\ Do("destroy", "app", <<>>)
    /\ gone' = TRUE
    /\ UNCHANGED <<session, readers, device, fds, overwritten>>

\* The rest of the program opens and closes descriptors.
OthersOpen ==
    /\ FreeFds # {} /\ ~gone
    /\ owner' = [owner EXCEPT ![LowestFree] = "other"]
    /\ UNCHANGED <<session, todo, readers, device, sock, rfd, touched, badHandshake, gone,
                   overwritten>>

OthersClose(d) ==
    /\ owner[d] = "other"
    /\ owner' = [owner EXCEPT ![d] = "free"]
    /\ UNCHANGED <<session, todo, readers, device, sock, rfd, touched, badHandshake, gone,
                   overwritten>>

UiStep ==
    \/ \E s \in Sources : Signal(s) \/ Join(s) \/ Unmake(s)
    \/ \E s \in Sources : BeginSource(s) \/ BeginSecond(s)
    \/ Destroy

ReaderStep(s) ==
    ThreadBegins(s) \/ ReaderCalls(s) \/ ReaderLeaves(s) \/ Wakes(s) \/ ReturnsInTime(s)
    \/ CallbackReturns(s)

Next ==
    \/ UiStep
    \/ PressStart \/ PressStop \/ StreamFailed \/ Exit
    \/ \E m \in Modes : ChooseSource(m)
    \/ \E s \in Sources : ReaderStep(s)
    \/ \E s \in Sources : DeviceLost(s) \/ SamplesArrive(s) \/ ReadsForeign(s)
    \/ OthersOpen
    \/ \E d \in Fds : OthersClose(d)

Spec == Init /\ [][Next]_vars

\* The UI thread goes on with an operation it has begun, a reader thread with its
\* loop; no button is pressed, no sample arrives and no device is lost by duty.
Fairness ==
    /\ WF_vars(UiStep)
    /\ \A s \in Sources : WF_vars(ReaderStep(s))

FairSpec == Spec /\ Fairness
-----------------------------------------------------------------------------
(* Properties                                                              *)

\* Two sources never feed the same receiver: whatever was chosen, started, lost or
\* refused before, at most one source delivers to manager A and one to manager B.
OneRadioPerReceiver ==
    \A s, t \in {x \in Sources : thread[x] \notin {"none", "end"}} :
        (s \in FeedsB) = (t \in FeedsB) => s = t

\* start() never assigns to a std::thread that is still joinable, which would end
\* the program: also a reader that ended by itself has been joined before.
NoThreadOverwritten == overwritten = {}

\* A source uses a descriptor that somebody else has by now in two cases only:
\* rtl_tcp closes sock_ a second time after a handshake that failed, and a reader
\* that tested running_ before stop() closed the socket reads from its number.
ForeignDescriptorOnlyAfterBadHandshakeOrClose ==
    touched \subseteq {<<"rtltcp", "closed before">>, <<"rtltcp", "recv">>, <<"server", "recv">>}

\* After the rings and managers are destroyed only the three sources that the end
\* of main does not stop can still run their callback, into memory that is gone.
CallbackAfterDestructionOnlyOfUnstopped ==
    gone => \A s \in Sources : thread[s] = "cb" => s \in {"rtltcp", "airspy", "pluto"}

\* Threads, descriptors, callbacks: nothing joinable is overwritten, nothing of others or
\* gone is used, but for the cases named.
HandlesAreTheirOwn ==
    /\ NoThreadOverwritten
    /\ ForeignDescriptorOnlyAfterBadHandshakeOrClose
    /\ CallbackAfterDestructionOnlyOfUnstopped

\* The join waits for a reader that nothing wakes: librtlsdr was cancelled before it
\* read, or closing the server's socket did not end the recv().
NotWoken(s) ==
    /\ Doing = <<"join", s>> /\ ~woken[s]
    /\ s \in Rtl \/ (s = "server" /\ thread[s] \in {"recv", "cb"})

\* Every Start, Stop, change of source and exit comes to its end, or hangs in the join
\* of a reader that was not woken.
OperationsEndOrReaderNotWoken ==
    ~Idle ~> (Idle \/ \E s \in Sources : NotWoken(s))
=============================================================================
