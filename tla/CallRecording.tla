---------------------------- MODULE CallRecording ----------------------------
(***************************************************************************)
(* The recording of a voice call.  A worker thread decodes the frames of a *)
(* C-channel and writes them; the UI thread turns recording on and off,    *)
(* changes the format and removes the decoder, under a lock the worker     *)
(* does not hold while it decodes.  VoiceCallLog lists the calls.          *)
(*                                                                         *)
(* One decoder at a time.  A frame is its number, a file the frames that   *)
(* were written to it; every file opened has a name of its own.            *)
(***************************************************************************)
EXTENDS Naturals, Sequences, FiniteSets, SequencesExt

CONSTANTS
    BufferSize,   \* frames pcmBuf_ may hold
    KMax,         \* VoiceCallLog::kMax
    MaxFrames, MaxFiles, MaxCalls   \* bounds: frames decoded, files opened, decoders made

Formats == {"wav", "ogg"}

VARIABLES
    recordOn, format,   \* the manager's recordOn_, recordFmt_
    calls,              \* decoders made
    listed,             \* the decoder is in its sub-band
    decoder,            \* record_, recordFmt_, recActive_, pcmBuf_, voiceAesId_, recordingPath_
    writer,             \* rec_: the file it has open (none: 0)
    pc,                 \* the worker: out, idle, check, record, open, path, list, write, fwrite
    frames,             \* frames decoded
    files,              \* on disk: format, frames, frames of the header
    log,                \* VoiceCallLog
    accepted, lost,     \* history: frames that came while recording was on; those lost with
                        \* the buffer of a removed decoder or to a change of format
    fault               \* the file was closed between the worker's test and its fwrite

vars == <<recordOn, format, calls, listed, decoder, writer, pc, frames, files, log,
          accepted, lost, fault>>

NoFile == 0
NoDecoder == [record |-> FALSE, fmt |-> "wav", active |-> FALSE, buffer |-> <<>>, aes |-> FALSE,
              path |-> NoFile]

Init ==
    /\ recordOn \in BOOLEAN /\ format \in Formats
    /\ calls = 0 /\ listed = FALSE
    /\ decoder = NoDecoder
    /\ writer = NoFile
    /\ pc = "out"
    /\ frames = 0
    /\ files = <<>> /\ log = <<>>
    /\ accepted = {} /\ lost = {}
    /\ fault = FALSE

manager == <<recordOn, format, calls, listed>>
history == <<accepted, lost>>

-----------------------------------------------------------------------------
(* WavWriter                                                               *)

\* Mutant of Closed: the header stays as it was when the file was opened.
ClosedUnpatched(list, f) == [list EXCEPT ![f].removed = list[f].data = <<>>]

\* close: the header is patched; a file without audio is removed.
Closed(list, f) ==
    [list EXCEPT ![f].header = Len(list[f].data), ![f].removed = list[f].data = <<>>]

Close ==
    /\ writer' = NoFile
    /\ files' = IF writer = NoFile THEN files ELSE Closed(files, writer)

-----------------------------------------------------------------------------
(* The worker                                                              *)

\* process: maintainRecording, then the frames of the block.
Maintain ==
    /\ pc = "idle" /\ pc' = "check"
    /\ IF decoder.active /\ ~decoder.record
       THEN Close /\ decoder' = [decoder EXCEPT !.active = FALSE]
       ELSE UNCHANGED <<writer, files, decoder>>
    /\ UNCHANGED <<manager, frames, log, history, fault>>

\* onVoice: a frame, recorded if record_ says so; a damaged one is not.
OnVoice ==
    /\ pc = "check" /\ frames < MaxFrames
    /\ frames' = frames + 1
    /\ \/ decoder.record /\ pc' = "record" /\ accepted' = accepted \cup {frames'}
       \/ pc' = "idle" /\ UNCHANGED accepted
    /\ UNCHANGED <<manager, decoder, writer, files, log, lost, fault>>

\* A block without a voice frame; the signalling unit that names the aircraft.
OnDecoded ==
    /\ pc = "check" /\ pc' = "idle"
    /\ \/ decoder' = [decoder EXCEPT !.aes = TRUE]
       \/ UNCHANGED decoder
    /\ UNCHANGED <<manager, writer, frames, files, log, history, fault>>

Buffers ==
    /\ Len(decoder.buffer) < BufferSize /\ ~decoder.aes
    /\ decoder' = [decoder EXCEPT !.buffer = Append(@, frames)]

\* Until the aircraft is known, the buffer is full or two seconds have passed, which
\* takes a second frame.
MayOpen == decoder.aes \/ decoder.buffer # <<>>

\* recordPcm.
Record ==
    /\ pc = "record"
    /\ \/ decoder.active /\ pc' = "write" /\ UNCHANGED <<decoder, writer, files, log>>
       \/ ~decoder.active /\ Buffers /\ pc' = "idle" /\ UNCHANGED <<writer, files, log>>
       \/ /\ ~decoder.active /\ MayOpen
          /\ Len(files) < MaxFiles
          /\ files' = Append(IF writer = NoFile THEN files ELSE Closed(files, writer),
                             [fmt |-> decoder.fmt, data |-> <<>>, header |-> 0, removed |-> FALSE, call |-> calls])
          /\ writer' = Len(files')
          /\ pc' = "open"
          /\ UNCHANGED <<decoder, log>>
    /\ UNCHANGED <<manager, frames, history, fault>>

\* The directory cannot be written: the buffer is dropped with the frame.
OpenFails ==
    /\ pc = "record" /\ ~decoder.active /\ MayOpen
    /\ pc' = "idle"
    /\ lost' = lost \cup ToSet(decoder.buffer) \cup {frames}
    /\ decoder' = [decoder EXCEPT !.buffer = <<>>]
    /\ UNCHANGED <<manager, writer, frames, files, log, accepted, fault>>

Added(list, e) ==
    LET all == Append(list, e) IN IF Len(all) > KMax THEN Tail(all) ELSE all

\* After open, in this order and with the UI thread in between: recActive_, then
\* recordingPath_, then the entry in the log and the buffer to the file.
SetActive ==
    /\ pc = "open" /\ pc' = "path"
    /\ decoder' = [decoder EXCEPT !.active = TRUE]
    /\ UNCHANGED <<manager, writer, frames, files, log, history, fault>>

SetPath ==
    /\ pc = "path" /\ pc' = "list"
    /\ decoder' = [decoder EXCEPT !.path = Len(files)]
    /\ UNCHANGED <<manager, writer, frames, files, log, history, fault>>

\* opened and raced are history: the file the entry was made for, and whether the
\* decoder was removed while it opened its next file.
Entry(f, path, recording, call) ==
    [file |-> f, path |-> path, recording |-> recording, call |-> call, opened |-> f, raced |-> FALSE]

ListCall ==
    /\ pc = "list" /\ pc' = "write"
    /\ log' = Added(log, Entry(decoder.path, TRUE, TRUE, calls))
    /\ decoder' = [decoder EXCEPT !.buffer = <<>>]
    /\ IF writer = NoFile
       THEN lost' = lost \cup ToSet(decoder.buffer) /\ UNCHANGED files
       ELSE files' = [files EXCEPT ![writer].data = @ \o decoder.buffer] /\ UNCHANGED lost
    /\ UNCHANGED <<manager, writer, frames, accepted, fault>>

\* WavWriter::write: the test, then the write.
WriteTest ==
    /\ pc = "write"
    /\ IF writer = NoFile THEN pc' = "idle" /\ lost' = lost \cup {frames}
                          ELSE pc' = "fwrite" /\ UNCHANGED lost
    /\ UNCHANGED <<manager, decoder, writer, frames, files, log, accepted, fault>>

Fwrite ==
    /\ pc = "fwrite" /\ pc' = "idle"
    /\ IF writer = NoFile
       THEN fault' = TRUE /\ lost' = lost \cup {frames} /\ UNCHANGED files
       ELSE files' = [files EXCEPT ![writer].data = Append(@, frames)] /\ UNCHANGED <<fault, lost>>
    /\ UNCHANGED <<manager, decoder, writer, frames, log, accepted>>

\* The worker drops its snapshot: a decoder that was removed is destroyed.
Release ==
    /\ ~listed /\ pc \in {"idle", "check"}
    /\ pc' = "out"
    /\ Close
    /\ lost' = lost \cup ToSet(decoder.buffer)
    /\ decoder' = NoDecoder
    /\ UNCHANGED <<manager, frames, log, accepted, fault>>

-----------------------------------------------------------------------------
(* The UI thread                                                           *)

AddDecoder ==
    /\ pc = "out" /\ calls < MaxCalls
    /\ calls' = calls + 1 /\ listed' = TRUE
    /\ decoder' = [NoDecoder EXCEPT !.record = recordOn, !.fmt = format]
    /\ pc' = "idle"
    /\ UNCHANGED <<recordOn, format, writer, frames, files, log, history, fault>>

\* Mutant of SetRecording: recording that is turned off closes the file at once.
SetRecordingClosing(on, fmt) ==
    /\ IF decoder.record /\ (fmt # decoder.fmt \/ ~on) THEN Close ELSE UNCHANGED <<writer, files>>
    /\ decoder' = [decoder EXCEPT !.record = on, !.fmt = fmt,
                      !.active = decoder.active /\ ~(decoder.record /\ fmt # decoder.fmt)]

\* Decoder::setRecording.
SetRecording(on, fmt) ==
    /\ IF decoder.record /\ fmt # decoder.fmt THEN Close ELSE UNCHANGED <<writer, files>>
    /\ decoder' = [decoder EXCEPT !.record = on, !.fmt = fmt,
                      !.active = decoder.active /\ ~(decoder.record /\ fmt # decoder.fmt)]

\* The check box and the format combo of the panes: of the decoders in their sub-bands.
ToggleRecord ==
    /\ recordOn' = ~recordOn
    /\ IF listed THEN SetRecording(~recordOn, format) ELSE UNCHANGED <<decoder, writer, files>>
    /\ UNCHANGED <<format, calls, listed, pc, frames, log, history, fault>>

ChooseFormat(fmt) ==
    /\ format' = fmt
    /\ IF listed THEN SetRecording(recordOn, fmt) ELSE UNCHANGED <<decoder, writer, files>>
    /\ UNCHANGED <<recordOn, calls, listed, pc, frames, log, history, fault>>

\* updateEnd looks for the newest entry of the decoder that is live.
EndedEntry ==
    LET live == {i \in DOMAIN log : log[i].call = calls /\ log[i].recording}
    IN {i \in live : \A j \in live : j <= i}

UpdateEnd ==
    log' = [i \in DOMAIN log |->
              IF i \in EndedEntry /\ decoder.active
              THEN [log[i] EXCEPT !.recording = FALSE, !.path = FALSE, !.file = decoder.path,
                                    !.raced = pc = "list"]
              ELSE log[i]]

RemoveDecoder ==
    /\ listed /\ listed' = FALSE
    /\ UpdateEnd
    /\ UNCHANGED <<recordOn, format, calls, decoder, writer, pc, frames, files, history, fault>>

\* removeAll, as every tuning calls it, and the Stop button.
RemoveAll ==
    /\ listed /\ listed' = FALSE
    /\ UNCHANGED <<recordOn, format, calls, decoder, writer, pc, frames, files, log, history, fault>>

ClearLog == log' = <<>> /\ UNCHANGED <<manager, decoder, writer, pc, frames, files, history, fault>>

\* scanDir: the files no entry has the name of, in the order of the directory; the entry
\* of a live call has the path.
Unlisted ==
    {f \in DOMAIN files : /\ ~files[f].removed
                          /\ \A i \in DOMAIN log : log[i].path \/ log[i].file # f}

Rescan ==
    \E found \in SetToSeqs(Unlisted) :
        /\ Len(log) + Len(found) <= KMax
        /\ log' = log \o [i \in 1 .. Len(found) |->
                            Entry(found[i], FALSE, FALSE, files[found[i]].call)]
        /\ UNCHANGED <<manager, decoder, writer, pc, frames, files, history, fault>>

Next ==
    \/ Maintain \/ OnVoice \/ OnDecoded \/ Record \/ OpenFails \/ SetActive \/ SetPath \/ ListCall
    \/ WriteTest \/ Fwrite \/ Release
    \/ AddDecoder \/ ToggleRecord \/ \E fmt \in Formats : ChooseFormat(fmt)
    \/ RemoveDecoder \/ RemoveAll \/ ClearLog \/ Rescan

Spec == Init /\ [][Next]_vars

-----------------------------------------------------------------------------
(* Properties                                                              *)

\* Whatever the UI thread does between the steps of the worker, a frame that came while
\* recording was on is in one file, once and in order, or waits in the buffer, or was
\* lost in one of the known ways; and a closed file's header counts its frames.
RecordingKeepsFrames ==
    LET written == UNION {ToSet(files[f].data) : f \in DOMAIN files}
        inFlight == IF pc \in {"record", "open", "path", "list", "write", "fwrite"} THEN {frames} ELSE {}
    IN
    /\ accepted = written \cup ToSet(decoder.buffer) \cup inFlight \cup lost
    /\ \A f, g \in DOMAIN files : \A i \in DOMAIN files[f].data, j \in DOMAIN files[g].data :
          f < g \/ (f = g /\ i < j) => files[f].data[i] < files[g].data[j]
    /\ \A f \in DOMAIN files : f # writer => files[f].header = Len(files[f].data)

\* The worker's file is closed under its hands only by a change of format: turning
\* recording off and removing the decoder leave the closing to the worker.
ClosedInWrite ==
    writer # NoFile /\ writer' = NoFile /\ pc \in {"open", "path", "list", "write", "fwrite"}

ClosedOnlyByFormat == [][ClosedInWrite => format' # format]_vars

\* The entry of a call that has several files is ended with its own file, unless the
\* decoder was removed between the name of the next file and its entry.
EndedEntryHasItsFile == \A i \in DOMAIN log : log[i].file = log[i].opened \/ log[i].raced

\* Frames, files and entries of the call log agree.
CallsAreOnFile == RecordingKeepsFrames /\ EndedEntryHasItsFile
=============================================================================
