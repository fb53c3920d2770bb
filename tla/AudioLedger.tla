----------------------------- MODULE AudioLedger -----------------------------
(***************************************************************************)
(* The playback collector of pi-metrics and the ledger it keeps for the    *)
(* conversions (services/pi-metrics: playback.go, cause.go, recodes.go,    *)
(* plan.go, and collect in main.go).  Every minute it asks Plex and        *)
(* Jellyfin what they re-encode and for whom, reads in Plex's log whether  *)
(* the client had asked for direct play, and keeps the codecs that were    *)
(* refused and the files on which they were.                               *)
(***************************************************************************)
EXTENDS Naturals, Sequences, SequencesExt, FiniteSets, Filters

CONSTANTS
    Clients,
    Profile,      \* of a client: app, browser, refuses, video; directPlay, what it may ask for
    Files,
    File,         \* of a file: its tracks' codecs, and whether it is in a library
    Plays,        \* who may play what
    Listed,       \* the files a ledger of before may hold
    LedgerLimit,  \* ledgerFileLimit
    CacheLimit,   \* causes remembered before they are dropped
    MaxPlays, MaxPolls, MaxFailures  \* bounds

VARIABLES
    playing,      \* of each client: the session, or Idle
    log, oldLog,  \* Plex's log and the one before: of a session, the last directPlay
    causes,       \* plexCauses, by session
    pc, found, problems,  \* the poll
    ledger,       \* in memory
    tmp, file,    \* the two names on disk
    store,        \* what collect keeps of the playback collector
    produced,     \* history: the last poll that had something to publish
    edited,       \* history: the file was edited by hand since it was written
    turned,       \* history: who asked otherwise in the middle of which file
    plays, polls, failures

world == <<playing, log, oldLog, turned, plays>>
poll == <<pc, found, problems, causes>>
kept == <<ledger, tmp, file>>
vars == <<world, poll, kept, store, produced, edited, polls, failures>>

Idle == [id |-> 0]
Sessions == 1 .. MaxPlays
NoLog == [s \in Sessions |-> ""]
Known == UNION {ToSet(File[f].tracks) : f \in Files}
-----------------------------------------------------------------------------
(* plan.go, cause.go and recodes.go, session by session. *)
FfprobeName(codec) == IF codec = "dca" THEN "dts" ELSE codec

\* SEED and what was learned; a codec is learned with the clients that refused it.
IncompatibleCodecs(codecs) ==
    ({"dts", "truehd"} \cup {FfprobeName(c) : c \in {d \in Known : codecs[d] # {}}}) \ {"ac3"}

\* decide: the tracks are of one language here (AudioPlan has the others).
Decide(e, codecs) ==
    LET bad == IncompatibleCodecs(codecs)
        main == FfprobeName(e.codec)
    IN CASE e.cause = "no_direct_play" -> "direct_play_off"
         [] e.cause # "no_direct_play" /\ main = "ac3" -> "refuses_target"
         [] e.cause # "no_direct_play" /\ main # "ac3" /\ ~File[e.path].library -> "not_library"
         [] OTHER -> IF main \notin bad THEN "main_playable"
                     ELSE IF \E c \in ToSet(File[e.path].tracks) : FfprobeName(c) \notin bad
                       THEN "has_playable" ELSE "actionable"

\* An entry written before causes were recorded has none: "only codec was".
Decided(e, codecs) ==
    LET whole == [e EXCEPT !.cause = IF @ = "" THEN "codec" ELSE @]
    IN [whole EXCEPT !.decision = Decide(whole, codecs)]
Load(l) == [l EXCEPT !.files = [i \in DOMAIN l.files |-> Decided(l.files[i], l.codecs)]]

\* Mutant: audio re-encoded along with the video teaches its codec.
LearnableWithVideo(s) == s.audio /\ s.cause = "codec" /\ ~Profile[s.client].browser
Learnable(s) == s.audio /\ s.cause = "codec" /\ ~Profile[s.client].browser /\ ~s.video
Listable(s) == Learnable(s) \/ (s.cause = "no_direct_play" /\ Learnable([s EXCEPT !.cause = "codec"]))

\* recordFile: to the head of the queue, whatever there was of the file; a
\* no_direct_play entry replaces only its like.
Outranked(l, s) ==
    s.cause # "codec" /\ \E i \in DOMAIN l.files : l.files[i].path = s.file /\ l.files[i].cause # "no_direct_play"
Records(l, s) == Listable(s) /\ s.file # "" /\ ~Outranked(l, s)
RecordFile(l, s) ==
    LET entry == [path |-> s.file, codec |-> s.codec, cause |-> s.cause, decision |-> ""]
        queue == <<entry>> \o Filter(l.files, {e \in ToSet(l.files) : e.path # s.file})
    IN IF Records(l, s)
         THEN [l EXCEPT !.files = IF Len(queue) > LedgerLimit THEN SubSeq(queue, 1, LedgerLimit) ELSE queue]
         ELSE l

Fold(l, s) ==
    RecordFile(IF Learnable(s) THEN [l EXCEPT !.codecs[s.codec] = @ \cup {s.client}] ELSE l, s)
Changes(l, s) == Learnable(s) \/ Records(l, s)
Folded(l, sessions) ==
    LET after[i \in 0 .. Len(sessions)] ==
            IF i = 0 THEN [ledger |-> l, changed |-> FALSE]
            ELSE LET before == after[i - 1]
                 IN [ledger |-> Fold(before.ledger, sessions[i]),
                     changed |-> before.changed \/ Changes(before.ledger, sessions[i])]
    IN after[Len(sessions)]

\* Mutant: the entries that are already there keep their decisions.
RecordNewOnly(l, sessions) ==
    LET new == Folded(l, sessions)
    IN [new EXCEPT !.ledger.files = [i \in DOMAIN @ |->
            IF @[i].decision = "" THEN Decided(@[i], new.ledger.codecs) ELSE @[i]]]
\* record: everything is decided again when anything changed.
Record(l, sessions) ==
    LET new == Folded(l, sessions)
    IN IF new.changed THEN [new EXCEPT !.ledger = Load(@)] ELSE new
-----------------------------------------------------------------------------
(* The world (external): what is played, and what the servers make of it. *)
Nobody == [c \in Known |-> {}]
Old(f) == [path |-> f, codec |-> File[f].tracks[1], cause |-> "", decision |-> ""]

Init ==
    /\ playing = [c \in Clients |-> Idle] /\ log = NoLog /\ oldLog = NoLog
    /\ turned = {} /\ causes = NoLog /\ pc = "sleep" /\ found = <<>> /\ problems = 0
    /\ file \in [codecs : {Nobody}, files : {<<>>} \cup {<<Old(f)>> : f \in Listed}]
    /\ ledger = Load(file) /\ tmp = file
    /\ store = [body |-> FALSE, last |-> 0, failures |-> 0] /\ produced = 0 /\ edited = TRUE
    /\ plays = 0 /\ polls = 0 /\ failures = 0

WorldMoves == UNCHANGED <<poll, kept, store, produced, edited, polls, failures>>

\* A client asks for a file, with direct play or ("for some 4K files") without;
\* Plex logs the request before it answers.
Play(c, f, asks) ==
    /\ playing[c] = Idle /\ <<c, f>> \in Plays
    /\ plays < MaxPlays /\ plays' = plays + 1
    /\ playing' = [playing EXCEPT ![c] =
           [id |-> plays + 1, file |-> f, track |-> 1, asked |-> asks]]
    /\ log' = [log EXCEPT ![plays + 1] = asks]
    /\ UNCHANGED <<oldLog, turned>> /\ WorldMoves

\* Another track of the same session: another request.
Switch(c, asks) ==
    /\ playing[c] # Idle /\ playing[c].track < Len(File[playing[c].file].tracks)
    /\ playing' = [playing EXCEPT ![c].track = @ + 1, ![c].asked = asks]
    /\ log' = [log EXCEPT ![playing[c].id] = asks]
    /\ turned' = IF asks = playing[c].asked THEN turned ELSE turned \cup {<<c, playing[c].file>>}
    /\ UNCHANGED <<oldLog, plays>> /\ WorldMoves

Stop(c) ==
    /\ playing[c] # Idle /\ playing' = [playing EXCEPT ![c] = Idle]
    /\ UNCHANGED <<log, oldLog, turned, plays>> /\ WorldMoves

\* Bound: one rotation.
Rotate ==
    /\ log # NoLog /\ oldLog = NoLog /\ oldLog' = log /\ log' = NoLog
    /\ UNCHANGED <<playing, turned, plays>> /\ WorldMoves

\* "removed from the file by hand and the container restarted".
Edit(c) ==
    /\ file.codecs[c] # {} /\ file' = [file EXCEPT !.codecs[c] = {}] /\ edited' = TRUE
    /\ UNCHANGED <<world, poll, ledger, tmp, store, produced, polls, failures>>

\* A row of either server.  With direct play off all but aac is re-encoded; when
\* the video is, the audio goes along.
Delivered(c) ==
    LET s == playing[c]
        codec == File[s.file].tracks[s.track]
        refused == codec \in Profile[c].refuses
    IN [client |-> c, id |-> s.id, key |-> s.file, codec |-> codec, video |-> Profile[c].video,
        audio |-> Profile[c].video \/ refused \/ (s.asked = "0" /\ codec # "aac"),
        \* jellyfinAudioCause, from its own reasons; Plex's rows say nothing.
        cause |-> IF Profile[c].app = "plex" THEN "" ELSE IF refused THEN "codec" ELSE "other",
        file |-> IF Profile[c].app = "plex" THEN "" ELSE s.file]
Rows(app) == {Delivered(c) : c \in {d \in Clients : Profile[d].app = app /\ playing[d] # Idle}}
-----------------------------------------------------------------------------
(* playback, as collect calls it. *)
Ask == UNCHANGED <<world, kept, produced, edited>>

PlexSessions ==
    /\ pc = "sleep" /\ polls < MaxPolls /\ polls' = polls + 1
    /\ pc' = "causes" /\ found' = SetToSeq(Rows("plex")) /\ problems' = 0
    /\ UNCHANGED <<causes, store, failures>> /\ Ask

\* plexAudioCause: remembered, or the last request in the newest log that has one.
Logged(id) == IF log[id] # "" THEN log[id] ELSE oldLog[id]
Cause(id) == CASE Logged(id) = "1" -> "codec" [] Logged(id) = "0" -> "no_direct_play" [] OTHER -> "unknown"
PlexAudioCause(id) == IF causes[id] # "" THEN causes[id] ELSE Cause(id)
Remembered(ids) ==
    LET before == {s \in Sessions : causes[s] # ""}
        learned == {s \in ids : causes[s] = "" /\ Cause(s) # "unknown"}
    IN IF learned # {} /\ Cardinality(before) > CacheLimit
         THEN [s \in Sessions |-> IF s \in learned THEN Cause(s) ELSE ""]
         ELSE [s \in Sessions |-> IF s \in learned THEN Cause(s) ELSE causes[s]]

\* The causes, then plexMedia for the file, which may fail and leave it unnamed.
PlexCauses ==
    /\ pc = "causes" /\ pc' = "jellyfin"
    /\ causes' = Remembered({found[i].id : i \in {j \in DOMAIN found : found[j].audio}})
    /\ LET seen(s) == IF s.audio THEN [s EXCEPT !.cause = PlexAudioCause(s.id)] ELSE s
           named(s) == IF Listable(s) THEN [s EXCEPT !.file = s.key] ELSE s
       IN \/ /\ found' = [i \in DOMAIN found |-> named(seen(found[i]))]
             /\ UNCHANGED failures
          \/ /\ \E i \in DOMAIN found : Listable(seen(found[i]))
             /\ failures < MaxFailures /\ failures' = failures + 1
             /\ found' = [i \in DOMAIN found |-> seen(found[i])]
    /\ UNCHANGED <<problems, store, polls>> /\ Ask

JellyfinSessions ==
    /\ pc = "jellyfin" /\ pc' = "observe"
    /\ found' = found \o SetToSeq(Rows("jellyfin"))
    /\ UNCHANGED <<problems, causes, store, polls, failures>> /\ Ask

\* One server cannot be read.  With nothing from the other either, the poll
\* returns no line.
ServerFails ==
    /\ failures < MaxFailures /\ failures' = failures + 1
    /\ \/ pc = "sleep" /\ pc' = "jellyfin" /\ found' = <<>> /\ problems' = 1
          /\ polls < MaxPolls /\ polls' = polls + 1
       \/ pc = "jellyfin" /\ pc' = "observe" /\ problems' = problems + 1
          /\ UNCHANGED <<found, polls>>
    /\ UNCHANGED <<causes, store>> /\ Ask

Collected(lines) ==
    [body |-> store.body \/ lines,
     last |-> IF lines \/ ~store.body THEN polls ELSE store.last,
     failures |-> problems]

\* playback: "len(problems) > 0 && len(found) == 0".
NothingToTell ==
    /\ pc = "observe" /\ problems > 0 /\ found = <<>>
    /\ pc' = "sleep" /\ store' = Collected(FALSE)
    /\ UNCHANGED <<found, problems, causes, polls, failures>> /\ Ask

\* ledgerObserve, and the lines of the poll.
LedgerObserve ==
    /\ pc = "observe" /\ ~(problems > 0 /\ found = <<>>)
    /\ LET new == Record(ledger, found)
       IN ledger' = new.ledger /\ pc' = IF new.changed THEN "write" ELSE "publish"
    /\ UNCHANGED <<world, found, problems, causes, tmp, file, store, produced, edited, polls, failures>>

WriteTmp ==
    /\ pc = "write" /\ pc' = "rename" /\ tmp' = ledger
    /\ UNCHANGED <<world, found, problems, causes, ledger, file, store, produced, edited, polls, failures>>

WriteFails ==
    /\ pc \in {"write", "rename"} /\ pc' = "publish"
    /\ failures < MaxFailures /\ failures' = failures + 1
    /\ UNCHANGED <<world, found, problems, causes, kept, store, produced, edited, polls>>

RenameTmp ==
    /\ pc = "rename" /\ pc' = "publish" /\ file' = tmp /\ edited' = FALSE
    /\ UNCHANGED <<world, found, problems, causes, ledger, tmp, store, produced, polls, failures>>

Publish ==
    /\ pc = "publish" /\ pc' = "sleep"
    /\ store' = Collected(TRUE) /\ produced' = polls
    /\ UNCHANGED <<world, found, problems, causes, kept, edited, polls, failures>>

\* main: ledgerLoad "before the playback collector starts".
Restart ==
    /\ failures < MaxFailures /\ failures' = failures + 1
    /\ ledger' = Load(file) /\ causes' = NoLog
    /\ pc' = "sleep" /\ found' = <<>> /\ problems' = 0
    /\ store' = [body |-> FALSE, last |-> 0, failures |-> 0] /\ produced' = 0
    /\ UNCHANGED <<world, tmp, file, edited, polls>>

Next ==
    \/ \E c \in Clients :
          \/ Stop(c)
          \/ \E asks \in Profile[c].directPlay :
                Switch(c, asks) \/ \E f \in Files : Play(c, f, asks)
    \/ Rotate \/ \E c \in Known : Edit(c)
    \/ PlexSessions \/ PlexCauses \/ JellyfinSessions \/ ServerFails \/ NothingToTell
    \/ LedgerObserve \/ WriteTmp \/ WriteFails \/ RenameTmp \/ Publish \/ Restart

Spec == Init /\ [][Next]_vars
-----------------------------------------------------------------------------
\* "Only codec says anything about the file" (cause.go): a codec is learned from a
\* client that refuses it, never from a browser, from a session that had turned
\* direct play off or from one whose video was re-encoded, whatever was logged,
\* remembered, forgotten or rotated when.  The one way past it is a client that asks
\* otherwise in the middle of a session, which is judged by either request: it may
\* teach a codec of the file that it was playing, and no other.
LearnedFromRefusals ==
    \A l \in {ledger, file} : \A codec \in Known : \A c \in l.codecs[codec] :
        /\ ~Profile[c].browser
        /\ \/ codec \in Profile[c].refuses
           \/ \E f \in Files : <<c, f>> \in turned /\ codec \in ToSet(File[f].tracks)

\* What the page lists is decided by the codecs listed with it, in memory and in
\* the file: learning a codec, a crash or a failed write leaves no older verdict.
DecisionsFollow ==
    \A l \in {ledger} \cup (IF edited THEN {} ELSE {file}) : \A i \in DOMAIN l.files :
        /\ l.files[i].decision = Decide(l.files[i], l.codecs)
        /\ \A j \in DOMAIN l.files : i # j => l.files[i].path # l.files[j].path

\* "When this collector last produced a snapshot".
LastSuccessProduced == pc = "sleep" => store.last = produced
=============================================================================
